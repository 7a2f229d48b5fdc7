--------------------------- MODULE ControlHandoff ---------------------------
(***************************************************************************)
(* What the handoff promises, without any of its machinery: the single     *)
(* token of control over one live page.                                    *)
(*                                                                         *)
(* Automation starts with control.  It may put it down and ask for help;   *)
(* while a request for help is open nobody holds control until a human     *)
(* picks it up; closing the request either gives control back to the       *)
(* automation or ends the session, and every request is closed some day.   *)
(* An ended session never gives control to anybody again.                  *)
(***************************************************************************)

VARIABLES holder,    \* who may act: "automation", "human" or "nobody"
          asking,    \* a request for help is open
          over       \* the session has ended

avars == <<holder, asking, over>>

Init == holder = "automation" /\ ~asking /\ ~over

Ask ==
    /\ holder = "automation"
    /\ holder' = "nobody"
    /\ asking' = TRUE
    /\ UNCHANGED over

PickUp ==
    /\ asking
    /\ holder = "nobody"
    /\ holder' = "human"
    /\ UNCHANGED <<asking, over>>

GiveBack ==
    /\ asking
    /\ holder' = "automation"
    /\ asking' = FALSE
    /\ UNCHANGED over

GiveUp ==
    /\ asking
    /\ holder' = "nobody"
    /\ asking' = FALSE
    /\ over' = TRUE

\* The run ends on its own, or asks and is told at once that nobody is there.
End ==
    /\ ~asking
    /\ ~over
    /\ holder' = "nobody"
    /\ over' = TRUE
    /\ UNCHANGED asking

Close == GiveBack \/ GiveUp

Next == Ask \/ PickUp \/ Close \/ End

Safety == Init /\ [][Next]_avars

Spec == Safety /\ WF_avars(Close)
==============================================================================
