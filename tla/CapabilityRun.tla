---------------------------- MODULE CapabilityRun ----------------------------
(***************************************************************************)
(* What a run of a capability promises, without saying how: its steps are  *)
(* accounted for in order, from the first on; the run may stop at any time *)
(* with an outcome; the outcome SUCCESS means that every step is accounted *)
(* for; and the run does stop.                                             *)
(***************************************************************************)
EXTENDS Integers

CONSTANTS N,          \* the number of steps
          Outcomes    \* the ways a run can end other than SUCCESS

VARIABLES accounted,  \* how many steps are accounted for
          outcome     \* "none" while the run goes on

rvars == <<accounted, outcome>>

Init == accounted = 0 /\ outcome = "none"

\* A step is done, or several are found to have been done.
Account ==
    /\ outcome = "none"
    /\ \E n \in accounted + 1 .. N : accounted' = n
    /\ UNCHANGED outcome

Succeed ==
    /\ outcome = "none"
    /\ accounted = N
    /\ outcome' = "SUCCESS"
    /\ UNCHANGED accounted

Stop ==
    /\ outcome = "none"
    /\ outcome' \in Outcomes
    /\ UNCHANGED accounted

Next == Account \/ Succeed \/ Stop

Safety == Init /\ [][Next]_rvars

Spec == Safety /\ WF_rvars(Next)
==============================================================================
