------------------------------- MODULE Session -------------------------------
(***************************************************************************)
(* The session ownership state machine of app/escalation/session.py: the   *)
(* states of SessionController, the transitions it accepts, and who owns   *)
(* the live surface in each state.  The state itself is a variable of the  *)
(* modules that use this one.                                              *)
(***************************************************************************)

Actors == {"automation", "human"}

SessionState ==
    {"AUTOMATION", "ESCALATED", "HUMAN_CONTROL", "RESUMING", "COMPLETED", "ABORTED"}

Transitions ==
    [AUTOMATION    |-> {"ESCALATED", "COMPLETED"},
     ESCALATED     |-> {"HUMAN_CONTROL", "AUTOMATION", "ABORTED"},
     HUMAN_CONTROL |-> {"RESUMING", "ABORTED"},
     RESUMING      |-> {"AUTOMATION", "COMPLETED"},
     COMPLETED     |-> {},
     ABORTED       |-> {}]

\* A faulty table: a released session belongs to nobody until the run wakes up.
Owner_notResuming ==
    [AUTOMATION    |-> "automation",
     ESCALATED     |-> "nobody",
     HUMAN_CONTROL |-> "human",
     RESUMING      |-> "nobody",
     COMPLETED     |-> "nobody",
     ABORTED       |-> "nobody"]

\* control_owner: "nobody" is the None of the Python table.
Owner ==
    [AUTOMATION    |-> "automation",
     ESCALATED     |-> "nobody",
     HUMAN_CONTROL |-> "human",
     RESUMING      |-> "automation",
     COMPLETED     |-> "nobody",
     ABORTED       |-> "nobody"]

\* transition(target) raises IllegalTransitionError unless this holds.
MayGo(state, target) == target \in Transitions[state]

\* authorize(actor) raises ControlViolationError unless this holds.
Authorized(state, actor) == Owner[state] = actor

\* complete() is a no-op on a session that is over, and raises elsewhere than
\* from AUTOMATION and RESUMING.
IsOver(state) == state \in {"COMPLETED", "ABORTED"}

MayComplete(state) == IsOver(state) \/ state \in {"AUTOMATION", "RESUMING"}

\* A faulty complete(): it leaves a state that the table does not have.
Completed_closed(state) == IF IsOver(state) THEN state ELSE "CLOSED"

Completed(state) == IF IsOver(state) THEN state ELSE "COMPLETED"
==============================================================================
