-------------------------- MODULE MCSupervisedReplay --------------------------
(* SupervisedReplay on artifacts of one or two steps.                         *)
EXTENDS SupervisedReplay

CONSTANTS c1, dialog    \* a console request; a rule

Commit ==
    [pre |-> TRUE, post |-> TRUE, target |-> TRUE, extracts |-> FALSE,
     irreversible |-> TRUE, attempts |-> 1, escalates |-> TRUE]

Read ==
    [pre |-> FALSE, post |-> FALSE, target |-> TRUE, extracts |-> TRUE,
     irreversible |-> FALSE, attempts |-> 1, escalates |-> FALSE]

MCSteps == <<Read, Commit>>

MCKinds == E!InterventionKind

MCRules ==
    [r \in Rules |-> [category |-> "recoverable", recovery |-> "click", max_attempts |-> 1]]
==============================================================================
