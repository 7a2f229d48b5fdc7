--------------------------- MODULE MCReplayExecutor ---------------------------
(* ReplayExecutor on small artifacts, made of the sorts of steps that the     *)
(* recorder writes: committing, pressing a key, and reading a result.         *)
EXTENDS ReplayExecutor

CONSTANTS transient, dialog, notFound    \* rules

Commit ==
    [pre |-> TRUE, post |-> TRUE, target |-> TRUE, extracts |-> FALSE,
     irreversible |-> TRUE, attempts |-> 1, escalates |-> TRUE]

Press ==
    [pre |-> TRUE, post |-> FALSE, target |-> FALSE, extracts |-> FALSE,
     irreversible |-> FALSE, attempts |-> 2, escalates |-> FALSE]

Read ==
    [pre |-> TRUE, post |-> FALSE, target |-> TRUE, extracts |-> TRUE,
     irreversible |-> FALSE, attempts |-> 1, escalates |-> FALSE]

MCPair == <<Commit, Read>>

\* From the committing step a hand-off may skip two steps at once.
MCFlow == <<Commit, Press, Read>>

\* Reading comes first: a hand-off may resume beyond it.
MCReadFirst == <<Read, Commit>>

MCRules ==
    [r \in Rules |->
        CASE r = transient -> [category |-> "recoverable", recovery |-> "retry_step",
                               max_attempts |-> 1]
          [] r = dialog -> [category |-> "recoverable", recovery |-> "click",
                            max_attempts |-> 1]
          [] r = notFound -> [category |-> "business_outcome", recovery |-> "click",
                              max_attempts |-> 1]]
==============================================================================
