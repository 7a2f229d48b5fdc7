------------------------------ MODULE MCHandoff ------------------------------
(* Handoff on small instances.  The kinds are one of each sort the code tells *)
(* apart: the pause, the approval, and any request that only control answers. *)
EXTENDS Handoff

CONSTANTS c1, c2    \* console requests

MCKinds == {"approval_required", "checkpoint_failed", "operator_pause"}
==============================================================================
