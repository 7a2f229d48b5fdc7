--------------------------- MODULE MCLegacyCore ---------------------------
(* Instances of LegacyCore for TLC. *)
EXTENDS LegacyCore

\* Neither a tab nor a member is named anywhere.
TabAndMemberSymmetry == Permutations(Tabs) \cup Permutations(Members)
===========================================================================
