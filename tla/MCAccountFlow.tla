---------------------------- MODULE MCAccountFlow ----------------------------
(* Small instances of AccountFlow for TLC. *)
EXTENDS AccountFlow, TLC

Symmetry == Permutations(Ops) \cup Permutations(Existing)

=============================================================================
