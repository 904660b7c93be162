---------------------------- MODULE MCSessionFlow ----------------------------
(* Small instances of SessionFlow for TLC. *)
EXTENDS SessionFlow, TLC

Symmetry == Permutations(Ops)

=============================================================================
