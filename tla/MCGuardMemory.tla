---------------------------- MODULE MCGuardMemory ----------------------------
(* Small instances of GuardMemory for TLC. *)
EXTENDS GuardMemory

Symmetry == Permutations(Keys)

=============================================================================
