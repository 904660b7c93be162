-------------------------- MODULE MCChallengeFlow --------------------------
(* Small instances of ChallengeFlow for TLC. *)
EXTENDS ChallengeFlow, TLC

Symmetry == Permutations(Ops)

=============================================================================
