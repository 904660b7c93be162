--------------------------- MODULE MCOutboxWorker ---------------------------
(* Small instances of OutboxWorker for TLC. *)
EXTENDS OutboxWorker, TLC

Symmetry == Permutations(Messages) \cup Permutations(Workers)

=============================================================================
