------------------------------ MODULE MCOutbox ------------------------------
(* Model-checking instance of Outbox. *)
EXTENDS Outbox, TLC

Symmetry == Permutations(Replica)
=============================================================================
