---------------------------- MODULE MCHostCache ----------------------------
(* HostCache on a small instance. *)
EXTENDS HostCache, TLC

Symm == Permutations(Replica)
=============================================================================
