--------------------------- MODULE MCRedirectCache ---------------------------
(* RedirectCache on small instances. *)
EXTENDS RedirectCache, TLC

Symm == Permutations(Replica) \cup Permutations(Slot)
=============================================================================
