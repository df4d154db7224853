---------------------------- MODULE MCAutomation ----------------------------
(* Model-checking instance of Automation. *)
EXTENDS Automation, TLC

Symmetry == Permutations(Replica)
=============================================================================
