---------------------------- MODULE MCOwnership ----------------------------
EXTENDS Ownership, TLC
TxnSymmetry == Permutations(Txn)
============================================================================
