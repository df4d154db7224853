CONSTANTS
  N = 3
  Txn = {t1, t2}
SYMMETRY TxnSymmetry
SPECIFICATION Spec
INVARIANTS NeverOwnerless
CHECK_DEADLOCK FALSE
