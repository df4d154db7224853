SPECIFICATION Spec
CONSTANTS
  r1 = r1
  s1 = s1
  s2 = s2
  a1 = a1
  Replica = {r1}
  Slot = {s1, s2}
  Alias = {a1}
  TTL = 2
  NegTTL = 1
  D = 1
  PerShard = 1
  Absent = {1}
  Expiring = {0}
  MaxEdits = 1
SYMMETRY Symm
INVARIANTS TypeOK StalenessBounded
