SPECIFICATION Spec
CONSTANTS
  r1 = r1
  s1 = s1
  a1 = a1
  Replica = {r1}
  Slot = {s1}
  Alias = {a1}
  TTL = 2
  NegTTL = 1
  D = 0
  PerShard = 1
  Absent = {}
  Expiring = {}
  MaxEdits = 1
INVARIANTS StaleAtMostTTL
