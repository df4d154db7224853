CONSTANTS
  Domain = {1}
  Hostname = {h1}
  Token = {t1, t2}
  Request = {c1}
  Replica = {r1}
  Batch = 1
  Grace = 1
  PassTicks = 1
  MaxFaults = 0
SPECIFICATION Spec
PROPERTY WarnedBeforeStop
