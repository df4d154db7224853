CONSTANTS
  Domain = {1, 2}
  Hostname = {h1, h2}
  Token = {t1, t2, t3}
  Request = {}
  Replica = {r1}
  Batch = 1
  Grace = 1
  PassTicks = 0
  MaxFaults = 1
SPECIFICATION LapsedSpec
PROPERTY LapsedStops
