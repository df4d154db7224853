SPECIFICATION FairSpec
CONSTANTS
  r1 = r1
  r2 = r2
  Replica = {r1, r2}
  HourlyReload = TRUE
  MaxChanges = 1
  MaxFaults = 1
INVARIANTS TypeOK NoStrandedArming BroadcastObserved
PROPERTIES BackstopConverges
