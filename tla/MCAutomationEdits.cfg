CONSTANTS
  Replica = {r1}
  Editor = {e1}
  Subject = {1, 2}
  Top = 3
  Trigger = "link.expired"
  Thresholds = {1, 2}
  MatchLimit = 2
  MaxTime = 1
  MaxFaults = 1
SPECIFICATION FairSpec
INVARIANTS AtMostOnce NoneSkipped
PROPERTIES BacklogIsDropped ImplementsCursor EventuallyFires
