CONSTANTS
  Replica = {r1}
  Editor = {}
  Subject = {1, 2}
  Top = 3
  Trigger = "link.max_clicks"
  Thresholds = {1}
  MatchLimit = 2
  MaxTime = 1
  MaxFaults = 0
SPECIFICATION Spec
INVARIANT SeenByTheRule
