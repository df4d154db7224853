CONSTANTS
  Domain = {1, 2}
  Hostname = {h1, h2}
  Token = {t1, t2}
  Request = {c1}
  Replica = {r1}
  Batch = 2
  Grace = 1
  PassTicks = 1
  MaxFaults = 1
SYMMETRY Symmetry
SPECIFICATION ShapesSpec
INVARIANTS TypeOK ServedIsProved GraceIsWhole ChangesAreAnnounced
