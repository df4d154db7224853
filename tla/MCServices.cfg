CONSTANTS
  N = 3
  Txn = {t1, t2}
  Ids = 3
  Request = {t1, t2}
  MaxDepth = 2
  MaxFolders = 3
  Prompt = {p1, p2}
  Code = {1, 2}
  Req = {t1, t2}
  MaxStep = 1
  MaxSecrets = 2
  Versions = 2
  Call = {t1, t2}
  Save = {"save"}
  PoolSize = 1
  MaxSaves = 1
  Event = {t1, t2, p1, p2}
  QueueSize = 2
  BatchSize = 2
SYMMETRY Symmetry
SPECIFICATION ServicesSpec
INVARIANTS
  OwnersRemain DeletionsDoNotDeadlock
  NoCycles DepthBounded RequestsQueue
  OneSessionPerPrompt FactorAndCodes
  NoneRunsClosed PoolIsCurrent NothingIsLost
  AcceptedIsFlushed MarkedIsStored LeadersClaimOnce
PROPERTIES ImplementsTree ImplementsSignIn
CHECK_DEADLOCK FALSE
