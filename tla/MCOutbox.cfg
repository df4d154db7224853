CONSTANTS
  Replica = {r1, r2}
  Event = {e1}
  Hook = {h1}
  MaxAttempts = 2
  BackoffBase = 2
  BackoffMax = 3
  DrainBatch = 1
  MaxFaults = 4
  MaxOverdue = 1
SPECIFICATION FairSpec
INVARIANTS TypeOK LeaseExcludes AttemptsAreDistinct OutcomesAreEarned
PROPERTY FinishedIsNotSentAgain ImplementsQueue EveryDeliverySettles
