CONSTANTS
  w1 = w1
  w2 = w2
  Workers <- TwoWorkers
  NoWorker = NoWorker
  MaxRevision = 3
  MaxAttempts = 2
  Backlog = 1
  MaxFaults = 3
CHECK_DEADLOCK FALSE
SPECIFICATION FairSpec
INVARIANTS
  QueueInv
PROPERTIES
  ImplementsLog
  FullIsNotDowngraded
  EveryEventIsProcessed
