CONSTANTS
  o1 = o1
  o2 = o2
  w1 = w1
  w2 = w2
  main = main
  spend = spend
  Operations <- Pair
  Workers <- Workers2
  Wallets <- TwoWallets
  Kind <- PairKind
  Amount <- PairAmount
  Source <- SameSource
  Destination <- SameTarget
  Opening <- SameOpening
  NoWorker = NoWorker
  NoOperation = NoOperation
  Treasury = Treasury
  LeaseMayLapse = FALSE
  MaxReturns = 0
  MaxFaults = 2
CHECK_DEADLOCK FALSE
SPECIFICATION FairSpec
INVARIANTS
  TypeOK
  FailureMovedNothing
  ReservationsAreBacked
  BooksMatchChain
  RecordedOnlyAfterLanding
PROPERTIES
  RiseOnlyOnEvidence
  KeepsPromise
  EveryTransferEnds
