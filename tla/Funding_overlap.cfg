CONSTANTS
  o1 = o1
  w1 = w1
  w2 = w2
  hook = hook
  main = main
  Operations <- One
  Workers <- Workers3
  Runners <- Runners2
  Wallets <- OneWallet
  Kind <- OneKind
  Amount <- OneAmount
  Source <- OneSource
  Destination <- OneTarget
  Opening <- OneOpening
  NoWorker = NoWorker
  NoOperation = NoOperation
  Treasury = Treasury
  LeaseMayLapse = TRUE
  MaxReturns = 0
  MaxFaults = 1
CHECK_DEADLOCK FALSE
SPECIFICATION Spec
INVARIANTS
  ReversedOnlyWhenRefunded
PROPERTIES
  FulfilsPromise
