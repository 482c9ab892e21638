CONSTANTS
  o1 = o1
  w1 = w1
  w2 = w2
  main = main
  Operations <- One
  Workers <- Workers2
  Wallets <- OneWallet
  Kind <- OneKind
  Amount <- OneAmount
  Source <- OneSource
  Destination <- OneTarget
  Opening <- OneOpening
  NoWorker = NoWorker
  NoOperation = NoOperation
  Treasury = Treasury
  LeaseMayLapse = FALSE
  MaxReturns = 1
  MaxFaults = 2
  UnclearErrors = TRUE
CHECK_DEADLOCK FALSE
SPECIFICATION Spec
INVARIANTS
  NeverPaidAndReturned
