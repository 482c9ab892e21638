CONSTANTS
  p1 = p1
  Products <- OneProduct
  Merchant = Merchant
  Unknown = Unknown
  ConfirmationDays = 2
  RecoveryDays = 2
  ExpiryDays = 3
  UnassessableDays = 3
  MaxDay = 5
  Stocks = {0, 2}
  Minimums = {0, 2}
  Weeks <- SomeWeeks
  MaxBehind = 2
  MaxChanges = 2
CHECK_DEADLOCK FALSE
SPECIFICATION Spec
INVARIANTS
  CasesInv
  SavedIsCurrent
PROPERTIES
  OpenedOnlyWhenConfirmed
