CONSTANTS
  i = i
  d = d
  x = x
  ka = ka
  kb = kb
  kd = kd
  c1 = c1
  c2 = c2
  q1 = q1
  ann = ann
  bob = bob
  shop = shop
  tea = tea
  restock = restock
  sold = sold
  Requests <- ShopRequests
  Kind <- ShopKind
  Products <- OneProduct
  Lines <- ShopLines
  Opening <- ShopOpening
  Adjustments <- ShopAdjustments
  Change <- ShopChange
  Sales <- ShopSales
  SaleLines <- ShopSaleLines
  MaxVoids = 1
  MayExpire <- ShopMayExpire
  Keys <- ShopKeys
  RequestOf <- ShopRequestOf
  Payer <- ShopPayer
  Payee <- ShopPayee
  Amount <- ShopAmount
  Wallets <- ThreeWallets
  OpeningBalance <- ShopBalance
  Callers <- OneCaller
  Recoverers <- OneRecoverer
  MayStall = FALSE
  MaxFaults = 1
  NoKey = NoKey
  NoRequest = NoRequest
CHECK_DEADLOCK FALSE
SPECIFICATION FairSpec
INVARIANTS
  TypeOK
  StockIsAccounted
  OnePaymentPerRequest
  RecordedOnlyAfterLanding
  FailureMovedNothing
  PendingIsBacked
  BalancesMatchLedger
PROPERTIES
  ClosedIsFinal
  EveryClaimEnds
