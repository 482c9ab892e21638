CONSTANTS
  i = i
  d = d
  x = x
  ka = ka
  kb = kb
  kd = kd
  c1 = c1
  c2 = c2
  q1 = q1
  ann = ann
  bob = bob
  shop = shop
  tea = tea
  restock = restock
  sold = sold
  Requests <- ChargeRequests
  Kind <- ChargeKind
  Products <- OneProduct
  Lines <- ChargeLines
  Opening <- ShopOpening
  Adjustments = {}
  Change <- NoChange
  Sales = {}
  SaleLines <- NoChange
  MaxVoids = 1
  MayExpire <- ChargeMayExpire
  Keys <- ChargeKeys
  RequestOf <- ChargeRequestOf
  Payer <- ChargePayer
  Payee <- ChargePayee
  Amount <- ChargeAmount
  Wallets <- ThreeWallets
  OpeningBalance <- ShopBalance
  Callers <- TwoCallers
  Recoverers <- OneRecoverer
  MayStall = FALSE
  MaxFaults = 0
  NoKey = NoKey
  NoRequest = NoRequest
CHECK_DEADLOCK FALSE
SPECIFICATION Spec
PROPERTIES
  NotExpiredWhilePaid
