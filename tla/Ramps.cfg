CONSTANTS
  out1 = out1
  out2 = out2
  in1 = in1
  in2 = in2
  c1 = c1
  c2 = c2
  h1 = h1
  h2 = h2
  k1 = k1
  k2 = k2
  l1 = l1
  l2 = l2
  Mixes <- EachMix
  Opening = 1
  Sales <- BothSales
  Provider <- SaleProvider
  Price <- SalePrice
  Clients <- TwoClients
  Hooks <- TwoHooks
  MaxLost = 1
  NoSale = NoSale
  NoEvent = NoEvent
  Purchases <- BothPurchases
  Watched <- MoonpayPurchases
  Bought <- PurchaseAmount
  BuyHooks <- TwoBuyHooks
  Looks <- TwoLooks
  NoPurchase = NoPurchase
  NoBuyEvent = NoBuyEvent
CHECK_DEADLOCK FALSE
SYMMETRY Symmetry
SPECIFICATION Spec
INVARIANTS
  RampsInv
  HoldingMatchesLedger
