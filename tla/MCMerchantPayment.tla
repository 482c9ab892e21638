-------------------------- MODULE MCMerchantPayment ---------------------------
(* Instances of MerchantPayment for TLC.  Shop: an invoice that two customers *)
(* want to pay and whose stock the shop sells from meanwhile, and a customer's *)
(* own request.  Charge: a charge whose expiry passes.                         *)
EXTENDS MerchantPayment, TLC

CONSTANTS i, d, x, ka, kb, kd, c1, c2, q1, ann, bob, shop, tea, restock, sold

OneCaller     == {c1}
TwoCallers    == {c1, c2}
OneRecoverer  == {q1}
ThreeWallets == {ann, bob, shop}
OneProduct == {tea}

ShopRequests == {i, d}
ShopKind == i :> "invoice" @@ d :> "dynamic"
ShopLines == i :> (tea :> 2) @@ d :> (tea :> 0)
ShopKeys == {ka, kb, kd}
ShopRequestOf == ka :> i @@ kb :> i @@ kd :> d
ShopPayer == ka :> ann @@ kb :> bob @@ kd :> bob
ShopPayee == i :> shop @@ d :> ann
ShopAmount == i :> 2 @@ d :> 1
ShopBalance == ann :> 2 @@ bob :> 2 @@ shop :> 0
ShopMayExpire == {i}
ShopAdjustments == {restock}
ShopChange == restock :> (tea :> -1)
ShopSales == {sold}
ShopSaleLines == sold :> (tea :> 1)
ShopOpening == tea :> 3

ChargeRequests == {x}
ChargeKind == x :> "charge"
ChargeLines == x :> (tea :> 0)
ChargeKeys == {ka, kb}
ChargeRequestOf == ka :> x @@ kb :> x
ChargePayer == ka :> ann @@ kb :> bob
ChargePayee == x :> shop
ChargeAmount == x :> 2
ChargeMayExpire == {x}
NoChange == [a \in {} |-> 0]

===============================================================================
