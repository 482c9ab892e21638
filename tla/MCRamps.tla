-------------------------------- MODULE MCRamps --------------------------------
(* An instance of Ramps for TLC: a MoonPay and a Stripe cash-out, and a      *)
(* MoonPay and a Stripe purchase of one wallet.                              *)
EXTENDS Ramps, TLC

CONSTANTS out1, out2, in1, in2, c1, c2, h1, h2, k1, k2, l1, l2

BothSales == {out1, out2}
SaleProvider == out1 :> "moonpay" @@ out2 :> "stripe"
SalePrice == out1 :> 1 @@ out2 :> 2
BothPurchases == {in1, in2}
MoonpayPurchases == {in1}
PurchaseAmount == in1 :> 1 @@ in2 :> 1
TwoClients == {c1, c2}
TwoHooks == {h1, h2}
TwoBuyHooks == {k1, k2}
TwoLooks == {l1, l2}

\* The MoonPay cash-out with two requests and two deliveries; the Stripe one,
\* which needs what a purchase brings in; the Stripe purchase with two
\* deliveries; the MoonPay one with a delivery and two looks, or with any end;
\* and both purchases, under way, with a delivery and a look.
EachMix ==
  {{out1} \cup Clients \cup Hooks,
   {in2, "open", "completed", "expired"} \cup BuyHooks,
   {in1, k1, "open", "completed"} \cup Looks,
   {in1, k1, l1, "open", "completed", "failed"},
   {in1, in2, k1, l1, "open"}}
    \cup {{out2, in1, c, h, k1, "open", "completed"} : c \in Clients, h \in Hooks}

Symmetry == Permutations(Clients) \cup Permutations(Hooks)

===============================================================================
