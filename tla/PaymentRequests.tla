---------------------------- MODULE PaymentRequests ----------------------------
(***************************************************************************)
(* Payment requests and the stock they hold (payment-requests.service.ts,  *)
(* merchant-inventory.service.ts, merchant-activity.service.ts).  An       *)
(* invoice of a merchant sets aside the products on it when it is issued;  *)
(* the payment of the request, modelled in MerchantPayment, takes them,    *)
(* and its failure, its expiry or a cancellation gives them back.          *)
(***************************************************************************)
EXTENDS Integers, FiniteSets, Functions

CONSTANTS
  Requests,     \* payment requests that are ever issued
  Kind,         \* [Requests -> RequestKinds]
  Products,     \* products of the merchant
  Lines,        \* units of each product on an invoice, 0 on other requests
  Opening,      \* units of each product on hand at first
  Adjustments,  \* adjustments of stock by hand
  Change,       \* change of each product by an adjustment
  Sales,        \* cash sales
  SaleLines,    \* units of each product in a cash sale
  MaxVoids,     \* requests to void one cash sale that may be under way together
  MayExpire     \* requests whose expiry may pass within a behaviour

\* An invoice has lines of products; a charge is a merchant's request for an
\* amount; a customer's own request is paid once (dynamic) or often (static).
MerchantKinds == {"invoice", "charge"}
RequestKinds  == MerchantKinds \cup {"dynamic", "static"}

ASSUME RequestsAssumption ==
  /\ IsFiniteSet(Requests) /\ IsFiniteSet(Sales) /\ IsFiniteSet(Adjustments)
  /\ Kind \in [Requests -> RequestKinds]
  /\ Opening \in [Products -> Nat]
  /\ Lines \in [Requests -> [Products -> Nat]]
  /\ \A r \in Requests : Kind[r] # "invoice" => \A p \in Products : Lines[r][p] = 0
  /\ Change \in [Adjustments -> [Products -> Int]]
  /\ SaleLines \in [Sales -> [Products -> Nat]]
  /\ MaxVoids \in Nat
  /\ MayExpire \subseteq {r \in Requests : Kind[r] # "static"}

VARIABLES
  request,   \* status of each payment request
  overdue,   \* requests whose expiresAt has passed
  onHand,    \* units of each product in the shop
  reserved,  \* units of them that unpaid invoices have set aside
  adjusted,  \* adjustments made
  sale,      \* status of each cash sale
  voids      \* requests to void a sale that have read it as recorded

requestVars == <<request, overdue>>
stockVars   == <<onHand, reserved>>
shopVars    == <<adjusted, sale, voids>>

RequestStatuses ==
  {"absent", "pending", "processing", "completed", "failed", "expired", "cancelled"}
Closed == {"completed", "failed", "expired", "cancelled"}

RequestsTypeOK ==
  /\ request \in [Requests -> RequestStatuses]
  /\ overdue \subseteq Requests
  /\ onHand \in [Products -> Nat]
  /\ reserved \in [Products -> Nat]
  /\ adjusted \subseteq Adjustments
  /\ sale \in [Sales -> {"absent", "recorded", "voided"}]
  /\ voids \in [Sales -> 0..MaxVoids]

RequestsInit ==
  /\ request = [r \in Requests |-> "absent"]
  /\ overdue = {}
  /\ onHand = Opening
  /\ reserved = [p \in Products |-> 0]
  /\ adjusted = {}
  /\ sale = [s \in Sales |-> "absent"]
  /\ voids = [s \in Sales |-> 0]

Merchant(r)   == Kind[r] \in MerchantKinds
SetRequest(r, status) == request' = [request EXCEPT ![r] = status]

-------------------------------------------------------------------------------
(* Stock                                                                   *)

Plus(f, g)  == [p \in Products |-> f[p] + g[p]]
Minus(f, g) == [p \in Products |-> f[p] - g[p]]

\* Every line is set aside, or none is and the invoice is not issued.
Available(lines) == \A p \in Products : onHand[p] - reserved[p] >= lines[p]

\* releaseReservedInventory and settleReservedInventory throw when a product
\* has less set aside than the line says, which undoes the transaction.
CanReleaseStock(r) == \A p \in Products : reserved[p] >= Lines[r][p]
CanSettleStock(r)  == CanReleaseStock(r) /\ \A p \in Products : onHand[p] >= Lines[r][p]

\* Mutant of ReleaseReservedInventory: the units stay set aside.
ForgetReservedInventory(r) == UNCHANGED stockVars

ReleaseReservedInventory(r) ==
  reserved' = Minus(reserved, Lines[r]) /\ UNCHANGED onHand

SettleReservedInventory(r) ==
  reserved' = Minus(reserved, Lines[r]) /\ onHand' = Minus(onHand, Lines[r])

-------------------------------------------------------------------------------
(* Requests                                                                *)

\* create, createPaymentRequest of a merchant, and createInvoice.
Issue(r) ==
  /\ request[r] = "absent"
  /\ Available(Lines[r])
  /\ SetRequest(r, "pending")
  /\ reserved' = Plus(reserved, Lines[r])
  /\ UNCHANGED <<overdue, onHand, shopVars>>

\* Time passes the request's expiresAt.
ExpiryPasses(r) ==
  /\ r \in MayExpire \ overdue /\ request[r] # "absent"
  /\ overdue' = overdue \cup {r}
  /\ UNCHANGED <<request, stockVars, shopVars>>

\* Withdraws a pending request, and what it holds, in one transaction.
Withdraw(r, status) ==
  /\ request[r] = "pending" /\ CanReleaseStock(r)
  /\ SetRequest(r, status)
  /\ ReleaseReservedInventory(r)
  /\ UNCHANGED <<overdue, shopVars>>

\* cancel, cancelInvoice.
Cancel(r) == Withdraw(r, "cancelled")

\* expireInvoice; expireStale and expireStaleInvoices run it every minute.
ExpireStale(r) == r \in overdue /\ Withdraw(r, "expired")

\* Mutant of ExpireResolved: an invoice is expired as anything else is.
ExpireUnchecked(r) == SetRequest(r, "expired") /\ UNCHANGED <<overdue, stockVars, shopVars>>

\* What resolveInternal does about a request that it read as overdue: an
\* invoice is expired as by the sweep, anything else whatever it is by now.
ExpireResolved(r) ==
  IF Kind[r] = "invoice"
    THEN IF request[r] = "pending" THEN Withdraw(r, "expired")
         ELSE UNCHANGED <<requestVars, stockVars, shopVars>>
    ELSE SetRequest(r, "expired") /\ UNCHANGED <<overdue, stockVars, shopVars>>

-------------------------------------------------------------------------------
(* The shop                                                                *)

\* Mutant of AdjustStock: stock is reduced below what invoices have set aside.
AdjustFreely(a) ==
  /\ a \notin adjusted
  /\ \A p \in Products : onHand[p] + Change[a][p] >= 0
  /\ adjusted' = adjusted \cup {a}
  /\ onHand' = Plus(onHand, Change[a])
  /\ UNCHANGED <<requestVars, reserved, sale, voids>>

\* adjustStock: never below what invoices have set aside.
AdjustStock(a) ==
  /\ a \notin adjusted
  /\ \A p \in Products : onHand[p] + Change[a][p] >= reserved[p]
  /\ adjusted' = adjusted \cup {a}
  /\ onHand' = Plus(onHand, Change[a])
  /\ UNCHANGED <<requestVars, reserved, sale, voids>>

\* createCashSale: only what no invoice has set aside is sold over the counter.
CashSale(s) ==
  /\ sale[s] = "absent" /\ Available(SaleLines[s])
  /\ sale' = [sale EXCEPT ![s] = "recorded"]
  /\ onHand' = Minus(onHand, SaleLines[s])
  /\ UNCHANGED <<requestVars, reserved, adjusted, voids>>

\* voidCashSale reads the sale ...
ReadRecordedSale(s) ==
  /\ sale[s] = "recorded" /\ voids[s] < MaxVoids
  /\ voids' = [voids EXCEPT ![s] = @ + 1]
  /\ UNCHANGED <<requestVars, stockVars, adjusted, sale>>

\* ... and puts its units back without looking at the sale again.
VoidCashSale(s) ==
  /\ voids[s] > 0
  /\ voids' = [voids EXCEPT ![s] = @ - 1]
  /\ sale' = [sale EXCEPT ![s] = "voided"]
  /\ onHand' = Plus(onHand, SaleLines[s])
  /\ UNCHANGED <<requestVars, reserved, adjusted>>

RequestStep(r) == Issue(r) \/ ExpiryPasses(r) \/ Cancel(r) \/ ExpireStale(r)

ShopStep ==
  \/ \E a \in Adjustments : AdjustStock(a)
  \/ \E s \in Sales : CashSale(s) \/ ReadRecordedSale(s) \/ VoidCashSale(s)

-------------------------------------------------------------------------------
(* Safety                                                                  *)

Units(S, lines, p) == SumFunctionOnSet([x \in DOMAIN lines |-> lines[x][p]], S)

\* What is set aside of a product is exactly what open invoices ask for: no
\* payment, failure, expiry or cancellation, in whatever order they meet,
\* releases or takes an invoice's units twice, or forgets them
\* (releaseReservedInventory and settleReservedInventory with their callers).
ReservedStockIsBacked ==
  \A p \in Products :
    reserved[p] = Units({r \in Requests : request[r] \in {"pending", "processing"}}, Lines, p)

\* The shelf holds what the opening stock, the adjustments, the paid invoices
\* and the cash sales that stand leave of a product, and covers what is set
\* aside: every sale is counted once and nothing is promised twice.
StockIsConserved ==
  \A p \in Products :
    /\ onHand[p] = Opening[p] + Units(adjusted, Change, p)
                     - Units({r \in Requests : request[r] = "completed"}, Lines, p)
                     - Units({s \in Sales : sale[s] = "recorded"}, SaleLines, p)
    /\ onHand[p] >= reserved[p]

\* The stock adds up: what is set aside and what is on the shelf, together.
StockIsAccounted == ReservedStockIsBacked /\ StockIsConserved

===============================================================================
