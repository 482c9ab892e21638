--------------------------------- MODULE Ramps ---------------------------------
(***************************************************************************)
(* Both ramps on one Holding balance.                                      *)
(***************************************************************************)
EXTENDS OfframpSessions, OnrampSessions

CONSTANT Mixes   \* a bound: what is in play at any time is within one of these sets

vars == <<balanceVars, saleVars, purchaseVars>>

Init == BalanceInit /\ SalesInit /\ PurchasesInit

\* What is not in the mix is not in play: its sessions are not opened, its
\* facts have not come about, its handlers are idle.
InBounds ==
  \E mix \in Mixes :
    /\ \A h \in BuyHooks : buyHook[h].step = "idle" \/ h \in mix
    /\ \A l \in Looks : watch[l].step = "idle" \/ l \in mix
    /\ \A p \in Purchases : (buy[p].status = "none" \/ p \in mix) /\ order[p] \subseteq mix
    /\ \A s \in Sales : row[s].status = "none" \/ s \in mix
    /\ \A c \in Clients : client[c].step = "idle" \/ c \in mix
    /\ \A h \in Hooks : hook[h].step = "idle" \/ h \in mix

Next ==
  /\ \/ SaleStep /\ UNCHANGED purchaseVars
     \/ PurchaseStep /\ UNCHANGED saleVars
  /\ InBounds'

Spec == Init /\ [][Next]_vars

-------------------------------------------------------------------------------
(* Safety                                                                  *)

\* What every handler of the two ramps keeps, however its delivery overlaps
\* with others: the types; a reservation is spent only when the customer was
\* paid; tokens go out once for each answer that was lost; and a purchase is
\* credited only when the provider has completed it.
RampsInv ==
  /\ BalanceTypeOK /\ SalesTypeOK /\ PurchasesTypeOK
  /\ SettledOnlyWhenPaid /\ OneDepositPerAnswer /\ CreditedOnlyWhenCompleted

\* The Holding balance is what it opened with, plus each purchase credited
\* once, less each session paid out once; what is pending is exactly the sum
\* of the sessions whose ledger entry is pending.  Handlers that work on rows
\* that have changed may write a wrong status, but never a wrong balance.
HoldingMatchesLedger ==
  LET Sum(status) == SumFunctionOnSet(Price, {s \in Sales : entry[s] = status})
  IN  /\ pending = Sum("pending")
      /\ available + pending + Sum("completed") =
           Opening + SumFunctionOnSet(credited, Purchases)

===============================================================================
