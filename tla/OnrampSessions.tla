---------------------------- MODULE OnrampSessions ----------------------------
(***************************************************************************)
(* The older top-up through a widget: OnrampSessionsService                *)
(* (onramp-sessions.service.ts), whose webhooks move a session and credit  *)
(* it once it is completed (widget-onramp-settlement.service.ts), and the  *)
(* chain watcher (solana-onramp-reconcile.service.ts), which looks for the *)
(* tokens of MoonPay sessions every minute.  All of them read a row, wait  *)
(* and write it back.                                                      *)
(***************************************************************************)
EXTENDS HoldingBalance

CONSTANTS
  Purchases,    \* on-ramp sessions of one wallet
  Watched,      \* those of them with MoonPay
  Bought,       \* [Purchases -> Nat], the tokens the provider sends
  BuyHooks,     \* webhook deliveries that may be handled together
  Looks,        \* looks of the chain watcher that may be under way together
  NoPurchase, NoBuyEvent

ASSUME PurchasesAssumption ==
  /\ IsFiniteSet(Purchases) /\ NoPurchase \notin Purchases
  /\ Watched \subseteq Purchases
  /\ Bought \in [Purchases -> Nat \ {0}]

VARIABLES
  buy,        \* the on-ramp row of each session
  credited,   \* the amount of its ledger entry; zero without one
  order,      \* what has become of the purchase at the provider, so far
  landed,     \* sessions whose tokens are on chain
  buyHook,    \* what each delivery does next: its session, event and the row it read
  watch       \* what each look of the chain watcher does next: its session, the row read

purchaseVars == <<buy, credited, order, landed, buyHook, watch>>

Terminal == {"completed", "failed", "cancelled", "expired"}     \* TERMINAL_STATUSES
BuyStatuses == {"none", "pending", "processing"} \cup Terminal

\* amount: cryptoAmount, zero when unknown; tx: the transfer that txHash names.
BuyRow(status, amount, tx) == [status |-> status, amount |-> amount, tx |-> tx]
NoBuyRow == BuyRow("none", 0, NoPurchase)
IdleBuyHook ==
  [step |-> "idle", purchase |-> NoPurchase, event |-> NoBuyEvent, read |-> NoBuyRow]
IdleWatch == [step |-> "idle", purchase |-> NoPurchase, read |-> NoBuyRow,
              tx |-> NoPurchase, status |-> "none"]

Amounts == {0} \cup {Bought[p] : p \in Purchases}
BuyRows == [status : BuyStatuses, amount : Amounts, tx : Purchases \cup {NoPurchase}]

PurchasesTypeOK ==
  /\ buy \in [Purchases -> BuyRows]
  /\ credited \in [Purchases -> Amounts]
  /\ order \in [Purchases -> SUBSET ({"open"} \cup Terminal)]
  /\ landed \subseteq Purchases
  /\ buyHook \in [BuyHooks -> [step : {"idle", "apply", "credit"},
                               purchase : Purchases \cup {NoPurchase},
                               event : BuyRows \cup {NoBuyEvent}, read : BuyRows]]
  /\ watch \in [Looks -> [step : {"idle", "look", "hit", "credit"},
                          purchase : Watched \cup {NoPurchase}, read : BuyRows,
                          tx : Purchases \cup {NoPurchase}, status : BuyStatuses]]

PurchasesInit ==
  /\ buy = [p \in Purchases |-> NoBuyRow]
  /\ credited = [p \in Purchases |-> 0]
  /\ order = [p \in Purchases |-> {}]
  /\ landed = {}
  /\ buyHook = [h \in BuyHooks |-> IdleBuyHook]
  /\ watch = [l \in Looks |-> IdleWatch]

\* createSession, with the provider's widget.
CreatePurchase(p) ==
  /\ buy[p].status = "none"
  /\ buy' = [buy EXCEPT ![p].status = "pending"]
  /\ UNCHANGED <<balanceVars, credited, order, landed, buyHook, watch>>

\* expireStale: half an hour after its creation.
ExpireStale(p) ==
  /\ buy[p].status = "pending"
  /\ buy' = [buy EXCEPT ![p].status = "expired"]
  /\ UNCHANGED <<balanceVars, credited, order, landed, buyHook, watch>>

-------------------------------------------------------------------------------
(* The credit                                                              *)

\* Mutant of CanCredit: the ledger's key is not unique.
CanCreditAgain(p) == buy[p].status = "completed" /\ buy[p].amount > 0

\* The row must be completed by now and know its amount; its ledger entry is
\* written once.
CanCredit(p) == buy[p].status = "completed" /\ buy[p].amount > 0 /\ credited[p] = 0

CreditIfPending(p) ==
  IF CanCredit(p)
    THEN /\ credited' = [credited EXCEPT ![p] = buy[p].amount]
         /\ Credit(buy[p].amount)
    ELSE UNCHANGED <<credited, balanceVars>>

-------------------------------------------------------------------------------
(* Webhooks                                                                *)

\* What the provider may have sent about an opened purchase: while it is under
\* way, and how it ended; with or without the amount and the transfer.  Any of
\* it may come late, out of order, or again.
Events(p) ==
  {BuyRow(status, amount, tx) :
     status \in (order[p] \cap Terminal) \cup {"pending", "processing"},
     amount \in {0, Bought[p]}, tx \in {NoPurchase} \cup ({p} \cap landed)}

ReadPurchase(h, p) ==
  /\ buyHook[h].step = "idle" /\ order[p] # {}
  /\ \E e \in Events(p) :
       buyHook' = [buyHook EXCEPT ![h] =
                     [step |-> "apply", purchase |-> p, event |-> e, read |-> buy[p]]]
  /\ UNCHANGED <<balanceVars, buy, credited, order, landed, watch>>

EndBuyHook(h) == buyHook' = [buyHook EXCEPT ![h] = IdleBuyHook]

\* nextStatus: a completion always counts, any other end is kept.
NextBuyStatus(current, incoming) ==
  IF "completed" \in {current, incoming} THEN "completed"
  ELSE IF current \in Terminal THEN current ELSE incoming

\* What the event tells, or else what was read; an undefined column keeps what
\* it holds by now.
FirstKnown(unknown, told, read, now) ==
  IF told # unknown THEN told ELSE IF read # unknown THEN read ELSE now

\* The unique index on txHash: an update that names a transfer of another row throws.
Free(p, tx) == tx = NoPurchase \/ \A q \in Purchases \ {p} : buy[q].tx # tx

\* applyProviderWebhook writes by what was read, whatever the row has become.
ApplyProviderWebhook(h) ==
  LET p == buyHook[h].purchase
      e == buyHook[h].event
      read == buyHook[h].read
      status == NextBuyStatus(read.status, e.status)
      amount == FirstKnown(0, e.amount, read.amount, buy[p].amount)
      tx == FirstKnown(NoPurchase, e.tx, read.tx, buy[p].tx)
  IN  /\ buyHook[h].step = "apply" /\ Free(p, tx)
      /\ buy' = [buy EXCEPT ![p] = BuyRow(status, amount, tx)]
      /\ IF status = "completed"
           THEN buyHook' = [buyHook EXCEPT ![h].step = "credit"] ELSE EndBuyHook(h)
      /\ UNCHANGED <<balanceVars, credited, order, landed, watch>>

CreditFromWebhook(h) ==
  /\ buyHook[h].step = "credit"
  /\ CreditIfPending(buyHook[h].purchase)
  /\ EndBuyHook(h)
  /\ UNCHANGED <<buy, order, landed, watch>>

\* The process ends, or the update throws; the provider may deliver the event again.
BuyDeliveryEnds(h) ==
  /\ buyHook[h].step # "idle"
  /\ EndBuyHook(h)
  /\ UNCHANGED <<balanceVars, buy, credited, order, landed, watch>>

-------------------------------------------------------------------------------
(* The chain watcher                                                       *)

\* Its passes, one a minute, do not wait for each other.
WatchGoes(l, to) == watch' = [watch EXCEPT ![l] = to]

\* reconcile reads the sessions of the last hour that have not failed.
StartLook(l, p) ==
  /\ watch[l].step = "idle" /\ buy[p].status \in {"pending", "processing", "completed"}
  /\ WatchGoes(l, [IdleWatch EXCEPT !.step = "look", !.purchase = p, !.read = buy[p]])
  /\ UNCHANGED <<balanceVars, buy, credited, order, landed, buyHook>>

\* reconcileRow: any transfer to the wallet that the row does not name already
\* and whose amount fits what was known.
Matches(read, t) == t # read.tx /\ read.amount \in {0, Bought[t]}

\* Mutant of NextWatched: the tokens on chain complete the session.
NextWatchedCompletes(status) == "completed"

NextWatched(status) == IF status = "completed" THEN "completed" ELSE "processing"

\* applyChainHit reads the row again, and decides on that ...
Look(l) ==
  LET p == watch[l].purchase
      seen == {t \in landed : Matches(watch[l].read, t)}
      closed(t) == \/ buy[p].status \in Terminal \ {"completed"}
                   \/ buy[p].tx \notin {NoPurchase, t}
  IN  /\ watch[l].step = "look"
      /\ \/ \E t \in seen :
              WatchGoes(l, IF closed(t) THEN IdleWatch
                           ELSE [watch[l] EXCEPT !.step = "hit", !.tx = t,
                                                 !.status = NextWatched(buy[p].status)])
         \/ seen = {} /\ WatchGoes(l, IdleWatch)
      /\ UNCHANGED <<balanceVars, buy, credited, order, landed, buyHook>>

\* ... but writes it on the condition of its transfer only.
ApplyChainHit(l) ==
  LET p == watch[l].purchase
      t == watch[l].tx
      status == watch[l].status
      open == buy[p].tx \in {NoPurchase, t}
  IN  /\ watch[l].step = "hit" /\ (open => Free(p, t))
      /\ buy' = IF open THEN [buy EXCEPT ![p] = BuyRow(status, Bought[t], t)] ELSE buy
      /\ WatchGoes(l, IF status = "completed"
                      THEN [IdleWatch EXCEPT !.step = "credit", !.purchase = p] ELSE IdleWatch)
      /\ UNCHANGED <<balanceVars, credited, order, landed, buyHook>>

CreditFromWatch(l) ==
  /\ watch[l].step = "credit"
  /\ CreditIfPending(watch[l].purchase)
  /\ WatchGoes(l, IdleWatch)
  /\ UNCHANGED <<buy, order, landed, buyHook>>

\* The process ends, the update throws, or a call of the node does.
WatchEnds(l) ==
  /\ watch[l].step # "idle"
  /\ WatchGoes(l, IdleWatch)
  /\ UNCHANGED <<balanceVars, buy, credited, order, landed, buyHook>>

-------------------------------------------------------------------------------
(* The provider                                                            *)

\* How a purchase ends that brings nothing: with MoonPay, or with either kind of
\* Stripe session, its crypto on-ramp and the checkout in place of it.
Failures(p) == IF p \in Watched THEN {"failed", "cancelled"} ELSE {"cancelled", "expired"}

Becomes(p, fact) ==
  /\ order' = [order EXCEPT ![p] = @ \cup {fact}]
  /\ UNCHANGED <<balanceVars, buy, credited, landed, buyHook, watch>>

\* The customer pays, the tokens are sent and the purchase is completed, or it
\* is not; MoonPay may pay a customer back afterwards.
ProviderStep(p) ==
  \/ buy[p].status # "none" /\ order[p] = {} /\ Becomes(p, "open")
  \/ order[p] = {"open"} /\ (p \in Watched => p \in landed) /\ Becomes(p, "completed")
  \/ order[p] = {"open"} /\ p \notin landed /\ \E end \in Failures(p) : Becomes(p, end)
  \/ order[p] = {"open", "completed"} /\ p \in Watched /\ Becomes(p, "failed")

\* Stripe's checkout sends none.
Delivers(p) ==
  /\ "open" \in order[p] /\ p \notin landed
  /\ order[p] \cap Failures(p) = {}
  /\ landed' = landed \cup {p}
  /\ UNCHANGED <<balanceVars, buy, credited, order, buyHook, watch>>

PurchaseStep ==
  \/ \E p \in Purchases : CreatePurchase(p) \/ ExpireStale(p) \/ ProviderStep(p) \/ Delivers(p)
  \/ \E h \in BuyHooks :
       \/ \E p \in Purchases : ReadPurchase(h, p)
       \/ ApplyProviderWebhook(h) \/ CreditFromWebhook(h) \/ BuyDeliveryEnds(h)
  \/ \E l \in Looks :
       \/ \E p \in Watched : StartLook(l, p)
       \/ Look(l) \/ ApplyChainHit(l) \/ CreditFromWatch(l) \/ WatchEnds(l)

-------------------------------------------------------------------------------
(* Safety                                                                  *)

\* The balance is credited only for purchases the provider has completed: what
\* the watcher sees on chain never makes one successful by itself.
CreditedOnlyWhenCompleted == \A p \in Purchases : credited[p] > 0 => "completed" \in order[p]

===============================================================================
