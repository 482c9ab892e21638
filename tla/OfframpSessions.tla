---------------------------- MODULE OfframpSessions ----------------------------
(***************************************************************************)
(* The older cash-out: OfframpSessionsService (offramp-sessions.service.ts) *)
(* with a MoonPay widget or Stripe Connect payouts.  A session sets its     *)
(* amount aside under a pending ledger entry; a request of the customer     *)
(* sends the tokens, and the provider's webhooks end the session.  Every    *)
(* handler reads the row, waits for others and writes back, with no lock.   *)
(***************************************************************************)
EXTENDS HoldingBalance

CONSTANTS
  Sales,        \* off-ramp sessions
  Provider,     \* [Sales -> {"moonpay", "stripe"}]
  Price,        \* [Sales -> Nat], cryptoAmount
  Clients,      \* requests of the customer that may be under way together
  Hooks,        \* webhook deliveries that may be handled together
  MaxLost,      \* deposits whose sending is not answered, in a behaviour
  NoSale, NoEvent

ASSUME SalesAssumption ==
  /\ IsFiniteSet(Sales) /\ NoSale \notin Sales
  /\ Provider \in [Sales -> {"moonpay", "stripe"}]
  /\ Price \in [Sales -> Nat \ {0}]
  /\ MaxLost \in Nat

VARIABLES
  row,      \* the off-ramp row of each session
  entry,    \* the status of its ledger entry
  sent,     \* deposits of the session on chain
  lost,     \* deposits whose sending, or its recording, was not answered
  sold,     \* the sale as the provider has it
  news,     \* the events the provider has sent; each may come late, or again
  client,   \* what each request of the customer does next, and for which session
  hook      \* what each delivery does next: its session, event and the row it read

saleVars == <<row, entry, sent, lost, sold, news, client, hook>>

Ended == {"completed", "failed", "cancelled"}     \* TERMINAL_STATUSES
SaleStatuses ==
  {"none", "pending", "waiting_for_deposit", "deposit_submitted", "processing",
   "refund_pending"} \cup Ended

\* tx and refund: the row names a deposit, a refund; initiated: depositInitiatedAt.
Rows == [status : SaleStatuses, tx : BOOLEAN, refund : BOOLEAN, initiated : BOOLEAN]
NoRow == [status |-> "none", tx |-> FALSE, refund |-> FALSE, initiated |-> FALSE]

SaleEvents == [status : SaleStatuses \ {"none"}, tx : BOOLEAN, refund : BOOLEAN]
Event(status, tx, refund) == [status |-> status, tx |-> tx, refund |-> refund]

ClientSteps == {"idle", "sweep", "release", "transfer", "payout", "note_failed", "record",
                "claim", "deposit", "record_deposit", "undo"}
HookSteps == {"idle", "apply", "complete", "release"}
IdleClient == [step |-> "idle", sale |-> NoSale]
IdleHook == [step |-> "idle", sale |-> NoSale, event |-> NoEvent, read |-> NoRow, status |-> "none"]

SalesTypeOK ==
  /\ row \in [Sales -> Rows]
  /\ entry \in [Sales -> {"none", "pending"} \cup Ended]
  /\ sent \in [Sales -> Nat] /\ lost \in [Sales -> 0..MaxLost]
  /\ sold \in [Sales -> {"none", "waiting", "received", "refunded"} \cup Ended]
  /\ news \in [Sales -> SUBSET SaleEvents]
  /\ client \in [Clients -> [step : ClientSteps, sale : Sales \cup {NoSale}]]
  /\ hook \in [Hooks -> [step : HookSteps, sale : Sales \cup {NoSale}, read : Rows,
                         event : SaleEvents \cup {NoEvent}, status : SaleStatuses]]

SalesInit ==
  /\ row = [s \in Sales |-> NoRow]
  /\ entry = [s \in Sales |-> "none"]
  /\ sent = [s \in Sales |-> 0] /\ lost = [s \in Sales |-> 0]
  /\ sold = [s \in Sales |-> "none"]
  /\ news = [s \in Sales |-> {}]
  /\ client = [c \in Clients |-> IdleClient]
  /\ hook = [h \in Hooks |-> IdleHook]

At(c, step) == client[c].step = step
Sale(c) == client[c].sale

Goto(c, step) ==
  client' = [client EXCEPT ![c] = IF step = "idle" THEN IdleClient ELSE [@ EXCEPT !.step = step]]

-------------------------------------------------------------------------------
(* The transactions that end a reservation                                 *)

\* Only a reservation whose ledger entry is pending can end.
CanEnd(s) == entry[s] = "pending" /\ CanTakePending(Price[s])

EndReservation(s, status) ==
  IF CanEnd(s)
    THEN /\ entry' = [entry EXCEPT ![s] = status]
         /\ row' = [row EXCEPT ![s].status = status]
         /\ IF status = "completed" THEN Settle(Price[s]) ELSE Release(Price[s])
    ELSE UNCHANGED <<entry, row, balanceVars>>

CompleteReservedFunds(s) == EndReservation(s, "completed")
ReleaseReservedFunds(s, status) == EndReservation(s, status)

-------------------------------------------------------------------------------
(* Requests of the customer                                                *)

\* createSession: the row, the reservation and the ledger entry together
\* (reserveAndCreateRow).  A Stripe session goes on at once.
CreateSession(c, s) ==
  /\ At(c, "idle") /\ row[s].status = "none"
  /\ Reserve(Price[s])
  /\ row' = [row EXCEPT ![s].status = "pending"]
  /\ entry' = [entry EXCEPT ![s] = "pending"]
  /\ client' = IF Provider[s] = "stripe"
                 THEN [client EXCEPT ![c] = [step |-> "sweep", sale |-> s]] ELSE client
  /\ UNCHANGED <<sent, lost, sold, news, hook>>

\* sendUsdcDeposit is answered, or it throws: then nothing was sent, or it was
\* and that is not known.
SendUsdcDeposit(c, answered, thrown) ==
  LET s == Sale(c)
  IN  \/ /\ sent' = [sent EXCEPT ![s] = @ + 1]
         /\ Goto(c, answered)
         /\ UNCHANGED lost
      \/ /\ Goto(c, thrown)
         /\ UNCHANGED <<sent, lost>>
      \/ /\ lost[s] < MaxLost
         /\ sent' = [sent EXCEPT ![s] = @ + 1]
         /\ lost' = [lost EXCEPT ![s] = @ + 1]
         /\ Goto(c, thrown)

\* createStripeSession: the tokens are swept to the treasury ...
Sweep(c) ==
  /\ At(c, "sweep")
  /\ SendUsdcDeposit(c, "transfer", "release")
  /\ UNCHANGED <<balanceVars, row, entry, sold, news, hook>>

\* ... or the reservation is given back.
ReleaseUnswept(c) ==
  /\ At(c, "release")
  /\ ReleaseReservedFunds(Sale(c), "failed")
  /\ Goto(c, "idle")
  /\ UNCHANGED <<sent, lost, sold, news, hook>>

\* executeTransferAndPayout: either call may throw, with or without effect.
Transfer(c) ==
  LET s == Sale(c)
  IN  /\ At(c, "transfer")
      /\ \/ /\ news' = [news EXCEPT ![s] = @ \cup {Event("processing", FALSE, FALSE)}]
            /\ \E step \in {"payout", "note_failed"} : Goto(c, step)
         \/ Goto(c, "note_failed") /\ UNCHANGED news
      /\ UNCHANGED <<balanceVars, row, entry, sent, lost, sold, hook>>

CreatePayout(c) ==
  LET s == Sale(c)
  IN  /\ At(c, "payout")
      /\ \/ /\ sold' = [sold EXCEPT ![s] = "received"]
            /\ \E step \in {"record", "note_failed"} : Goto(c, step)
         \/ Goto(c, "note_failed") /\ UNCHANGED sold
      /\ UNCHANGED <<balanceVars, row, entry, sent, lost, news, hook>>

\* The row is written whatever it has become meanwhile; after a failed payout
\* the reservation stays.
NotePayoutFailed(c) ==
  LET s == Sale(c)
  IN  /\ At(c, "note_failed")
      /\ row' = [row EXCEPT ![s] = [@ EXCEPT !.status = "failed", !.tx = TRUE]]
      /\ Goto(c, "idle")
      /\ UNCHANGED <<balanceVars, entry, sent, lost, sold, news, hook>>

RecordPayout(c) ==
  LET s == Sale(c)
  IN  /\ At(c, "record")
      /\ row' = [row EXCEPT ![s] =
                   [@ EXCEPT !.status = "processing", !.tx = TRUE, !.initiated = TRUE]]
      /\ Goto(c, "idle")
      /\ UNCHANGED <<balanceVars, entry, sent, lost, sold, news, hook>>

\* initiateDeposit, for a MoonPay session: reads the row and asks MoonPay ...
InitiateDeposit(c, s) ==
  /\ At(c, "idle") /\ Provider[s] = "moonpay" /\ sold[s] # "none"
  /\ row[s].status \notin Ended /\ ~row[s].tx
  /\ client' = [client EXCEPT ![c] = [step |-> "claim", sale |-> s]]
  /\ UNCHANGED <<balanceVars, row, entry, sent, lost, sold, news, hook>>

\* Mutant of MayDeposit: a deposit that is under way is not waited for.
MayDepositAgain(s) == ~row[s].tx

MayDeposit(s) == ~row[s].tx /\ ~row[s].initiated

\* ... then claims the deposit, whatever the status is by now ...
ClaimDeposit(c) ==
  LET s == Sale(c)
  IN  /\ At(c, "claim")
      /\ IF MayDeposit(s)
           THEN /\ row' = [row EXCEPT ![s] =
                             [@ EXCEPT !.status = "waiting_for_deposit", !.initiated = TRUE]]
                /\ Goto(c, "deposit")
           ELSE Goto(c, "idle") /\ UNCHANGED row
      /\ UNCHANGED <<balanceVars, entry, sent, lost, sold, news, hook>>

\* ... and sends the tokens.
Deposit(c) ==
  /\ At(c, "deposit")
  /\ SendUsdcDeposit(c, "record_deposit", "undo")
  /\ UNCHANGED <<balanceVars, row, entry, sold, news, hook>>

RecordDeposit(c) ==
  LET s == Sale(c)
  IN  /\ At(c, "record_deposit")
      /\ \/ /\ row' = [row EXCEPT ![s] = [@ EXCEPT !.status = "deposit_submitted", !.tx = TRUE]]
            /\ Goto(c, "idle")
            /\ UNCHANGED lost
         \/ /\ lost[s] < MaxLost
            /\ lost' = [lost EXCEPT ![s] = @ + 1]
            /\ Goto(c, "undo")
            /\ UNCHANGED row
      /\ UNCHANGED <<balanceVars, entry, sent, sold, news, hook>>

\* Anything that throws after the claim lets the customer try again.
UndoDeposit(c) ==
  LET s == Sale(c)
  IN  /\ At(c, "undo")
      /\ row' = [row EXCEPT ![s] =
                   [@ EXCEPT !.status = "waiting_for_deposit", !.initiated = FALSE]]
      /\ Goto(c, "idle")
      /\ UNCHANGED <<balanceVars, entry, sent, lost, sold, news, hook>>

\* The process ends, or a database call of the request throws.
RequestEnds(c) ==
  /\ ~At(c, "idle")
  /\ Goto(c, "idle")
  /\ UNCHANGED <<balanceVars, row, entry, sent, lost, sold, news, hook>>

ClientStep(c) ==
  \/ \E s \in Sales : CreateSession(c, s) \/ InitiateDeposit(c, s)
  \/ Sweep(c) \/ ReleaseUnswept(c) \/ Transfer(c) \/ CreatePayout(c)
  \/ NotePayoutFailed(c) \/ RecordPayout(c)
  \/ ClaimDeposit(c) \/ Deposit(c) \/ RecordDeposit(c) \/ UndoDeposit(c)
  \/ RequestEnds(c)

-------------------------------------------------------------------------------
(* Webhooks                                                                *)

\* A delivery reads the row of its session; its handler writes what it makes
\* of that, whatever the row has become.
ReadSale(h, s) ==
  /\ hook[h].step = "idle"
  /\ \E e \in news[s] :
       hook' = [hook EXCEPT ![h] = [step |-> "apply", sale |-> s, event |-> e,
                                    read |-> row[s], status |-> "none"]]
  /\ UNCHANGED <<balanceVars, row, entry, sent, lost, sold, news, client>>

\* nextStatus: a completion always counts, other ends are kept.
NextStatus(read, e) ==
  CASE read.status = "completed" \/ e.status = "completed"               -> "completed"
    [] e.status = "failed" /\ (read.tx \/ e.tx) /\ ~e.refund
       /\ read.status # "completed"                                      -> "refund_pending"
    [] OTHER -> IF read.status \in Ended THEN read.status ELSE e.status

EndHook(h) == hook' = [hook EXCEPT ![h] = IdleHook]

HookGoes(h, step, status) ==
  hook' = [hook EXCEPT ![h] = [@ EXCEPT !.step = step, !.status = status]]

\* applyMoonpayWebhook: a failed session gives back what it reserved when no
\* deposit is known, or one that MoonPay has refunded.
ApplyMoonpayWebhook(h) ==
  LET s == hook[h].sale
      e == hook[h].event
      read == hook[h].read
      status == NextStatus(read, e)
      tx == read.tx \/ e.tx
      refund == read.refund \/ e.refund
  IN  /\ hook[h].step = "apply" /\ Provider[s] = "moonpay"
      /\ row' = [row EXCEPT ![s] = [@ EXCEPT !.status = status, !.tx = tx, !.refund = refund]]
      /\ IF status = "completed" THEN HookGoes(h, "complete", status)
         ELSE IF \/ status \in {"failed", "cancelled"} /\ ~tx
                 \/ status = "failed" /\ refund
           THEN HookGoes(h, "release", status)
         ELSE EndHook(h)
      /\ UNCHANGED <<balanceVars, entry, sent, lost, sold, news, client>>

\* applyStripeWebhook: an event of the transfer or the payout.
ApplyStripeWebhook(h) ==
  LET s == hook[h].sale
      read == hook[h].read
      status == IF read.status \in Ended THEN read.status ELSE hook[h].event.status
  IN  /\ hook[h].step = "apply" /\ Provider[s] = "stripe"
      /\ row' = [row EXCEPT ![s].status = status]
      /\ IF status = "completed" THEN HookGoes(h, "complete", status)
         ELSE IF status = "failed" THEN HookGoes(h, "release", status)
         ELSE EndHook(h)
      /\ UNCHANGED <<balanceVars, entry, sent, lost, sold, news, client>>

CompleteSale(h) ==
  /\ hook[h].step = "complete"
  /\ CompleteReservedFunds(hook[h].sale)
  /\ EndHook(h)
  /\ UNCHANGED <<sent, lost, sold, news, client>>

ReleaseSale(h) ==
  /\ hook[h].step = "release"
  /\ ReleaseReservedFunds(hook[h].sale, hook[h].status)
  /\ EndHook(h)
  /\ UNCHANGED <<sent, lost, sold, news, client>>

\* The process ends; the provider may deliver the event again.
DeliveryEnds(h) ==
  /\ hook[h].step # "idle"
  /\ EndHook(h)
  /\ UNCHANGED <<balanceVars, row, entry, sent, lost, sold, news, client>>

HookStep(h) ==
  \/ \E s \in Sales : ReadSale(h, s)
  \/ ApplyMoonpayWebhook(h) \/ ApplyStripeWebhook(h)
  \/ CompleteSale(h) \/ ReleaseSale(h) \/ DeliveryEnds(h)

-------------------------------------------------------------------------------
(* The providers                                                           *)

Moves(s, from, to, e) ==
  /\ sold[s] \in from
  /\ sold' = [sold EXCEPT ![s] = to]
  /\ news' = [news EXCEPT ![s] = @ \cup {e}]
  /\ UNCHANGED <<balanceVars, row, entry, sent, lost, client, hook>>

\* MoonPay: the customer confirms the sale in the widget, MoonPay sees the
\* deposit and pays out, or the sale is given up before or after the deposit.
MoonpayStep(s) ==
  /\ Provider[s] = "moonpay"
  /\ \/ row[s].status # "none" /\ Moves(s, {"none"}, "waiting", Event("waiting_for_deposit", FALSE, FALSE))
     \/ sent[s] > 0 /\ Moves(s, {"waiting"}, "received", Event("processing", TRUE, FALSE))
     \/ Moves(s, {"received"}, "completed", Event("completed", TRUE, FALSE))
     \/ Moves(s, {"waiting"}, "cancelled", Event("cancelled", FALSE, FALSE))
     \/ Moves(s, {"waiting"}, "failed", Event("failed", FALSE, FALSE))
     \/ Moves(s, {"received"}, "failed", Event("failed", TRUE, FALSE))
     \/ sent[s] > 0 /\ Moves(s, {"failed"}, "refunded", Event("failed", TRUE, TRUE))

\* Stripe: a payout is paid or fails.
PayoutEnds(s) ==
  /\ Provider[s] = "stripe"
  /\ \/ Moves(s, {"received"}, "completed", Event("completed", FALSE, FALSE))
     \/ Moves(s, {"received"}, "failed", Event("failed", FALSE, FALSE))

SaleStep ==
  \/ \E c \in Clients : ClientStep(c)
  \/ \E h \in Hooks : HookStep(h)
  \/ \E s \in Sales : MoonpayStep(s) \/ PayoutEnds(s)

-------------------------------------------------------------------------------
(* Safety                                                                  *)

\* A reservation is spent only when the provider has paid the customer.
SettledOnlyWhenPaid == \A s \in Sales : entry[s] = "completed" => sold[s] = "completed"

\* The tokens of a session go out once, however many requests for the deposit
\* come together, except again after a sending that was not answered.
OneDepositPerAnswer == \A s \in Sales : sent[s] <= 1 + lost[s]

===============================================================================
