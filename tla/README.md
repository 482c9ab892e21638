# MCBuse money movements: a TLA+ model

MCBuse is a payment application: a NestJS API (`src/apps/api`), a mobile client
and a merchant portal.  Customers hold USDC in two custodial Solana wallets (Holding
and Routine), fund them through Stripe, move money between them, pay merchants and
each other, and withdraw to a bank or card.  Three kinds of state have to stay in
step although no transaction spans them: the Postgres database (operations,
balances, ledger), the Solana chain, and Stripe.  Workers, requests and webhooks
act on them at the same time and may die between any two calls.  This directory
models that part of the program, and the change intelligence that follows every change of a
merchant's data (its work queue and its engine), checks them with TLC and proves the safety of transfers,
withdrawals, fundings, payments, the queue, the ramps and the change engine with TLAPS.

Paths below are relative to `src/apps/api/src`.

## Inventory

| Component | State | Operations | Interacts with | What makes it hard | What makes it correct |
| --- | --- | --- | --- | --- | --- |
| Operation lifecycle (`financial-operations/operation-state.ts`) | none, pure | legal transitions, resume action of a status | every handler | each kind has its own order; failing is refused once value moved | no status strands an operation; no money is declared unmoved after it moved |
| Operation store (`financial-operations.service.ts`) | `financial_operations` rows, leases in them | begin, advance, fail, beginCompensation, completeCompensation, claim, renew, release, reserve, release-and-end | handlers, runner | guarded updates race each other | a row moves only along its sequence; one lease at a time |
| Balances and ledger (`operation-ledger.service.ts`) | `balances.available/pending`, `ledger_entries` | reserve, release, consume, credit, recordOnce | finalize of each kind | finalize runs again after a crash | reservations match operations; one entry per operation |
| Runner (`accounts/operation-runner.service.ts`) | worker id, lease held | sweep every 15 s, step under a lease, heartbeat, defer on error | store, every handler | stalls outlive the 120 s lease; dies anywhere | every operation ends; overlap does no harm |
| Token transfers (`solana/solana.service.ts`, `spl-transfer.ts`) | `chain_attempts` rows | sendTransfer, recoverTransfer | RPC node | outcome unknown after a timeout; expired blockhash | tokens move at most once per intent |
| Account transfers (`accounts/account-transfer.service.ts`) | operation rows | start, reserve, submit, finalize | runner, chain, ledger | all of the above | a failed transfer moved nothing; the books record what landed |
| Account withdrawals (`accounts/account-withdrawal.service.ts`) | + Stripe transfer and payout, return signature | + submit payout, payout event, poll, compensate | + Stripe | payout fails after the tokens are gone | paid or given back, never both; given back at most once |
| Account funding (`accounts/account-funding.service.ts`) | + Checkout session, payment intent, refund | checkout, deliver, finalize, refund, poll | + Stripe | lost or late webhooks; refund racing delivery | delivered or refunded, never both |
| Webhooks (`accounts/accounts-webhook.service.ts`, `financial-operations/provider-webhook.service.ts`) | `provider_webhook_events` | claim, mark processed or failed | handlers, runner | repeated, late, concurrent | repetition changes nothing |
| Reconciliation (`financial-operations/reconciliation*.ts`) | none, reads all | expected difference per wallet, report | ledger, chain | lists of statuses must fit the handlers | explains every state the handlers reach |
| Merchant and customer payments (`payments/payments.service.ts`) | `merchant_payment_attempts`, payment requests, balances | execute, finalize, fail, delay, reconcile | chain, inventory | tokens move before the ledger; five-minute recovery without a lease | paid once; a failed payment moved nothing |
| Payment requests (`payment-requests/payment-requests.service.ts`) | `payment_requests` | create, resolve, cancel, expire | payments, inventory | expiry while it is being paid | a paid request is never expired |
| Merchant inventory (`data-capture/merchant-inventory.service.ts`) | stock on hand and reserved, invoices | adjust, invoice, cancel, expire, release, settle | payments | three ways to end an invoice race | stock reserved by an invoice is settled or released once |
| Cash sales (`data-capture/merchant-activity.service.ts`) | `merchant_cash_sales` | create, void | stock | two voids of one sale | stock is counted once per sale |
| Work queues (`change-intelligence/change-work-queue.service.ts`, `analytics-intelligence/analytics-work-queue.service.ts`) | one row per merchant: revision, lease | enqueue, claim, renew, publish, complete, fail | workers | lease takeover, requests during a run | no lost request, no stale publication |
| Off-ramp (`offramp/offramp-sessions.service.ts`) | session rows, their ledger entries, the Holding balance | create, initiate deposit, webhooks of MoonPay and Stripe | chain, providers | rows written back stale; lost answers | a reservation ends once, and is spent only when the customer was paid |
| On-ramp and chain watcher (`onramp/*.ts`, `chain-watcher/solana-onramp-reconcile.service.ts`) | session rows, their credit | create, webhooks, credit, watch, expire | chain, providers | webhook and watcher write one row | credited once, and only when completed |
| Swap (`swap/swap.service.ts`) | replay record, balances | quote, swap | provider | two requests with one key | one call and one transaction |
| Authentication, OTP, NFC, staff, mail, rates, health, logging, treasury command lines | rows read and written in single steps | | | token rotation race | outside the money flows |
| Change detection engine (`change-intelligence/engine/*.ts`) | saved states of a dependency graph, active cases, the last day evaluated | load, selective re-evaluation, daily lifecycle, publish | queue, merchant records | the day repeats, is skipped or moves; only what an event names is recalculated | saved states are current; cases follow them; a case opens only when confirmed |
| Credit assessment and analytics engines | none, pure | statistics | queues | numeric | outside TLC's reach |
| Portal, mobile, web, packages, deploy scripts | no durable state | | API | | user interfaces and configuration |

`PROJECT.json` lists the components with their status, and under `hazards` each
place in the code where something can go wrong that a test would hardly reach.

## Modules

| Module | Models | Extends |
| --- | --- | --- |
| `OperationState` | lifecycle, as pure operators | |
| `FinancialOperations` | the rows, leases, balances, ledger, and the effect of each store method | `OperationState` |
| `ChainTransfer` | workers under leases; sendTransfer and recoverTransfer call by call; the chain | `FinancialOperations` |
| `AccountTransfer` | transfers between two wallets; all their properties | `ChainTransfer` |
| `AccountWithdrawal` | withdrawals, Stripe, compensation; all their properties | `ChainTransfer` |
| `AccountFunding` | fundings: Checkout, webhooks and poll, delivery, refund; all their properties | `ChainTransfer` |
| `CollectedMoney` | the abstract promise of a funding: collected money is delivered or refunded, never both, and closed only then | |
| `MoneyMovement` | the abstract promise of a transfer: move, then record; or refuse | |
| `PaymentRequests` | payment requests, stock set aside by invoices, expiry, cancellation, adjustments, cash sales | |
| `MerchantPayment` | payments of customers and to merchants, their recovery pass; all their properties | `PaymentRequests` |
| `ChangeQueue` | the queue of one merchant: capture by the trigger, requests, workers, fenced publication | |
| `RevisionLog` | the abstract promise of the queue: changes are numbered and each is evaluated once, in order | |
| `ChangeCases` | what a run of the queue computes and publishes: saved states, lifecycles and cases of the products of one merchant; all its properties | |
| `HoldingBalance` | the Holding balance as the ramps write it | |
| `OfframpSessions`, `OnrampSessions` | the older cash-out and top-up, with their providers | `HoldingBalance` |
| `Ramps` | both ramps on one balance; the properties of the composition | `OfframpSessions`, `OnrampSessions` |
| `AccountTransfer_proofs`, `AccountWithdrawal_proofs`, `AccountFunding_proofs`, `MerchantPayment_proofs`, `ChangeQueue_proofs`, `Ramps_proofs`, `ChangeCases_proofs` | theorems and lemmas | the module, `TLAPS`; those about balances also `Sums_proofs` |
| `Sums_proofs` | lemmas about the sum of a function over a finite set, by which balances and stock are stated | `Functions`, `FiniteSetTheorems`, `TLAPS` |
| `MCAccountTransfer`, `MCAccountWithdrawal`, `MCAccountFunding`, `MCMerchantPayment`, `MCChangeQueue`, `MCChangeCases`, `MCRamps` | instances for TLC | |

### How state and actions correspond to the code

* `status`, `chainSignature`, `claimedBy`, `claimLive` are columns of
  `financial_operations` (`claimLive` is "`claimedUntil` is in the future"; there
  is no clock, `Lapse` makes it false).  A null wallet column is `Treasury`.
* `available`, `pending` are the two columns of `balances`; `ledger` is the set
  of operations that have an entry with the unique key `operation:<id>`.
* `attempt[o][r]` is the `chain_attempts` row of an intent, unique on the intent
  key, together with what has become of its transaction: none, prepared,
  broadcast, landed, dead.  Round 0 is the operation's own transfer; round r is
  the r-th return of a compensation, whose key is derived from the signature before it.
* `tokens` is what a wallet holds on chain.
* A worker is a process stepping one operation: `pc` is the next database, RPC or
  Stripe call of the handler, `op` the operation, `round` the intent.  Each call
  is one action; between two calls anything else may happen.  One SQL statement
  with its `WHERE`, or one transaction, is atomic, as it is in Postgres.
* `sendTransfer` is the chain `LookUp` - `Sign` - `RecordSignature` - `Broadcast` -
  `Confirm`, with `CheckSaved` for a sender that lost the unique insert and
  `RecoverSettled`/`RecoverPending` for an intent that has a row already.
* `Abort` is an exception at any call outside a try block (the call may or may
  not have taken effect: the effect without its answer is the action followed by
  an abort); the runner defers the operation and releases it.  `Crash` loses the
  worker and leaves the lease behind.  `PayoutFails` is an exception inside the
  try block of `submitPayout`.
* A request that starts an operation writes the row (`Begin`) and reserves funds
  (`RequestReserve`) without a lease; it may die between the two, and the sweep
  then starts the row itself (`Reserve`).

* In `AccountFunding` the workers are runners, which take leases, and webhook handlers,
  which take none; `checkout`, `refund`, `disputed` are Stripe's state, `providerRef`,
  `paymentIntent`, `refundId` the columns that say what the row knows of it, `heard` what a
  handler has read of the session.  `Polled` is why a poll tells less than an event.
  `stale` is the 23-hour window after which Checkout is no longer recovered.

* In `MerchantPayment` a payment is named by its idempotency key.  `attempt`, `attemptKey`, `signed` are
  columns of `merchant_payment_attempts`, whose one row per request is the claim; `chain[k]` is the
  saved transaction with its fate, `ledger` the keys that have an entry.  A *caller* is the request of a payer
  (`Execute` to `Finalize`), a *recoverer* the pass of `reconcileSubmittedMerchantPayments`, whose rows
  are read at once (`snapshot`) and worked on one by one (`LookForRow`, `CheckChain`, `Attach`).
  `late` is "claimed over five minutes ago".  A call that throws takes the path of its catch block (`Throw`,
  `Thrown`), one that ends without it is `CallEnds`.
* In `PaymentRequests` a product's stock is the two columns of `merchant_products`; each transaction
  that ends an invoice (`Withdraw`, `ExpireStale`, `SettleReservedInventory`, `ReleaseReservedInventory`)
  is one action with its conditional updates.  Whether the expiry of a request has passed is `overdue`.
* In `ChangeQueue` `requested` and `processed` are the two revisions of the merchant's work row, `Capture` the trigger of
  `drizzle/0038_change_intelligence.sql`, which numbers an event and writes it in one transaction.  `holder`
  is the lease token, `live` says that the lease has not run out, and a worker remembers what it claimed
  (`claimed`, `base`, `why`) and loaded.
* In `ChangeCases` `saved[p]` is the value of a product's nodes in `merchant_change_states`, `recording` that of the merchant's
  node, `lastDaily` the date in the work row, `cases[p]` the types of the product's active cases and `changedOn` their last
  change.  `NewStates` is the propagation of `evaluateMerchant` node by node; `Advance` is `advanceLifecycle`; `NewCases` is
  `deriveCaseOperations` applied.  `source` is what the records say as of the last completed day: the statistics that judge
  a week are abstracted to their verdict (`trade`, and `gap` while too little is recorded), of which any may come about by a
  change or a new day.  `Publish` is load, evaluation and publication together: a change between them has its own event
  and another run follows it.  `judged`, `shelved` and `repeated` are history, read only by properties.
* In `OfframpSessions` `row` has the columns that are read back (status, deposit, refund, when the deposit was
  initiated), `entry` the status of the session's ledger entry.  A webhook's handler is two steps: it reads the row,
  and writes what it made of it (`ApplyMoonpayWebhook`, `ApplyStripeWebhook`), then settles or releases in a
  third.  A MoonPay event accumulates in `news`: it may come at any time, again, or never.
* In `OnrampSessions` a delivery reads (`ReadPurchase`), writes by what it read (`ApplyProviderWebhook`) and credits.  What
  neither its event nor the row it read tells is `undefined` in the update, and the column keeps what it holds by now
  (`FirstKnown`); an update that names another row's transfer throws (`Free`, the unique index on `tx_hash`).  `order` is what
  has become of the purchase at the provider, as a set, since MoonPay may refund a completed one; `Events` are the events
  that follow from it, pending and processing ones included, with or without amount and transfer, at any time, again, or
  never; a session has one transaction at its provider.  Passes of the watcher do not wait for each other: each look (`StartLook`, `Look`, `ApplyChainHit`,
  `CreditFromWatch`) has a state of its own, and several may be at one session.

### Abstractions

Left out because no property tells them apart: the event log and audit records,
next-attempt times (a webhook's nudge ignores them, so an operation may be
claimed whenever its lease is free), the input fingerprint of a replayed key,
refused signing authorisations (an exception, hence `Abort`), the fee payer and
account rent, and the Treasury's own holdings.  `workerId` is one per process and
a process may step one operation from its sweep and from a webhook: the model's workers
each have an id of their own, which is what the lease distinguishes.  Of a funding, the check that a session's amount,
user and wallet are the row's own is left out (the model's session always is), as are the
readiness of the Treasury (a refused request writes no row) and the table of webhook events
(it only suppresses repetitions, and the model allows any).

## Runs

| Run | Bounds | Shows |
| --- | --- | --- |
| `transfer_recovery` | 2 transfers from one wallet, 2 workers, 2 faults | books match the chain, reservations match operations, a failed transfer moved nothing, balance rises only on evidence, `MoneyMovement` is implemented, every transfer ends |
| `transfer_lost_race` (violation) | live leases may lapse, 1 fault | finding 1 |
| `withdrawal_recovery` | 1 withdrawal, 2 workers, 5 faults, 3 returns, errors may hide a success | a recorded payout is undone only when it failed; given back once; restored only on evidence; a failed withdrawal moved nothing; reservations, chain and books agree; every withdrawal ends without relying on a webhook |
| `withdrawal_unclear` (violation) | 1 withdrawal, errors may hide a success | finding 2 |
| `funding_recovery` | 1 bank funding, 2 runners, 1 webhook handler, 2 faults | a failed funding took nothing, chain and books agree, collected money is delivered or paid back with no webhook |
| `funding_overlap` | the same with 1 fault; live leases may lapse | never delivered and refunded (`CollectedMoney`), reversed only on a refund that succeeded |
| `funding_lost_webhook` (violation) | the same without faults | finding 3 |
| `payment_recovery` | an invoice two customers want to pay and a customer's request; 1 call and 1 recovery pass at a time, 1 fault; 1 adjustment and 1 cash sale of the invoice's product | one payment per request, recorded only after landing, a failed payment moved nothing, pending balance, stock and ledger add up, what is closed stays closed, every claim ends |
| `payment_expiry` (violation) | a charge, two payers, no fault | finding 4 |
| `queue_exactly_once` | 2 workers, 3 revisions, 3 faults (failed runs, crashes, leases lost by a live worker) | `RevisionLog` is implemented, a full re-evaluation is not downgraded, every change is evaluated |
| `change_cases` | 1 product, 5 days, 2 changes (of sales, stock, minimum, archival, timezone, a rebuild, a failed run), confirmation and recovery after 2 days, expiry after 3, up to 2 days late | selective re-evaluation leaves what a full one would (`SavedIsCurrent`), cases agree with states and no case outstays its terms (`CasesInv`), a demand case opens only on confirmed days |
| `ramps` | a MoonPay cash-out with 2 requests and 2 deliveries together; a MoonPay purchase and a Stripe cash-out of what it brought in; a Stripe purchase with 2 deliveries together; a MoonPay purchase with 1 delivery beside 2 looks of the watcher; a MoonPay and a Stripe purchase with 1 delivery and 1 look; 1 lost answer per session | `RampsInv` and `HoldingMatchesLedger`: stale rows do no harm to the money |

**Bounds.**  Two workers are enough for every overlap of a lease holder and the
worker that took over, and `MaxFaults` (crashes and exceptions in a behaviour)
reaches a fault during the recovery from a fault.  In `transfer_recovery` two operations on one wallet
are what reservations and balances need to be confused; amounts 2 and 1 differ,
so that releasing or consuming the wrong one shows.  A withdrawal is checked alone:
it touches balances by the same transactions of `FinancialOperations`.  `MaxReturns = 3` lets two returns
expire and another follow; the last is not let expire, which bounds the rounds and
removes no order of steps within them.  One funding is enough because fundings share nothing
but the balance they are added to, in one atomic step each; a bank debit is the richer kind,
since it is submitted before it is paid and may fail after that.

Payments run with one call and one recovery pass at a time (`Callers`, `Recoverers`), which interleave with each other, with
the sweep, the shop and the chain; a second payer's call comes before, between or after.  Calls together
are covered by the theorems, which hold for any number of them; several recovery passes together by those that do not assume
one at a time (see Proofs).  `MaxVoids = 1`: one request to void a cash sale at a time; two of them
read the same status and put the units back twice, and nothing in the repository speaks of that case, which `hazards` lists.
`MayExpire` is the invoice: `ClosedIsFinal` holds for it, and fails for a charge as finding 4 explains.
`MayStall = FALSE`: the five minutes after which recovery may fail an attempt are longer than a call takes; a
process that sleeps through them may still send, which `hazards` lists too.  Three revisions let a request
come before, during and after a run; a fourth repeats one of these.  In `change_cases` five days let a case open
on the second, and be reversed, recover, expire or lose its assessment by the fifth; two changes are a change and what undoes or
crosses it.  Products share only the merchant's recording activity, which `RecordUnassigned` moves from outside.  A
week is not made `uneven` or `unassessable` there: a gap in the recording is the other way to the same branches.
In `ramps`, `Mixes` bounds what is in play together: the sessions opened, what has become of the purchases, the handlers at
work (`InBounds`).  The two ramps share only the balance, so the instance composes them where that matters, a
purchase that makes a cash-out possible, and gives each kind of concurrency a mix of its own: two deliveries at one
session, where the older one writes back what the newer one has passed; a delivery between the reads and writes of two
looks; and two purchases of one wallet, where the watcher takes the tokens of one for the other's and the unique index
refuses the second row that names them.  The theorems about the ramps have no such bound.

**Deadlock** is not checked: when all operations have ended and the faults are
used up the system rightly has nothing left to do; so has a queue at its last revision.

**Fairness** (`FairSpec`), and what in the code justifies it.  A worker goes on with
its handler (`await` returns or throws).  The sweep reads every due row each
15 s, so an operation that is claimable again and again is claimed.  A lease whose
holder is gone runs out after 120 s.  A sent transaction is finalized or its
blockhash expires.  A node asked again and again about a settled signature answers
some time (`RecoverSettled`, `CheckReturn`).  A return sent again and again reaches the
chain.  Stripe settles or fails a payout, a bank debit, a refund.  Nothing is assumed of webhooks or of requests:
the poll has to do without them.  The recovery pass of payments runs every thirty seconds and five minutes pass; a
call of a payer goes on.  Queue workers claim due work, leases run out after their time and so does a backoff.
Faults are finite in number.  No liveness is claimed of the ramps, which have no recovery: a session whose process
dies waits for its provider's next event.

**When leases may lapse.**  A live worker renews its 120 s lease every 30 s, so
only a stall of the process or the database loses it.  `LeaseMayLapse = FALSE` excludes
that; `TRUE` allows it at any moment.  Which property needs which is part of the
result: what is recorded, reserved, returned and refunded survives overlap; what is declared
failed does not.  The first part is proved with lapses at any time: of transfers (`RecordedAfterLanding`,
`ReservationsBacked`, `BooksFollowChain`), of the returns of a withdrawal (`ReturnedOnce`) and of
fundings, whose theorems all do without leases.  The rest of a withdrawal does not survive: a worker stalled in the try block of
`submitPayout` compensates a row which another one has meanwhile settled and recorded, because
`canTransition` allows *compensating* from `payout_settled`.  A funding keeps its promise under overlap because `refundFunding` looks the
saved signature up again: a delivery that lands after a stalled runner gave it up is not
refunded, but the row stays at `compensating` for an operator.

## Findings

1. **A stalled sender releases money that is on its way** (`transfer_lost_race`,
   `accounts/account-transfer.service.ts:193`, the same in
   `account-withdrawal.service.ts:211`).  Worker A's lease lapses, its signing raises,
   it finds no saved row and answers *failed*.  Worker B, which has taken over, saves its
   transaction and moves the row to `chain_submitted`.  A reads the row again, finds
   `chain_submitted`, takes it for its own submission, and releases the reservation as failed.
   B's transaction lands.  `solana.service.ts:94-95` says: "A lease overlap may lose the
   unique insert while the winner broadcasts. Never release the reservation merely because this
   sender lost that race."
2. **A withdrawal may be paid and given back** (`withdrawal_unclear`,
   `accounts/account-withdrawal.service.ts:301`).  The catch block of `submitPayout`
   compensates whatever failed.  If the payout exists (its answer was lost, a retry after a
   crash was refused, or the row could not be written), Stripe pays and the Treasury returns the tokens.
   A payout that was recorded is safe:
   `ReturnedOnlyIfPayoutFailed` holds with the same errors.  The class comment (31-33) speaks of a payout that failed, and
   `docs/plans/revised-merchant-plan-checklist.md:92` asks to "keep uncertain transactions
   pending while reconciling".

3. **A failed bank debit is noticed only through its webhook** (`funding_lost_webhook`,
   `accounts/account-funding.service.ts:206`).  The poll calls `applyCheckoutEvent` with the
   event type `polled`, which fails an operation only for the event types of a failure (206) or
   an expiry (217).  If that event is lost, the funding is polled for ever at
   `collection_pending`.  `accounts-webhook.service.ts:34-35` says the webhook makes funding feel
   instant "without the operation ever depending on a webhook arriving", and line 429 says of the poll:
   "Re-reads a pending Checkout session when a webhook never arrived."  Money that was paid is
   not affected (`EveryCollectionIsHonoured`).

4. **A charge expires while it is being paid** (`payment_expiry`, `payment-requests/payment-requests.service.ts:222`).
   `resolveInternal` sets an overdue charge to *expired* with no condition on its status.  Called by a second payer while
   the first one's payment is under way, it expires a *processing* request; `finalizeMerchantPayment` requires
   *processing*, so the payment that lands is never recorded and what it set aside stays so.
   `docs/plans/phase-5-payment-requests.md:67` lets rows expire where `status='pending'`, and the comment in line 355 says of
   the cancellation: "Atomic conditional UPDATE - prevents race with concurrent completion/expiry".

## Proofs

The theorems hold for every set of operations, workers, wallets, keys or callers, every amount and every bound on
faults.  They rest on the named assumptions of the modules (`KindAssumption`, `AmountAssumption`, `PaymentAssumption`,
`QueueAssumption`, ...), which TLC evaluates in the runs.  Where something is summed, the sets of operations, requests and
sessions are finite (`OperationsAssumption`, `RequestsAssumption`, ...).  Further hypotheses stand in the theorem itself, and below.

**Transfers** (`AccountTransfer_proofs`).

* With overlapping workers and leases that lapse at any time: `TypeCorrect`; `RecordedAfterLanding`
  (`Spec => []RecordedOnlyAfterLanding`); `ReservationsBacked`
  (`Spec => []ReservationsAreBacked`); `BooksFollowChain` (`Spec => []BooksMatchChain`).
* Assuming `~LeaseMayLapse`: `FailedMovedNothing` (`Spec => []FailureMovedNothing`); `RisesOnEvidence`
  (`Spec => RiseOnlyOnEvidence`); `ImplementsPromise` (`Spec => KeepsPromise`: each step of the handlers is a
  step of `MoneyMovement` or a stutter, with *moved* = the operation's transaction landed,
  *recorded* = it has a ledger entry, *refused* = its status is `failed`).

The argument has two layers, and `AccountTransfer` states both.  `LandingInv` and `LedgerInv`
need no lease: a row is confirmed, finalized or recorded, and a worker holds the answer *completed*, only
when the transaction has landed, and landing is never undone; an entry belongs to a confirmed row.  They are inductive together with
`TypeOK`, and give the statements about balances: every step is one of a few ways to set aside, give up, land or book one operation,
and each of them changes both sides of the sum by that operation's amount.  `FailureMovedNothing` is not
inductive: a worker about to fail a row must know that no other
worker has sent for it since it looked.  `LeaseInv` (a busy worker holds a live lease on its
operation, so at most one worker is at an operation) and `WorkerInv` (between the look-up and the
answer of a sender that saved nothing the row is still `reserved`; a *failed* answer on a
submitted row means the transaction is dead) supply that; together with "absent or created rows
have no transaction" they make `TransferInv`, which the proof shows inductive, action by action.

**Withdrawals** (`AccountWithdrawal_proofs`).

* With leases that lapse at any time: `TypeCorrect` (proved, and so left out of the runs; the same holds of the queue's);
  `ReturnedOnce` (`Spec => []ReturnedAtMostOnce`), with any number of workers compensating one withdrawal.
* Assuming `~LeaseMayLapse`, with errors of Stripe that may hide a success: `FailedMovedNothing` (`Spec => []FailureMovedNothing`);
  `ReturnNeedsFailedPayout` (`Spec => []ReturnedOnlyIfPayoutFailed`); `ReservationsBacked` (`Spec => []ReservationsAreBacked`);
  `BooksFollowChain` (`Spec => []BooksMatchChain`); `RestoresAfterReturn` (`Spec => RestoredOnlyAfterReturn`).
* Assuming `~LeaseMayLapse` and `~UnclearErrors`: `PaidOrReturned` (`Spec => []NeverPaidAndReturned`).  The unclear errors of
  finding 2 are the only way to be paid and given back, as long as no live worker loses its lease.

The key of a return is derived from the signature before it, so `ReturnInv` orders the
returns: a later one has begun only when all before it are dead, and a worker that derives the next key has seen the last die.
That needs no lease.  `WithdrawalInv` adds the leases (`LeaseInv`), what a status says of the chain, Stripe and the ledger
(`RowInv`: value has left from `chain_confirmed` on, a return is begun only while compensating, an entry belongs to a settled
row) and what a worker knows of its row (`WorkerInv`: in the try block and in its catch block the row is still
`chain_confirmed`, which is where a lost lease breaks in).  `ClearInv` says, when errors are clear, that a row given back
has no payout or a failed one, and that the catch block is reached only without a payout.

**Payments** (`MerchantPayment_proofs`).

* For any number of calls, recovery passes and stalls: `TypeCorrect`; `OnePayment` (`Spec => []OnePaymentPerRequest`);
  `RecordedAfterLanding` (`Spec => []RecordedOnlyAfterLanding`); `BalancesFollowLedger` (`Spec => []BalancesMatchLedger`).
* For any number of calls, assuming `~MayStall` and one recovery pass at a time (`OnePass`): `FailedMovedNothing`
  (`Spec => []FailureMovedNothing`); with `MaxVoids <= 1` also `StockAddsUp` (`Spec => []StockIsAccounted`); when only invoices
  expire also `PendingBacked` (`Spec => []PendingIsBacked`) and `ClosedStaysClosed` (`Spec => ClosedIsFinal`).

`IInv` has what the calls and passes know: a call past the claim of a merchant's request holds that request's key
(`CallInv`), a recovery pass is only at requests that were claimed and finalizes what has landed (`RowInv`), and the
key of a request is one that pays it (`KeyInv`).  A claim is never handed on, which makes the induction go through
without any assumption on time.

`PaymentInv` needs time: until the tokens of a key have landed at most one call is engaged with it, and none once the claim is
five minutes old (`HoldInv`); what a call reads of row and chain still holds when it acts (`StepInv`); the request, the attempt
and the chain agree (`RequestInv`); and a recovery pass that fails a row knows its transaction dead, or that there is none and
will be none (`PassInv`).  The proof first bounds what each kind of step may do to a request (`StepOn`), shows the invariant for that,
and then that each such step changes balances and stock by one payment, sale or adjustment.

Why the hypotheses: a call that sleeps through the five minutes may still send; of two overlapping passes the
slower one may put a failed attempt back to submitted, so that its reservation is given back twice; a charge may expire while it
is paid (finding 4); and two requests to void one sale put its units back twice.  `hazards` lists all four.

**The queue** (`ChangeQueue_proofs`).

* `TypeCorrect`: `Spec => []TypeOK`.
* `NothingIsSkipped`: `Spec => []QueueInv`: a worker that may publish has read every event between the revision it found and the one it claimed.
* `Refinement`: `Spec => ImplementsLog`: a publication moves `RevisionLog`'s position over exactly the events it evaluated, every
  other step appends or stutters.  No assumption on leases is needed: the fence is the revision and the token in the row.
* `FullEvaluation`: `Spec => FullIsNotDowngraded`.  Its invariant says that the reason a worker claimed is the row's own
  as long as nothing was requested or published since (`ReasonInv`), and that a worker which claimed a full reason evaluates fully (`FullInv`).

**Fundings** (`AccountFunding_proofs`).

* `TypeCorrect`: `Spec => []TypeOK`.
* `FailedTookNothing`: `Spec => []FailureCollectedNothing`; `ReversedIsRefunded`: `Spec => []ReversedOnlyWhenRefunded`.
* `DeliversOrRefunds`: `Spec => FulfilsPromise`: each step is a step of `CollectedMoney` or a stutter.
* `BooksFollowChain`: `Spec => []BooksMatchChain`.

All of them with any number of runners and webhook handlers, and with leases lapsing at any time.  No lease is needed
because handlers act on final outcomes only: `WorkerInv` says that what a handler saw of a paid, failed or expired
session, of a landed or dead delivery and of a refund that succeeded is still so when it acts.  `RowInv` relates the columns:
nothing is signed before the money is there, the signature is in the row before the row counts on it, and a refund was ordered only for
a dead delivery, which is what keeps *delivered* and *refunded* apart.  For the books the proof adds that an entry
belongs to a delivery that landed (`LedgerInv`): tokens arrive, or their arrival is booked, one funding at a time.

**The ramps** (`Ramps_proofs`).

* `RampsKeep`: `Spec => []RampsInv`, for any number of sessions of any kind, of requests, of deliveries of webhooks and of looks of the watcher at once.
* `HoldingFollowsLedger`: `Spec => []HoldingMatchesLedger`, under the same conditions.

`SaleInv` says of a session that nothing calls it completed before the provider paid: not its row, not the events told, not
its ledger entry; and that tokens went out at most once more than answers were lost.  `ClientInv` and `AloneInv` add that
who holds the claim to send is alone with it, and that a sender who may try again knows that every earlier try went
unanswered.  `PurchaseInv` says as much of a purchase
and its credit.  `HookInv`, `BuyHookInv` and `WatchInv` say the same of what a delivery or a look has read and is about to
write, however old it is: a stale row never says more than the provider did.  The two ramps share only the balance, so the step of
one frames the invariant of the other.
For the balance it is enough to know in addition that a session has an entry only once it has a row (`EntryInv`): each step that moves the
balance changes the status of one entry, or credits one purchase, by the amount it moves, however stale the row it worked on.

**The change engine** (`ChangeCases_proofs`).

* `ConfirmedBeforeOpened`: `Spec => OpenedOnlyWhenConfirmed`.
* `SelectiveIsEnough`: `Spec => []SavedIsCurrent`.
* `CasesKeepTerms`: `Spec => []CasesInv`.

All of them for any number of products and days and every setting.  They rest on `Inv`: nothing saved is of a
later day than the last one evaluated (`PastInv`), so the first run of a day finds every product changed and
evaluates it, and the streak of a lifecycle has as many verdicts behind it (`StreakInv`).  `CurrentInv` adds that
whatever is out of date has an event awaited, pending or with the run, that will have it calculated again, and that
within a product each saved state is the one its parents call for; it also has days evaluated in order, which `CasesInv`
needs for the cases that end with their days.  A day that a timezone brings round a second time is outside
`SavedIsCurrent` and these terms (`repeated`): the code does not count the days of such a spell, so a threshold or correction case may stay
open for as many days longer as the timezone took the merchant back.

**Sums** (`Sums_proofs`).  The balances are stated with `SumFunctionOnSet`, whose definition is a function recursive over
subsets.  Its recursion is unfolded here, and each lemma proved by taking a smallest finite set that would be a counterexample
(finite sets are well-founded under inclusion): the sum is an integer, has a term for each element in whatever order they
are added (`SumWith`, `SumWithout`), and moves by one term when a set or a function changes at one element (`SumMoves`,
`SumChanges`).

**Only model-checked.**  Liveness (`EveryTransferEnds`, `EveryWithdrawalEnds`, `EveryCollectionIsHonoured`, `EveryClaimEnds`,
`EveryEventIsProcessed`): it rests on fairness, and what `ENABLED` says of an action is out of the prover's reach.  Every other
property of the passing runs, invariants and action properties alike, is stated by a theorem.
The findings are counterexamples of TLC, and need no proof.

## Not modelled

The components listed as `not_modelled` in `PROJECT.json`, with the reason for each.  User interfaces keep no durable
state; cryptography, numeric computation (of credit, analytics, and how a week of sales is judged) and reports are pure computation, correct or not by their numbers; single-step
request handlers have no interleaving to explore.  The analytics queue repeats the protocol of the change queue
without its events.  The swap is one provider call and one transaction.  Reconciliation only reads: what it compares is what
`BooksMatchChain` states of the models.

Of the components that are `partly` modelled, the notes in `PROJECT.json` name what is left out.  What matters most of it:
direct payments without a request, imports of stock (which set an absolute number read without a lock), the command line
of the queue, the deletion of products in the change engine, and the requotes of MoonPay.
