---------------------------- MODULE AccountFunding ----------------------------
(***************************************************************************)
(* Funding a wallet from a card or a bank account: AccountFundingService   *)
(* (account-funding.service.ts).  Stripe's hosted Checkout collects the    *)
(* customer's money; once it is paid the Treasury delivers the tokens; a   *)
(* delivery that definitely failed is refunded.  What Stripe decided       *)
(* reaches the row through the runner's poll or through webhooks           *)
(* (accounts-webhook.service.ts), which work without a lease and may come  *)
(* late, more than once, together, or never.                               *)
(*                                                                         *)
(* Stripe is external: it executes a call once per idempotency key, a      *)
(* Checkout session is                                                     *)
(*   open       waiting for the customer                                   *)
(*   submitted  a bank debit is under way (complete, but unpaid)           *)
(*   paid, failed, expired                                                 *)
(* and a refund is pending until it succeeded or failed.  Funds refunded   *)
(* by hand in Stripe's dashboard show as a manual refund.                  *)
(***************************************************************************)
EXTENDS ChainTransfer, Functions

CONSTANT
  Runners   \* the workers that take leases; the others handle webhooks

ASSUME FundingAssumption ==
  /\ Runners \subseteq Workers
  /\ Kind \in [Operations -> FundingKinds]
  /\ Source = [o \in Operations |-> Treasury]
  /\ Destination \in [Operations -> Wallets]
  /\ MaxReturns = 0

VARIABLES
  checkout,       \* the session funding:<id>
  refund,         \* what has been refunded of its payment
  disputed,       \* the customer disputes the charge
  providerRef,    \* whether the row knows the session, and the customer its URL
  paymentIntent,  \* whether the row knows the payment
  refundId,       \* whether the row knows the refund
  stale,          \* the row is older than Stripe's idempotency window
  heard           \* what a worker has read of the session

stripeVars  == <<checkout, refund, disputed>>
columnVars  == <<providerRef, paymentIntent, refundId, stale>>
fundingVars == <<stripeVars, columnVars, heard>>

vars == <<rowVars, leaseVars, balanceVars, ledger, chainVars, workerVars, fundingVars>>

CheckoutStates == {"none", "open", "submitted", "paid", "failed", "expired"}

CollectionSteps == {"create_checkout", "record_checkout", "apply_session",
                    "adopt_session", "patch_intent", "settle"}

RefundSteps == {"check_delivery", "read_charge", "find_refund", "create_refund",
                "note_refund", "note_refunded", "refunded"}

FundingSteps == CoreSteps \cup CollectionSteps \cup RefundSteps \cup {"recorded"}

TypeOK ==
  /\ RowsTypeOK
  /\ ChainTypeOK(FundingSteps)
  /\ checkout \in [Operations -> CheckoutStates]
  /\ refund \in [Operations -> {"none", "pending", "succeeded", "failed", "manual"}]
  /\ disputed \in [Operations -> BOOLEAN]
  /\ providerRef \in [Operations -> BOOLEAN]
  /\ paymentIntent \in [Operations -> BOOLEAN]
  /\ refundId \in [Operations -> BOOLEAN]
  /\ stale \in [Operations -> BOOLEAN]
  /\ heard \in [Workers -> CheckoutStates]

Init ==
  /\ RowsInit
  /\ ChainInit
  /\ checkout = [o \in Operations |-> "none"]
  /\ refund = [o \in Operations |-> "none"]
  /\ disputed = [o \in Operations |-> FALSE]
  /\ providerRef = [o \in Operations |-> FALSE]
  /\ paymentIntent = [o \in Operations |-> FALSE]
  /\ refundId = [o \in Operations |-> FALSE]
  /\ stale = [o \in Operations |-> FALSE]
  /\ heard = [w \in Workers |-> "none"]

-------------------------------------------------------------------------------
(* Opening the Checkout                                                    *)

\* startFunding with a new idempotency key writes the row ...
Begin(o) ==
  /\ InsertRow(o)
  /\ UNCHANGED <<chainSignature, leaseVars, balanceVars, ledger, chainVars,
                 workerVars, fundingVars>>

\* ... and it, or a replay of the request, leases the row, whatever its status,
\* to run ensureCheckout on it.
RequestCheckout(w, o) ==
  /\ pc[w] = "idle"
  /\ status[o] # "absent"
  /\ TakeLease(o, w)
  /\ pc' = [pc EXCEPT ![w] = IF status[o] = "created" THEN "start" ELSE "release"]
  /\ op' = [op EXCEPT ![w] = o]
  /\ UNCHANGED <<round, faults, rowVars, balanceVars, ledger, chainVars, fundingVars>>

\* ensureCheckout: an old row is left to an operator, as Stripe may have
\* forgotten the key by now.
EnsureCheckout(w) ==
  /\ pc[w] = "start"
  /\ Goto(w, IF stale[op[w]] THEN "release" ELSE "create_checkout")
  /\ UNCHANGED <<faults, rowVars, leaseVars, balanceVars, ledger, chainVars, fundingVars>>

CreateCheckout(w) ==
  /\ pc[w] = "create_checkout"
  /\ checkout' = [checkout EXCEPT ![op[w]] = IF @ = "none" THEN "open" ELSE @]
  /\ Goto(w, "record_checkout")
  /\ UNCHANGED <<faults, rowVars, leaseVars, balanceVars, ledger, chainVars,
                 refund, disputed, columnVars, heard>>

\* The session goes into the row as it moves to collection_pending.
MoveToPending(o) ==
  /\ MoveOrThrow(o, "collection_pending")
  /\ providerRef' = [providerRef EXCEPT ![o] = @ \/ CanMove(o, "collection_pending")]

RecordCheckout(w) ==
  /\ pc[w] = "record_checkout"
  /\ MoveToPending(op[w])
  /\ Goto(w, "release")
  /\ UNCHANGED <<faults, chainSignature, leaseVars, balanceVars, ledger, chainVars,
                 stripeVars, paymentIntent, refundId, stale, heard>>

-------------------------------------------------------------------------------
(* What Stripe decided: applyCheckoutEvent                                 *)

\* A poll says "polled", which applyCheckoutEvent takes for neither a failure
\* nor an expiry: it tells no more than that the session is not paid.
Polled(session) ==
  CASE session = "failed"  -> "submitted"
    [] session = "expired" -> "open"
    [] OTHER               -> session

\* pollCollection: the session is read, and then applied.
PollCollection(w) ==
  /\ pc[w] = "poll_collection"
  /\ IF providerRef[op[w]]
       THEN /\ heard' = [heard EXCEPT ![w] = Polled(checkout[op[w]])]
            /\ Goto(w, "apply_session")
       ELSE /\ UNCHANGED heard
            /\ Goto(w, "release")
  /\ UNCHANGED <<faults, rowVars, leaseVars, balanceVars, ledger, chainVars,
                 stripeVars, columnVars>>

\* An event of the session arrives, for the first time or again; its handler
\* reads the session and takes no lease.  An event that is older than what the
\* session says now tells no more than a poll.
CheckoutWebhook(w, o) ==
  /\ pc[w] = "idle"
  /\ status[o] # "absent"
  /\ checkout[o] \notin {"none", "open"}
  /\ heard' = [heard EXCEPT ![w] = checkout[o]]
  /\ pc' = [pc EXCEPT ![w] = "apply_session"]
  /\ op' = [op EXCEPT ![w] = o]
  /\ UNCHANGED <<round, faults, rowVars, leaseVars, balanceVars, ledger, chainVars,
                 stripeVars, columnVars>>

Forget(w) == heard' = [heard EXCEPT ![w] = "none"]

\* The row is read; one that does not know its session yet learns of it now.
ApplySession(w) ==
  /\ pc[w] = "apply_session"
  /\ Goto(w, IF status[op[w]] = "created" THEN "adopt_session" ELSE "patch_intent")
  /\ UNCHANGED <<faults, rowVars, leaseVars, balanceVars, ledger, chainVars, fundingVars>>

\* When another worker has moved the row in between, the call throws.
AdoptSession(w) ==
  /\ pc[w] = "adopt_session"
  /\ MoveToPending(op[w])
  /\ IF CanMove(op[w], "collection_pending")
       THEN Goto(w, "patch_intent") /\ UNCHANGED heard
       ELSE Goto(w, "release") /\ Forget(w)
  /\ UNCHANGED <<faults, chainSignature, leaseVars, balanceVars, ledger, chainVars,
                 stripeVars, paymentIntent, refundId, stale>>

PatchIntent(w) ==
  /\ pc[w] = "patch_intent"
  /\ paymentIntent' =
       [paymentIntent EXCEPT ![op[w]] = @ \/ heard[w] \in {"submitted", "paid", "failed"}]
  /\ Goto(w, "settle")
  /\ UNCHANGED <<faults, rowVars, leaseVars, balanceVars, ledger, chainVars,
                 stripeVars, providerRef, refundId, stale, heard>>

\* Mutant of SettleCollection: a session that is not paid has failed.
SettleUnpaidFails(w) ==
  /\ pc[w] = "settle"
  /\ IF status[op[w]] # "collection_pending" THEN UNCHANGED status
     ELSE MoveOrThrow(op[w], IF heard[w] = "paid" THEN "collection_settled" ELSE "failed")
  /\ Forget(w)
  /\ Goto(w, "release")
  /\ UNCHANGED <<faults, chainSignature, leaseVars, balanceVars, ledger, chainVars,
                 stripeVars, columnVars>>

\* Only a row that waits for its collection takes the outcome; a row that has
\* moved since it was read makes the guarded update throw.
SettleCollection(w) ==
  /\ pc[w] = "settle"
  /\ IF status[op[w]] # "collection_pending" THEN UNCHANGED status
     ELSE CASE heard[w] = "paid"                  -> MoveOrThrow(op[w], "collection_settled")
            [] heard[w] \in {"failed", "expired"} -> MoveOrThrow(op[w], "failed")
            [] OTHER                              -> UNCHANGED status
  /\ Forget(w)
  /\ Goto(w, "release")
  /\ UNCHANGED <<faults, chainSignature, leaseVars, balanceVars, ledger, chainVars,
                 stripeVars, columnVars>>

-------------------------------------------------------------------------------
(* Delivery                                                                *)

DeliverTokens(w) ==
  /\ pc[w] = "submit_chain"
  /\ Goto(w, IF status[op[w]] = "collection_settled" THEN "look_up" ELSE "release")
  /\ UNCHANGED <<faults, rowVars, leaseVars, balanceVars, ledger, chainVars, fundingVars>>

\* The delivery will not land: a submitted one is given up and refunded.
DeliveryFailed(w) ==
  /\ pc[w] = "failed"
  /\ IF status[op[w]] = "chain_submitted"
       THEN MoveOrThrow(op[w], "compensating")
       ELSE UNCHANGED status
  /\ Goto(w, "release")
  /\ UNCHANGED <<faults, chainSignature, leaseVars, balanceVars, ledger, chainVars,
                 fundingVars>>

Finalize(w) ==
  /\ pc[w] = "finalize"
  /\ IF status[op[w]] = "chain_confirmed"
       THEN RecordOnce(op[w]) /\ Goto(w, "recorded")
       ELSE UNCHANGED <<ledger, balanceVars>> /\ Goto(w, "release")
  /\ UNCHANGED <<faults, rowVars, leaseVars, chainVars, fundingVars>>

MarkFinalized(w) ==
  /\ pc[w] = "recorded"
  /\ MoveOrThrow(op[w], "finalized")
  /\ Goto(w, "release")
  /\ UNCHANGED <<faults, chainSignature, leaseVars, balanceVars, ledger, chainVars,
                 fundingVars>>

-------------------------------------------------------------------------------
(* refundFunding                                                           *)

RefundFunding(w) ==
  /\ pc[w] = "complete_compensation"
  /\ Goto(w, IF status[op[w]] # "compensating" THEN "release"
             ELSE IF ~paymentIntent[op[w]] THEN "poll_collection"
             ELSE IF chainSignature[op[w]] THEN "check_delivery" ELSE "read_charge")
  /\ UNCHANGED <<faults, rowVars, leaseVars, balanceVars, ledger, chainVars, fundingVars>>

\* Mutant of DeliveryIsDead: what the node does not know has failed.
DeliveryNotSeen(w) ==
  /\ pc[w] = "check_delivery"
  /\ attempt[op[w]][0] # "landed"
  /\ Goto(w, "read_charge")
  /\ UNCHANGED <<faults, rowVars, leaseVars, balanceVars, ledger, chainVars, fundingVars>>

\* statusOf: a refund needs the answer that the delivery never will land ...
DeliveryIsDead(w) ==
  /\ pc[w] = "check_delivery"
  /\ attempt[op[w]][0] = "dead"
  /\ Goto(w, "read_charge")
  /\ UNCHANGED <<faults, rowVars, leaseVars, balanceVars, ledger, chainVars, fundingVars>>

\* ... with any other one it waits; the saved bytes may be sent again.
DeliveryMayLand(w) ==
  /\ pc[w] = "check_delivery"
  /\ \/ UNCHANGED attempt
     \/ attempt[op[w]][0] = "prepared" /\ SetMine(w, "broadcast")
  /\ Goto(w, "release")
  /\ UNCHANGED <<faults, tokens, rowVars, leaseVars, balanceVars, ledger, fundingVars>>

ReadCharge(w) ==
  /\ pc[w] = "read_charge"
  /\ Goto(w, IF disputed[op[w]] THEN "release" ELSE "find_refund")
  /\ UNCHANGED <<faults, rowVars, leaseVars, balanceVars, ledger, chainVars, fundingVars>>

\* Mutant of AfterRefund: a refund that was ordered counts as paid back.
OrderedIsEnough(state) == IF state # "failed" THEN "note_refunded" ELSE "note_refund"

\* What becomes of a refund Stripe shows: one made by hand is left to an operator.
AfterRefund(state) ==
  CASE state = "manual"    -> "release"
    [] state = "succeeded" -> "note_refunded"
    [] OTHER               -> "note_refund"

\* Mutant of FindRefund: a refund the row knows of is left to a webhook.
FindNewRefund(w) ==
  /\ pc[w] = "find_refund"
  /\ Goto(w, IF refund[op[w]] = "none" THEN "create_refund"
             ELSE IF refundId[op[w]] THEN "release" ELSE AfterRefund(refund[op[w]]))
  /\ UNCHANGED <<faults, rowVars, leaseVars, balanceVars, ledger, chainVars, fundingVars>>

\* The refund the row, or Stripe's list for the payment, knows of.
FindRefund(w) ==
  /\ pc[w] = "find_refund"
  /\ Goto(w, IF refund[op[w]] = "none" THEN "create_refund"
                                       ELSE AfterRefund(refund[op[w]]))
  /\ UNCHANGED <<faults, rowVars, leaseVars, balanceVars, ledger, chainVars, fundingVars>>

\* Nothing was listed: the refund is created, once under its key; Stripe refuses
\* it for money that was refunded by hand meanwhile.
CreateRefund(w) ==
  /\ pc[w] = "create_refund"
  /\ \E state \in IF refund[op[w]] = "none" THEN {"pending", "succeeded"}
                                            ELSE {refund[op[w]]} :
       /\ refund' = [refund EXCEPT ![op[w]] = state]
       /\ Goto(w, AfterRefund(state))
  /\ UNCHANGED <<faults, rowVars, leaseVars, balanceVars, ledger, chainVars,
                 checkout, disputed, columnVars, heard>>

NoteRefund(w) ==
  /\ pc[w] \in {"note_refund", "note_refunded"}
  /\ refundId' = [refundId EXCEPT ![op[w]] = TRUE]
  /\ Goto(w, IF pc[w] = "note_refunded" THEN "refunded" ELSE "release")
  /\ UNCHANGED <<faults, rowVars, leaseVars, balanceVars, ledger, chainVars,
                 stripeVars, providerRef, paymentIntent, stale, heard>>

Refunded(w) ==
  /\ pc[w] = "refunded"
  /\ MoveOrThrow(op[w], "reversed")
  /\ Goto(w, "release")
  /\ UNCHANGED <<faults, chainSignature, leaseVars, balanceVars, ledger, chainVars,
                 fundingVars>>

-------------------------------------------------------------------------------
(* Stripe, the customer and time                                           *)

SetCheckout(o, state) ==
  /\ checkout' = [checkout EXCEPT ![o] = state]
  /\ UNCHANGED <<rowVars, leaseVars, balanceVars, ledger, chainVars, workerVars,
                 refund, disputed, columnVars, heard>>

\* The customer completes the form, whose URL only the row has: a card is
\* charged, a bank debit is submitted.
CustomerPays(o) ==
  /\ checkout[o] = "open" /\ providerRef[o]
  /\ SetCheckout(o, IF Kind[o] = "funding_card" THEN "paid" ELSE "submitted")

SessionExpires(o) == checkout[o] = "open" /\ SetCheckout(o, "expired")

DebitEnds(o) ==
  /\ checkout[o] = "submitted"
  /\ \E outcome \in {"paid", "failed"} : SetCheckout(o, outcome)

SetRefund(o, state) ==
  /\ refund' = [refund EXCEPT ![o] = state]
  /\ UNCHANGED <<rowVars, leaseVars, balanceVars, ledger, chainVars, workerVars,
                 checkout, disputed, columnVars, heard>>

RefundEnds(o) ==
  /\ refund[o] = "pending"
  /\ \E outcome \in {"succeeded", "failed"} : SetRefund(o, outcome)

ManualRefund(o) ==
  /\ checkout[o] = "paid" /\ refund[o] = "none"
  /\ SetRefund(o, "manual")

Dispute(o) ==
  /\ checkout[o] = "paid" /\ ~disputed[o]
  /\ disputed' = [disputed EXCEPT ![o] = TRUE]
  /\ UNCHANGED <<rowVars, leaseVars, balanceVars, ledger, chainVars, workerVars,
                 checkout, refund, columnVars, heard>>

Ages(o) ==
  /\ status[o] = "created" /\ ~stale[o]
  /\ stale' = [stale EXCEPT ![o] = TRUE]
  /\ UNCHANGED <<rowVars, leaseVars, balanceVars, ledger, chainVars, workerVars,
                 stripeVars, providerRef, paymentIntent, refundId, heard>>

-------------------------------------------------------------------------------

ChainStep(w) ==
  /\ \/ LookUp(w) \/ Sign(w) \/ CheckSaved(w) \/ RecordSignature(w)
     \/ Broadcast(w) \/ Confirm(w) \/ ConfirmTimesOut(w)
     \/ CheckChain(w) \/ RecoverSettled(w) \/ RecoverPending(w)
     \/ TransferCompleted(w) \/ Release(w)
  /\ UNCHANGED fundingVars

HandlerStep(w) ==
  \/ ChainStep(w)
  \/ EnsureCheckout(w) \/ CreateCheckout(w) \/ RecordCheckout(w)
  \/ PollCollection(w) \/ ApplySession(w) \/ AdoptSession(w)
  \/ PatchIntent(w) \/ SettleCollection(w)
  \/ DeliverTokens(w) \/ DeliveryFailed(w) \/ Finalize(w) \/ MarkFinalized(w)
  \/ RefundFunding(w) \/ DeliveryIsDead(w) \/ DeliveryMayLand(w) \/ ReadCharge(w)
  \/ FindRefund(w) \/ CreateRefund(w) \/ NoteRefund(w) \/ Refunded(w)

WorkerFault(w) ==
  /\ SignFails(w) \/ Abort(w) \/ Crash(w)
  /\ Forget(w)
  /\ UNCHANGED <<stripeVars, columnVars>>

Resolve(o) == (Land(o, 0) \/ Die(o, 0)) /\ UNCHANGED fundingVars

ClaimRow(w, o) == Claim(w, o) /\ UNCHANGED fundingVars

LeaseEnds(o) == Lapse(o) /\ UNCHANGED fundingVars

RenewsLease(w) == Heartbeat(w) /\ UNCHANGED fundingVars

StripeDecides(o) == DebitEnds(o) \/ RefundEnds(o)

Customer(o) == CustomerPays(o) \/ SessionExpires(o) \/ Dispute(o) \/ ManualRefund(o)

Next ==
  \/ \E o \in Operations :
       Begin(o) \/ Ages(o) \/ LeaseEnds(o) \/ StripeDecides(o) \/ Customer(o) \/ Resolve(o)
  \/ \E w \in Runners, o \in Operations : ClaimRow(w, o) \/ RequestCheckout(w, o)
  \/ \E w \in Workers \ Runners, o \in Operations : CheckoutWebhook(w, o)
  \/ \E w \in Workers : HandlerStep(w) \/ WorkerFault(w) \/ RenewsLease(w)

Spec == Init /\ [][Next]_vars

\* As for AccountTransfer; in addition Stripe decides debits and refunds.  The
\* customer need not do anything, and no webhook need arrive.
Fairness ==
  /\ \A w \in Workers : WF_vars(HandlerStep(w))
  /\ \A o \in Operations :
       /\ SF_vars(\E w \in Runners : ClaimRow(w, o))
       /\ WF_vars(LeaseEnds(o))
       /\ WF_vars(StripeDecides(o))
       /\ WF_vars(Resolve(o))
       /\ SF_vars(\E w \in Workers : op[w] = o /\ RecoverSettled(w) /\ UNCHANGED fundingVars)
       /\ SF_vars(\E w \in Workers : op[w] = o /\ DeliveryIsDead(w))

FairSpec == Spec /\ Fairness

-------------------------------------------------------------------------------
(* Safety                                                                  *)

\* A funding that is reported as failed has taken nothing from the customer
\* and never will, and nothing was delivered for it, whatever the order in
\* which polls and webhooks spoke.
FailureCollectedNothing ==
  \A o \in Operations :
    status[o] = "failed" => /\ checkout[o] \in {"failed", "expired"}
                            /\ attempt[o][0] = "none"

\* Chain and books agree on every wallet, up to the deliveries that have
\* landed and are not recorded yet.
BooksMatchChain ==
  \A x \in Wallets :
    LET landed == {o \in Operations \ ledger :
                     Destination[o] = x /\ attempt[o][0] = "landed"}
    IN  tokens[x] = available[x] + pending[x] + SumFunctionOnSet(Amount, landed)

\* Money that was collected is delivered or refunded, never both, and closed
\* only after that, even when workers overlap: the promise of CollectedMoney.
Debt == INSTANCE CollectedMoney
  WITH Collections <- Operations,
       collected   <- {o \in Operations : checkout[o] = "paid"},
       delivered   <- {o \in Operations : attempt[o][0] = "landed"},
       refunded    <- {o \in Operations : refund[o] \in {"pending", "succeeded", "failed"}},
       closed      <- {o \in Operations : status[o] \in {"finalized", "reversed"}}

FulfilsPromise == Debt!Spec

\* The row is reversed only once its refund has succeeded, and only if the
\* delivery is dead.
ReversedOnlyWhenRefunded ==
  \A o \in Operations :
    status[o] = "reversed" => refund[o] = "succeeded" /\ attempt[o][0] = "dead"

-------------------------------------------------------------------------------
(* Liveness                                                                *)

\* Money that was collected is delivered or paid back in the end, with no help
\* from a webhook, unless an operator has to decide: the charge is disputed,
\* or its refund was made by hand or failed.
EveryCollectionIsHonoured ==
  \A o \in Operations :
    checkout[o] = "paid" ~>
      \/ status[o] \in {"finalized", "reversed"}
      \/ disputed[o]
      \/ refund[o] \in {"manual", "failed"}

\* accounts-webhook.service.ts: "without the operation ever depending on a
\* webhook arriving".  A bank debit that failed is noticed in the end.
FailedDebitIsNoticed ==
  \A o \in Operations : checkout[o] = "failed" ~> status[o] = "failed"

===============================================================================
