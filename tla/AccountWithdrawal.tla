--------------------------- MODULE AccountWithdrawal ---------------------------
(***************************************************************************)
(* Withdrawals of a wallet to a bank account or a card:                    *)
(* AccountWithdrawalService (account-withdrawal.service.ts).  The tokens   *)
(* go back to the Treasury first; then Stripe moves money to the           *)
(* customer's connected account and pays it out; when the payout fails the *)
(* Treasury sends the tokens back.  Stripe is external: it executes a call *)
(* once per idempotency key, and a payout ends paid or failed.             *)
(***************************************************************************)
EXTENDS ChainTransfer, Functions

CONSTANT
  UnclearErrors   \* whether submitPayout may see an error for a call that took effect

ASSUME WithdrawalAssumption ==
  /\ Kind \in [Operations -> WithdrawalKinds]
  /\ Source \in [Operations -> Wallets]
  /\ Destination = [o \in Operations |-> Treasury]
  /\ MaxReturns > 0
  /\ UnclearErrors \in BOOLEAN

VARIABLES
  transferred,            \* the Stripe transfer withdrawal-transfer:<id> exists
  payout,                 \* the Stripe payout withdrawal-payout:<id>
  providerRef,            \* whether the row knows the payout
  compensationSignature   \* the return the row knows of, 0 for none

stripeVars == <<transferred, payout>>
payoutVars == <<stripeVars, providerRef, compensationSignature>>

vars == <<rowVars, leaseVars, balanceVars, ledger, chainVars, workerVars, payoutVars>>

PayoutSteps ==
  {"transfer_funds", "create_payout", "record_payout", "payout_error", "check_return"}

\* Steps inside the try block of submitPayout: see PayoutFails.
InTry == {"transfer_funds", "create_payout", "record_payout"}

WithdrawalSteps == CoreSteps \cup PayoutSteps \cup {"recorded"}

Returns == 1 .. MaxReturns

TypeOK ==
  /\ RowsTypeOK
  /\ ChainTypeOK(WithdrawalSteps)
  /\ transferred \in [Operations -> BOOLEAN]
  /\ payout \in [Operations -> {"none", "pending", "paid", "failed"}]
  /\ providerRef \in [Operations -> BOOLEAN]
  /\ compensationSignature \in [Operations -> Rounds]

Init ==
  /\ RowsInit
  /\ ChainInit
  /\ transferred = [o \in Operations |-> FALSE]
  /\ payout = [o \in Operations |-> "none"]
  /\ providerRef = [o \in Operations |-> FALSE]
  /\ compensationSignature = [o \in Operations |-> 0]

-------------------------------------------------------------------------------
(* Requests, and the steps that do not involve Stripe                      *)

Begin(o) ==
  /\ InsertRow(o)
  /\ UNCHANGED <<chainSignature, leaseVars, balanceVars, ledger, chainVars,
                 workerVars, payoutVars>>

RequestReserve(o) ==
  /\ status[o] = "created"
  /\ ReserveBalance(o)
  /\ UNCHANGED <<chainSignature, leaseVars, ledger, chainVars, workerVars, payoutVars>>

Reserve(w) ==
  /\ pc[w] = "start"
  /\ ReserveBalance(op[w])
  /\ Goto(w, "release")
  /\ UNCHANGED <<faults, chainSignature, leaseVars, ledger, chainVars, payoutVars>>

ReturnTokensToTreasury(w) ==
  /\ pc[w] = "submit_chain"
  /\ Goto(w, IF status[op[w]] = "reserved" THEN "look_up" ELSE "release")
  /\ UNCHANGED <<faults, rowVars, leaseVars, balanceVars, ledger, chainVars, payoutVars>>

-------------------------------------------------------------------------------
(* submitPayout                                                            *)

SubmitPayout(w) ==
  /\ pc[w] = "submit_payout"
  /\ Goto(w, IF status[op[w]] = "chain_confirmed" THEN "transfer_funds" ELSE "release")
  /\ UNCHANGED <<faults, rowVars, leaseVars, balanceVars, ledger, chainVars, payoutVars>>

TransferFunds(w) ==
  /\ pc[w] = "transfer_funds"
  /\ transferred' = [transferred EXCEPT ![op[w]] = TRUE]
  /\ Goto(w, "create_payout")
  /\ UNCHANGED <<faults, rowVars, leaseVars, balanceVars, ledger, chainVars,
                 payout, providerRef, compensationSignature>>

StartPayout(o) ==
  payout' = IF payout[o] = "none" THEN [payout EXCEPT ![o] = "pending"] ELSE payout

CreatePayout(w) ==
  /\ pc[w] = "create_payout"
  /\ StartPayout(op[w])
  /\ Goto(w, "record_payout")
  /\ UNCHANGED <<faults, rowVars, leaseVars, balanceVars, ledger, chainVars,
                 transferred, providerRef, compensationSignature>>

RecordPayout(w) ==
  /\ pc[w] = "record_payout"
  /\ MoveOrThrow(op[w], "payout_submitted")
  /\ IF CanMove(op[w], "payout_submitted")
       THEN /\ providerRef' = [providerRef EXCEPT ![op[w]] = TRUE]
            /\ Goto(w, "release")
       ELSE /\ UNCHANGED providerRef
            /\ Goto(w, "payout_error")
  /\ UNCHANGED <<faults, chainSignature, leaseVars, balanceVars, ledger, chainVars,
                 stripeVars, compensationSignature>>

\* Whether Stripe has not executed the call the worker makes next.
NotExecuted(w) ==
  \/ pc[w] = "transfer_funds" /\ ~transferred[op[w]]
  \/ pc[w] = "create_payout" /\ payout[op[w]] = "none"

\* A call of the try block raises.  The clear case is a call Stripe refuses.
\* In the unclear ones the answer to a call that was carried out is lost, the
\* repetition of an earlier call fails, or the row cannot be written.
PayoutFails(w) ==
  /\ pc[w] \in InTry
  /\ Fault
  /\ \/ (NotExecuted(w) \/ UnclearErrors) /\ UNCHANGED stripeVars
     \/ /\ UnclearErrors
        /\ \/ /\ pc[w] = "transfer_funds"
              /\ transferred' = [transferred EXCEPT ![op[w]] = TRUE]
              /\ UNCHANGED payout
           \/ pc[w] = "create_payout" /\ StartPayout(op[w]) /\ UNCHANGED transferred
  /\ Goto(w, "payout_error")
  /\ UNCHANGED <<rowVars, leaseVars, balanceVars, ledger, chainVars,
                 providerRef, compensationSignature>>

\* The catch block.
BeginCompensation(w) ==
  /\ pc[w] = "payout_error"
  /\ MoveOrThrow(op[w], "compensating")
  /\ Goto(w, "release")
  /\ UNCHANGED <<faults, chainSignature, leaseVars, balanceVars, ledger, chainVars,
                 payoutVars>>

-------------------------------------------------------------------------------
(* The payout's outcome                                                    *)

\* Mutant of ApplyPayoutEvent: whatever is not paid has failed.
UnpaidFails(o) ==
  status' =
    IF ~providerRef[o] \/ status[o] # "payout_submitted" THEN status
    ELSE IF payout[o] = "paid" THEN [status EXCEPT ![o] = "payout_settled"]
                               ELSE [status EXCEPT ![o] = "compensating"]

\* applyPayoutEvent: only a payout_submitted row takes the news.
ApplyPayoutEvent(o) ==
  status' =
    IF ~providerRef[o] \/ status[o] # "payout_submitted" THEN status
    ELSE CASE payout[o] = "paid"   -> [status EXCEPT ![o] = "payout_settled"]
           [] payout[o] = "failed" -> [status EXCEPT ![o] = "compensating"]
           [] OTHER -> status

\* Stripe's webhook, which may also be late, repeated or never come.
PayoutWebhook(o) ==
  /\ payout[o] \in {"paid", "failed"}
  /\ ApplyPayoutEvent(o)
  /\ UNCHANGED <<chainSignature, leaseVars, balanceVars, ledger, chainVars,
                 workerVars, payoutVars>>

\* Mutant of PollPayout: failures are left to the webhook.
PollPaidOnly(w) ==
  /\ pc[w] = "poll_payout"
  /\ IF payout[op[w]] = "paid" THEN ApplyPayoutEvent(op[w]) ELSE UNCHANGED status
  /\ Goto(w, "release")
  /\ UNCHANGED <<faults, chainSignature, leaseVars, balanceVars, ledger, chainVars,
                 payoutVars>>

PollPayout(w) ==
  /\ pc[w] = "poll_payout"
  /\ ApplyPayoutEvent(op[w])
  /\ Goto(w, "release")
  /\ UNCHANGED <<faults, chainSignature, leaseVars, balanceVars, ledger, chainVars,
                 payoutVars>>

Finalize(w) ==
  /\ pc[w] = "finalize"
  /\ IF status[op[w]] = "payout_settled"
       THEN /\ RecordOnce(op[w])
            /\ Goto(w, IF CanRecord(op[w]) THEN "recorded" ELSE "release")
       ELSE /\ UNCHANGED <<ledger, balanceVars>>
            /\ Goto(w, "release")
  /\ UNCHANGED <<faults, rowVars, leaseVars, chainVars, payoutVars>>

MarkFinalized(w) ==
  /\ pc[w] = "recorded"
  /\ MoveOrThrow(op[w], "finalized")
  /\ Goto(w, "release")
  /\ UNCHANGED <<faults, chainSignature, leaseVars, balanceVars, ledger, chainVars,
                 payoutVars>>

-------------------------------------------------------------------------------
(* completeCompensation                                                    *)

ResumeReturn(w, step, r) ==
  /\ pc' = [pc EXCEPT ![w] = step]
  /\ round' = [round EXCEPT ![w] = r]
  /\ UNCHANGED op

\* Reads the row again and looks at the return it knows of, if any.
CompleteCompensation(w) ==
  /\ pc[w] = "complete_compensation"
  /\ LET previous == compensationSignature[op[w]]
     IN  IF status[op[w]] # "compensating" THEN Goto(w, "release")
         ELSE IF previous = 0 THEN ResumeReturn(w, "look_up", 1)
         ELSE ResumeReturn(w, "check_return", previous)
  /\ UNCHANGED <<faults, rowVars, leaseVars, balanceVars, ledger, chainVars, payoutVars>>

\* Mutant of CheckReturn: a return that has not landed is followed by another.
CheckReturnOnce(w) ==
  /\ pc[w] = "check_return"
  /\ \/ Mine(w) = "landed" /\ Goto(w, "completed")
     \/ /\ Mine(w) # "landed" /\ round[w] < MaxReturns
        /\ ResumeReturn(w, "look_up", round[w] + 1)
  /\ UNCHANGED <<faults, rowVars, leaseVars, balanceVars, ledger, chainVars, payoutVars>>

\* A return that landed is complete; one that never will is followed by another.
CheckReturn(w) ==
  /\ pc[w] = "check_return"
  /\ \/ Mine(w) = "landed" /\ Goto(w, "completed")
     \/ Mine(w) = "dead" /\ ResumeReturn(w, "look_up", round[w] + 1)
  /\ UNCHANGED <<faults, rowVars, leaseVars, balanceVars, ledger, chainVars, payoutVars>>

\* recoverTransfer does not know, and sends the saved bytes again.
CheckReturnPending(w) ==
  /\ pc[w] = "check_return"
  /\ \/ UNCHANGED attempt
     \/ Mine(w) = "prepared" /\ SetMine(w, "broadcast")
  /\ Goto(w, "release")
  /\ UNCHANGED <<faults, tokens, rowVars, leaseVars, balanceVars, ledger, payoutVars>>

\* onSignaturePrepared of a return: patchMetadata writes whatever the status.
RecordReturnSignature(w) ==
  /\ pc[w] \in {"prepared", "resume"}
  /\ round[w] > 0
  /\ compensationSignature' = [compensationSignature EXCEPT ![op[w]] = round[w]]
  /\ Goto(w, IF pc[w] = "prepared" THEN "broadcast" ELSE "recover")
  /\ UNCHANGED <<faults, rowVars, leaseVars, balanceVars, ledger, chainVars,
                 stripeVars, providerRef>>

ReturnCompleted(w) ==
  /\ pc[w] = "completed"
  /\ round[w] > 0
  /\ ReleaseBalanceAndEnd(op[w], "reversed")
  /\ Goto(w, "release")
  /\ UNCHANGED <<faults, chainSignature, leaseVars, ledger, chainVars, payoutVars>>

ReturnFailed(w) ==
  /\ pc[w] = "failed"
  /\ round[w] > 0
  /\ Goto(w, "release")
  /\ UNCHANGED <<faults, rowVars, leaseVars, balanceVars, ledger, chainVars, payoutVars>>

-------------------------------------------------------------------------------

ChainStep(w) ==
  /\ \/ LookUp(w) \/ Sign(w) \/ CheckSaved(w) \/ RecordSignature(w)
     \/ Broadcast(w) \/ Confirm(w) \/ ConfirmTimesOut(w)
     \/ CheckChain(w) \/ RecoverSettled(w) \/ RecoverPending(w)
     \/ TransferCompleted(w) \/ TransferFailed(w) \/ Release(w)
  /\ UNCHANGED payoutVars

HandlerStep(w) ==
  \/ ChainStep(w)
  \/ Reserve(w) \/ ReturnTokensToTreasury(w)
  \/ SubmitPayout(w) \/ TransferFunds(w) \/ CreatePayout(w)
  \/ RecordPayout(w) \/ BeginCompensation(w)
  \/ PollPayout(w) \/ Finalize(w) \/ MarkFinalized(w)
  \/ CompleteCompensation(w) \/ CheckReturn(w) \/ CheckReturnPending(w)
  \/ RecordReturnSignature(w) \/ ReturnCompleted(w) \/ ReturnFailed(w)

WorkerFault(w) ==
  \/ PayoutFails(w)
  \/ /\ \/ SignFails(w)
        \/ pc[w] \notin InTry /\ Abort(w)
        \/ Crash(w)
     /\ UNCHANGED payoutVars

Resolve(o, r) == (Land(o, r) \/ Die(o, r)) /\ UNCHANGED payoutVars

\* Stripe decides a payout.
PayoutEnds(o) ==
  /\ payout[o] = "pending"
  /\ \E outcome \in {"paid", "failed"} : payout' = [payout EXCEPT ![o] = outcome]
  /\ UNCHANGED <<rowVars, leaseVars, balanceVars, ledger, chainVars, workerVars,
                 transferred, providerRef, compensationSignature>>

ClaimRow(w, o) == Claim(w, o) /\ UNCHANGED payoutVars

LeaseEnds(o) == Lapse(o) /\ UNCHANGED payoutVars

RenewsLease(w) == Heartbeat(w) /\ UNCHANGED payoutVars

Next ==
  \/ \E o \in Operations :
       Begin(o) \/ RequestReserve(o) \/ LeaseEnds(o) \/ PayoutEnds(o) \/ PayoutWebhook(o)
  \/ \E w \in Workers, o \in Operations : ClaimRow(w, o)
  \/ \E w \in Workers : HandlerStep(w) \/ WorkerFault(w) \/ RenewsLease(w)
  \/ \E o \in Operations, r \in Rounds : Resolve(o, r)

Spec == Init /\ [][Next]_vars

\* As for AccountTransfer; in addition Stripe decides every payout, and a return
\* that is sent again and again gets through.  Webhooks get no fairness:
\* nothing may depend on one arriving.
Fairness ==
  /\ \A w \in Workers : WF_vars(HandlerStep(w))
  /\ \A o \in Operations :
       /\ SF_vars(\E w \in Workers : ClaimRow(w, o))
       /\ WF_vars(LeaseEnds(o))
       /\ WF_vars(PayoutEnds(o))
       /\ \A r \in Rounds : WF_vars(Resolve(o, r))
       /\ SF_vars(\E w \in Workers : op[w] = o /\ RecoverSettled(w) /\ UNCHANGED payoutVars)
       /\ SF_vars(\E w \in Workers : op[w] = o /\ CheckReturn(w))
       /\ SF_vars(\E w \in Workers :
                    op[w] = o /\ CheckReturnPending(w) /\ attempt' # attempt)

FairSpec == Spec /\ Fairness

-------------------------------------------------------------------------------
(* Safety                                                                  *)

Returned(o) == \E r \in Returns : attempt[o][r] = "landed"

\* A withdrawal reported as failed has moved nothing: its tokens are with the
\* customer, no payout exists and none will (fail is refused once value moved).
FailureMovedNothing ==
  \A o \in Operations :
    status[o] = "failed" => /\ attempt[o][0] \in {"none", "dead"}
                            /\ ~transferred[o] /\ payout[o] = "none"

\* However often completeCompensation is retried, crashes or overlaps, the
\* Treasury returns the tokens at most once: a further return is only sent
\* after the one before is known never to land.
ReturnedAtMostOnce ==
  \A o \in Operations :
    Cardinality({r \in Returns : attempt[o][r] \in {"prepared", "broadcast", "landed"}}) <= 1

\* A return is begun: signed, noted in the row, or in the hands of a worker.
Begun(o, r) ==
  \/ attempt[o][r] # "none"
  \/ compensationSignature[o] = r
  \/ \E w \in Workers : op[w] = o /\ round[w] = r

\* Why, and it needs no lease: every return before one that is begun is dead,
\* and dead is for ever.
ReturnInv ==
  /\ \A o \in Operations, r \in Returns :
       /\ Begun(o, r) => \A q \in 1 .. r - 1 : attempt[o][q] = "dead"
       /\ attempt[o][r] = "dead" => r < MaxReturns
  /\ \A w \in Workers :
       /\ pc[w] = "idle" => round[w] = 0
       /\ pc[w] = "check_return" => round[w] > 0

\* Once the payout is on record only Stripe's word undoes it: the tokens of a
\* withdrawal whose payout was recorded come back when that payout has failed,
\* never while it is pending or after it was paid, whatever errors preceded.
ReturnedOnlyIfPayoutFailed ==
  \A o \in Operations : providerRef[o] /\ Returned(o) => payout[o] = "failed"

\* A withdrawal is paid out or given back, never both.
NeverPaidAndReturned ==
  \A o \in Operations : ~(payout[o] = "paid" /\ Returned(o))

\* A wallet's pending balance is what its unfinished withdrawals have set aside.
ReservationsAreBacked ==
  \A x \in Wallets :
    pending[x] = SumFunctionOnSet(Amount,
                   {o \in Operations : Source[o] = x /\ HoldsReservation(o)})

\* Chain and books agree on every wallet up to the tokens that have left and
\* are neither recorded as gone nor returned, or are returned but still held.
BooksMatchChain ==
  \A x \in Wallets :
    LET away == {o \in Operations \ ledger :
                   Source[o] = x /\ attempt[o][0] = "landed" /\ ~Returned(o)}
    IN  tokens[x] + SumFunctionOnSet(Amount, away)
          = available[x] + pending[x]

\* "The balance is only restored after the treasury's compensating transfer is
\* confirmed on chain": spendable balance rises for a reversal whose return
\* landed, or for a failure whose own transfer is dead.
RestoredOnlyAfterReturn ==
  [][\A x \in Wallets :
       available'[x] > available[x] =>
         \E o \in Operations :
           /\ Source[o] = x /\ status'[o] # status[o]
           /\ \/ status'[o] = "reversed" /\ Returned(o)
              \/ status'[o] = "failed" /\ attempt[o][0] = "dead"]_vars

-------------------------------------------------------------------------------
(* Why it is safe                                                          *)

Compensated == {"compensating", "reversed"}

\* What the status of a row says about the chain, Stripe and the ledger.
RowInv(o) ==
  /\ status[o] \in {"absent", "created"} => attempt[o][0] = "none"
  /\ status[o] = "failed" => attempt[o][0] \in {"none", "dead"}
  /\ transferred[o] \/ payout[o] # "none" \/ providerRef[o] =>
       status[o] \in Irreversible \cup Compensated \cup {"finalized"}
  /\ status[o] \in Irreversible \cup Compensated \cup {"finalized"} =>
       attempt[o][0] = "landed"
  /\ providerRef[o] => status[o] # "chain_confirmed"
  /\ providerRef[o] /\ status[o] \in Compensated => payout[o] = "failed"
  /\ (\E r \in Returns : attempt[o][r] # "none") => status[o] \in Compensated
  /\ o \in ledger => status[o] \in {"payout_settled", "finalized"}

\* What a worker has read of its row still holds, or has become final.
WorkerInv(w) ==
  /\ pc[w] \in {"look_up", "sign", "unsaved"} /\ round[w] = 0 =>
       status[op[w]] = "reserved"
  /\ pc[w] = "failed" /\ round[w] = 0 =>
       status[op[w]] = "reserved" \/ attempt[op[w]][0] = "dead"
  /\ pc[w] = "completed" => Mine(w) = "landed"
  /\ pc[w] \in InTry \cup {"payout_error"} => status[op[w]] = "chain_confirmed"
  /\ pc[w] = "recorded" => op[w] \in ledger
  /\ round[w] > 0 => status[op[w]] \in Compensated

\* Needs the leases, as for AccountTransfer.
LeaseInv ==
  \A w \in Workers :
    pc[w] # "idle" => claimedBy[op[w]] = w /\ claimLive[op[w]]

\* The strengthening of the safety properties that every step preserves.
WithdrawalInv ==
  /\ ReturnInv
  /\ LeaseInv
  /\ \A o \in Operations : RowInv(o)
  /\ \A w \in Workers : WorkerInv(w)

-------------------------------------------------------------------------------
(* Liveness                                                                *)

\* Every withdrawal that was accepted ends, whatever crashed on the way and
\* without any webhook: paid, refused, or given back.
EveryWithdrawalEnds ==
  \A o \in Operations : status[o] = "created" ~> status[o] \in Terminal

===============================================================================
