---------------------------- MODULE MerchantPayment ----------------------------
(***************************************************************************)
(* Payments between customers and to merchants: PaymentsService            *)
(* (payments.service.ts), called by a request of the payer and, for what   *)
(* such a call leaves behind, by a recovery pass every thirty seconds.     *)
(* A payment is named by the payer's idempotency key.                      *)
(***************************************************************************)
EXTENDS PaymentRequests

CONSTANTS
  Keys,            \* idempotency keys of the payers
  RequestOf,       \* [Keys -> Requests], the request the key pays
  Payer,           \* [Keys -> Wallets]
  Payee,           \* [Requests -> Wallets]
  Amount,          \* [Requests -> Nat]
  Wallets,
  OpeningBalance,  \* [Wallets -> Nat]
  Callers,         \* calls that may be under way together
  Recoverers,      \* processes that run the recovery pass
  MayStall,        \* a process may sleep for minutes between two of its steps
  MaxFaults,       \* crashes, and calls that throw, in a behaviour
  NoKey, NoRequest

ASSUME PaymentAssumption ==
  /\ IsFiniteSet(Keys) /\ IsFiniteSet(Wallets)
  /\ RequestOf \in [Keys -> Requests]
  /\ Payer \in [Keys -> Wallets]
  /\ Payee \in [Requests -> Wallets]
  /\ \A k \in Keys : Payer[k] # Payee[RequestOf[k]]
  /\ Amount \in [Requests -> Nat \ {0}]
  /\ OpeningBalance \in [Wallets -> Nat]
  /\ MayStall \in BOOLEAN /\ MaxFaults \in Nat
  /\ NoKey \notin Keys /\ NoRequest \notin Requests

VARIABLES
  attempt,     \* status of the payment attempt of each merchant request
  attemptKey,  \* the key that claimed the request
  signed,      \* requests whose attempt has its signature
  late,        \* requests claimed more than RECOVERY_TIMEOUT_MS ago
  chain,       \* the transaction saved for each key, as the chain sees it
  ledger,      \* keys with an entry in the ledger
  available,   \* spendable balance of each wallet
  pending,     \* balance of each wallet that claimed payments set aside
  pc,          \* what each call does next
  call,        \* the key it is for
  rpc,         \* what each recoverer does next
  row,         \* the request whose row it is at
  todo,        \* rows of its pass that are left
  snapshot,    \* those of them that had a signature when the pass read them
  faults       \* crashes and throwing calls so far

attemptVars   == <<attempt, attemptKey, signed>>
balanceVars   == <<available, pending>>
callerVars    == <<pc, call>>
recovererVars == <<rpc, row, todo, snapshot>>
vars == <<requestVars, stockVars, shopVars, attemptVars, late, chain, ledger,
          balanceVars, callerVars, recovererVars, faults>>

Unfinished == {"processing", "submitted"}

CallerSteps ==
  {"idle", "expire", "claim", "check_balance", "look_up", "attach", "recover",
   "sign", "unsaved", "prepared", "broadcast", "submitted", "confirm",
   "completed", "failed", "unsubmitted", "check_row", "mark_failed"}
RecovererSteps == {"idle", "pass", "attach", "finalize", "mark_failed"}

TypeOK ==
  /\ RequestsTypeOK
  /\ attempt \in [Requests -> {"none", "failed", "finalized"} \cup Unfinished]
  /\ attemptKey \in [Requests -> Keys \cup {NoKey}]
  /\ signed \subseteq Requests /\ late \subseteq Requests
  /\ chain \in [Keys -> {"none", "prepared", "broadcast", "landed", "dead"}]
  /\ ledger \subseteq Keys
  /\ available \in [Wallets -> Nat] /\ pending \in [Wallets -> Nat]
  /\ pc \in [Callers -> CallerSteps]
  /\ call \in [Callers -> Keys \cup {NoKey}]
  /\ rpc \in [Recoverers -> RecovererSteps]
  /\ row \in [Recoverers -> Requests \cup {NoRequest}]
  /\ todo \in [Recoverers -> SUBSET Requests]
  /\ snapshot \in [Recoverers -> SUBSET Requests]
  /\ faults \in 0..MaxFaults

Init ==
  /\ RequestsInit
  /\ attempt = [r \in Requests |-> "none"]
  /\ attemptKey = [r \in Requests |-> NoKey]
  /\ signed = {} /\ late = {}
  /\ chain = [k \in Keys |-> "none"]
  /\ ledger = {}
  /\ available = OpeningBalance
  /\ pending = [x \in Wallets |-> 0]
  /\ pc = [c \in Callers |-> "idle"]
  /\ call = [c \in Callers |-> NoKey]
  /\ rpc = [q \in Recoverers |-> "idle"]
  /\ row = [q \in Recoverers |-> NoRequest]
  /\ todo = [q \in Recoverers |-> {}]
  /\ snapshot = [q \in Recoverers |-> {}]
  /\ faults = 0

Pays(c) == RequestOf[call[c]]

Goto(c, step) ==
  /\ pc' = [pc EXCEPT ![c] = step]
  /\ call' = [call EXCEPT ![c] = IF step = "idle" THEN NoKey ELSE @]

\* A call that throws ends; one for a merchant first looks at its attempt.
Thrown(c) == IF Merchant(Pays(c)) THEN "unsubmitted" ELSE "idle"

Shift(f, x, n) == [f EXCEPT ![x] = @ + n]

-------------------------------------------------------------------------------
(* The transactions that callers and recoverers share                      *)

\* The request has its merchant transaction, written with the ledger entry.
Receipted(r) == \E k \in ledger : RequestOf[k] = r

Records(k) ==
  LET r == RequestOf[k]
  IN  /\ ~Receipted(r)
      /\ pending[Payer[k]] >= Amount[r] /\ request[r] = "processing" /\ CanSettleStock(r)

\* Mutant of FinalizeMerchantPayment: it pays from what the payer can spend.
PayFromAvailable(k) ==
  LET r == RequestOf[k]
  IN  IF Records(k)
        THEN /\ available' = Shift(Shift(available, Payer[k], -Amount[r]), Payee[r], Amount[r])
             /\ ledger' = ledger \cup {k}
             /\ SetRequest(r, "completed")
             /\ SettleReservedInventory(r)
             /\ attempt' = [attempt EXCEPT ![r] = "finalized"]
             /\ UNCHANGED pending
        ELSE UNCHANGED <<pending, available, ledger, request, stockVars, attempt>>

\* finalizeMerchantPayment: the reservation is paid out, the request completed
\* and its stock sold, or nothing is: it returns when there is a receipt and
\* throws when one of its guards fails.
FinalizeMerchantPayment(k) ==
  LET r == RequestOf[k]
  IN  IF Records(k)
        THEN /\ pending' = Shift(pending, Payer[k], -Amount[r])
             /\ available' = Shift(available, Payee[r], Amount[r])
             /\ ledger' = ledger \cup {k}
             /\ SetRequest(r, "completed")
             /\ SettleReservedInventory(r)
             /\ attempt' = [attempt EXCEPT ![r] = "finalized"]
        ELSE UNCHANGED <<pending, available, ledger, request, stockVars, attempt>>

\* finalizeConsumerPayment: the balances move only now, from what is there.
CanMoveBalances(k) ==
  LET r == RequestOf[k]
  IN  /\ k \notin ledger /\ available[Payer[k]] >= Amount[r]
      /\ Kind[r] = "dynamic" => request[r] = "pending"

FinalizeConsumerPayment(k) ==
  LET r == RequestOf[k]
  IN  /\ IF CanMoveBalances(k)
           THEN /\ available' = Shift(Shift(available, Payer[k], -Amount[r]), Payee[r], Amount[r])
                /\ ledger' = ledger \cup {k}
                /\ IF Kind[r] = "dynamic" THEN SetRequest(r, "completed") ELSE UNCHANGED request
           ELSE UNCHANGED <<available, ledger, request>>
      /\ UNCHANGED <<pending, stockVars, attempt>>

CanFail(r) ==
  /\ attempt[r] \in Unfinished
  /\ pending[Payer[attemptKey[r]]] >= Amount[r] /\ CanReleaseStock(r)

\* Mutant of MarkMerchantPaymentFailed: what is given back stays set aside too.
GiveBackTwice(r) ==
  /\ IF CanFail(r)
       THEN /\ attempt' = [attempt EXCEPT ![r] = "failed"]
            /\ available' = Shift(available, Payer[attemptKey[r]], Amount[r])
            /\ SetRequest(r, "failed")
            /\ ReleaseReservedInventory(r)
       ELSE UNCHANGED <<attempt, available, request, stockVars>>
  /\ UNCHANGED <<pending, ledger>>

\* markMerchantPaymentFailed: returns when the attempt has ended, throws when
\* there is less set aside than it should give back.
MarkMerchantPaymentFailed(r) ==
  /\ IF CanFail(r)
       THEN /\ attempt' = [attempt EXCEPT ![r] = "failed"]
            /\ pending' = Shift(pending, Payer[attemptKey[r]], -Amount[r])
            /\ available' = Shift(available, Payer[attemptKey[r]], Amount[r])
            /\ SetRequest(r, "failed")
            /\ ReleaseReservedInventory(r)
       ELSE UNCHANGED <<attempt, pending, available, request, stockVars>>
  /\ UNCHANGED ledger

-------------------------------------------------------------------------------
(* A call of the payer: execute                                            *)

Others == <<overdue, shopVars, late, recovererVars, faults>>
Money  == <<request, stockVars, attempt, ledger, balanceVars>>

\* execute answers from the ledger, or resolves the request; one that is being
\* paid is let through, for a repeated call of the payer.
Execute(c, k) ==
  LET r == RequestOf[k]
  IN  /\ pc[c] = "idle" /\ k \notin ledger
      /\ request[r] \in {"pending", "processing"}
      /\ call' = [call EXCEPT ![c] = k]
      /\ pc' = [pc EXCEPT ![c] = IF r \in overdue THEN "expire"
                                 ELSE IF Merchant(r) THEN "claim" ELSE "check_balance"]
      /\ UNCHANGED <<Others, Money, attemptKey, signed, chain>>

Expire(c) ==
  /\ pc[c] = "expire"
  /\ ExpireResolved(Pays(c))
  /\ Goto(c, "idle")
  /\ UNCHANGED <<attemptVars, late, chain, ledger, balanceVars, recovererVars, faults>>

\* Mutant of CanClaim: a request that is being paid is claimed again.
CanClaimAgain(k) ==
  LET r == RequestOf[k]
  IN  request[r] \in {"pending", "processing"} /\ available[Payer[k]] >= Amount[r]

\* Mutant of CanClaim: the payer's balance is not looked at.
CanClaimUncovered(k) ==
  LET r == RequestOf[k]
  IN  attemptKey[r] = NoKey /\ request[r] = "pending"

\* The guards of the claim: the unique attempt, the status, the balance.
CanClaim(k) ==
  LET r == RequestOf[k]
  IN  attemptKey[r] = NoKey /\ request[r] = "pending" /\ available[Payer[k]] >= Amount[r]

\* claimMerchantPayment: one attempt for a request, and the money set aside
\* with it.  A repeated call goes on only when its payment is finalized.
ClaimMerchantPayment(c) ==
  LET k == call[c]
      r == Pays(c)
  IN  /\ pc[c] = "claim"
      /\ IF CanClaim(k)
           THEN /\ attempt' = [attempt EXCEPT ![r] = "processing"]
                /\ attemptKey' = [attemptKey EXCEPT ![r] = k]
                /\ SetRequest(r, "processing")
                /\ available' = Shift(available, Payer[k], -Amount[r])
                /\ pending' = Shift(pending, Payer[k], Amount[r])
           ELSE UNCHANGED <<attempt, attemptKey, request, balanceVars>>
      /\ Goto(c, IF CanClaim(k) \/ (attemptKey[r] = k /\ attempt[r] = "finalized")
                   THEN "look_up" ELSE "idle")
      /\ UNCHANGED <<Others, stockVars, signed, chain, ledger>>

\* assertAvailableBalance: checked for a customer's payment, not set aside.
AssertAvailableBalance(c) ==
  /\ pc[c] = "check_balance"
  /\ Goto(c, IF available[Payer[call[c]]] >= Amount[Pays(c)] THEN "look_up" ELSE "idle")
  /\ UNCHANGED <<Others, Money, attemptKey, signed, chain>>

\* sendTransfer takes up the transaction it finds saved for the key ...
LookUp(c) ==
  /\ pc[c] = "look_up"
  /\ Goto(c, IF chain[call[c]] = "none" THEN "sign" ELSE "attach")
  /\ UNCHANGED <<Others, Money, attemptKey, signed, chain>>

\* ... after writing its signature to the attempt (onSignaturePrepared) ...
RecordSignature(c) ==
  /\ pc[c] \in {"attach", "prepared"}
  /\ signed' = IF Merchant(Pays(c)) THEN signed \cup {Pays(c)} ELSE signed
  /\ Goto(c, IF pc[c] = "attach" THEN "recover" ELSE "broadcast")
  /\ UNCHANGED <<Others, Money, attemptKey, chain>>

\* ... and asks the chain about it, sending the same bytes again while it is
\* neither finalized nor past its last block (recoverTransfer).
Resend(k) == chain' = [chain EXCEPT ![k] = IF @ = "prepared" THEN "broadcast" ELSE @]

RecoverTransfer(c) ==
  /\ pc[c] = "recover"
  /\ Goto(c, CASE chain[call[c]] = "landed" -> "completed"
               [] chain[call[c]] = "dead"   -> "failed"
               [] OTHER                     -> Thrown(c))
  /\ Resend(call[c])
  /\ UNCHANGED <<Others, Money, attemptKey, signed>>

\* Otherwise it signs a new one; the row is unique per key (sendSplTransfer).
Sign(c) ==
  /\ pc[c] = "sign"
  /\ IF chain[call[c]] = "none"
       THEN chain' = [chain EXCEPT ![call[c]] = "prepared"] /\ Goto(c, "prepared")
       ELSE UNCHANGED chain /\ Goto(c, "unsaved")
  /\ UNCHANGED <<Others, Money, attemptKey, signed>>

\* It answers failed only when there is no row for the key.
CheckSaved(c) ==
  /\ pc[c] = "unsaved"
  /\ Goto(c, IF chain[call[c]] = "none" THEN "failed" ELSE Thrown(c))
  /\ UNCHANGED <<Others, Money, attemptKey, signed, chain>>

\* The node refuses to send one that has outlived its last block.
Broadcast(c) ==
  /\ pc[c] = "broadcast"
  /\ Resend(call[c])
  /\ Goto(c, IF chain[call[c]] = "dead" THEN Thrown(c) ELSE "submitted")
  /\ UNCHANGED <<Others, Money, attemptKey, signed>>

\* onSubmitted, written to the attempt of the key whatever its status is.
OnSubmitted(c) ==
  /\ pc[c] = "submitted"
  /\ attempt' = IF Merchant(Pays(c)) THEN [attempt EXCEPT ![Pays(c)] = "submitted"] ELSE attempt
  /\ Goto(c, "confirm")
  /\ UNCHANGED <<Others, request, stockVars, ledger, balanceVars, attemptKey, signed, chain>>

\* A transaction that errs is found saved, and answered as pending.
Confirm(c) ==
  /\ pc[c] = "confirm" /\ chain[call[c]] \in {"landed", "dead"}
  /\ Goto(c, IF chain[call[c]] = "landed" THEN "completed" ELSE Thrown(c))
  /\ UNCHANGED <<Others, Money, attemptKey, signed, chain>>

Finalize(c) ==
  LET k == call[c]
      r == Pays(c)
  IN  /\ pc[c] = "completed"
      /\ IF Merchant(r) THEN FinalizeMerchantPayment(k) ELSE FinalizeConsumerPayment(k)
      /\ Goto(c, IF Merchant(r) /\ (Receipted(r) \/ Records(k)) THEN "idle" ELSE Thrown(c))
      /\ UNCHANGED <<Others, attemptKey, signed, chain>>

MarkFailed(c) ==
  /\ pc[c] \in {"failed", "mark_failed"}
  /\ IF Merchant(Pays(c)) THEN MarkMerchantPaymentFailed(Pays(c)) ELSE UNCHANGED Money
  /\ Goto(c, IF pc[c] = "failed" THEN Thrown(c) ELSE "idle")
  /\ UNCHANGED <<Others, attemptKey, signed, chain>>

\* Mutant of FailUnsubmitted: the saved transaction is not looked for.
FailWithoutLooking(c) ==
  /\ pc[c] = "unsubmitted"
  /\ Goto(c, IF attempt[Pays(c)] = "processing" /\ Pays(c) \notin signed
               THEN "mark_failed" ELSE "idle")
  /\ UNCHANGED <<Others, Money, attemptKey, signed, chain>>

\* failUnsubmittedMerchantPayment, after a call has thrown: an attempt without
\* a signature is failed ...
FailUnsubmitted(c) ==
  /\ pc[c] = "unsubmitted"
  /\ Goto(c, IF attempt[Pays(c)] = "processing" /\ Pays(c) \notin signed
               THEN "check_row" ELSE "idle")
  /\ UNCHANGED <<Others, Money, attemptKey, signed, chain>>

\* ... when no transaction is saved for it either.
CheckRow(c) ==
  /\ pc[c] = "check_row"
  /\ Goto(c, IF chain[attemptKey[Pays(c)]] = "none" THEN "mark_failed" ELSE "idle")
  /\ UNCHANGED <<Others, Money, attemptKey, signed, chain>>

CallerStep(c) ==
  \/ Expire(c) \/ ClaimMerchantPayment(c) \/ AssertAvailableBalance(c)
  \/ LookUp(c) \/ RecordSignature(c) \/ RecoverTransfer(c) \/ Sign(c)
  \/ CheckSaved(c) \/ Broadcast(c) \/ OnSubmitted(c) \/ Confirm(c)
  \/ Finalize(c) \/ MarkFailed(c) \/ FailUnsubmitted(c) \/ CheckRow(c)

Faulty == faults < MaxFaults /\ faults' = faults + 1

\* Nothing was saved: no blockhash, no node, the insert of the row failed.
SignFails(c) ==
  /\ pc[c] = "sign" /\ Faulty
  /\ Goto(c, "unsaved")
  /\ UNCHANGED <<overdue, shopVars, late, recovererVars, Money, attemptKey, signed, chain>>

\* A step after the claim throws, or the confirmation times out.
Throw(c) ==
  /\ pc[c] \in {"look_up", "attach", "recover", "unsaved", "prepared", "broadcast",
                "submitted", "confirm", "completed", "failed"}
  /\ Faulty
  /\ Goto(c, Thrown(c))
  /\ UNCHANGED <<overdue, shopVars, late, recovererVars, Money, attemptKey, signed, chain>>

\* The process of the call ends, or a step throws that nothing is done about.
CallEnds(c) ==
  /\ pc[c] # "idle" /\ Faulty
  /\ Goto(c, "idle")
  /\ UNCHANGED <<overdue, shopVars, late, recovererVars, Money, attemptKey, signed, chain>>

-------------------------------------------------------------------------------
(* The recovery pass: reconcileSubmittedMerchantPayments                   *)

Unchanged == <<overdue, shopVars, late, callerVars, faults>>

\* Goes on with the next row of the pass; the pass ends with its last row.
NextRow(q, r) ==
  /\ todo' = [todo EXCEPT ![q] = @ \ {r}]
  /\ rpc' = [rpc EXCEPT ![q] = IF todo[q] = {r} THEN "idle" ELSE "pass"]
  /\ row' = [row EXCEPT ![q] = NoRequest]
  /\ snapshot' = [snapshot EXCEPT ![q] = @ \ {r}]

At(q, r, step) ==
  /\ rpc' = [rpc EXCEPT ![q] = step]
  /\ row' = [row EXCEPT ![q] = r]
  /\ UNCHANGED <<todo, snapshot>>

EndPass(q) ==
  /\ rpc' = [rpc EXCEPT ![q] = "idle"]
  /\ row' = [row EXCEPT ![q] = NoRequest]
  /\ todo' = [todo EXCEPT ![q] = {}]
  /\ snapshot' = [snapshot EXCEPT ![q] = {}]

\* Reads the unfinished attempts; the loop works on what it read here.
StartPass(q) ==
  LET rows == {r \in Requests : attempt[r] \in Unfinished}
  IN  /\ rpc[q] = "idle" /\ rows # {}
      /\ rpc' = [rpc EXCEPT ![q] = "pass"]
      /\ todo' = [todo EXCEPT ![q] = rows]
      /\ snapshot' = [snapshot EXCEPT ![q] = rows \cap signed]
      /\ UNCHANGED <<Unchanged, row, Money, attemptKey, signed, chain>>

\* Mutant of LookForRow: an attempt without a transaction is never failed.
WaitForRow(q, r) ==
  /\ rpc[q] = "pass" /\ r \in todo[q] \ snapshot[q]
  /\ IF chain[attemptKey[r]] # "none" THEN At(q, r, "attach") ELSE NextRow(q, r)
  /\ UNCHANGED <<Unchanged, Money, attemptKey, signed, chain>>

\* A row that had no signature: the saved transaction is looked for.  Without
\* one, the payment is failed once its claim is five minutes old.
LookForRow(q, r) ==
  LET k == attemptKey[r]
  IN  /\ rpc[q] = "pass" /\ r \in todo[q] \ snapshot[q]
      /\ IF chain[k] # "none" THEN At(q, r, "attach")
         ELSE IF r \in late THEN At(q, r, "mark_failed") ELSE NextRow(q, r)
      /\ UNCHANGED <<Unchanged, Money, attemptKey, signed, chain>>

\* The signature is written to the attempt, whatever its status is by now.
Attach(q) ==
  /\ rpc[q] = "attach"
  /\ attempt' = [attempt EXCEPT ![row[q]] = "submitted"]
  /\ signed' = signed \cup {row[q]}
  /\ NextRow(q, row[q])
  /\ UNCHANGED <<Unchanged, request, stockVars, ledger, balanceVars, attemptKey, chain>>

\* Mutant of CheckChain: the transaction is taken to be through once it is sent.
TrustBroadcast(q, r) ==
  LET k == attemptKey[r]
  IN  /\ rpc[q] = "pass" /\ r \in todo[q] \cap snapshot[q]
      /\ IF chain[k] \in {"broadcast", "landed"} THEN At(q, r, "finalize")
         ELSE IF chain[k] = "dead" THEN At(q, r, "mark_failed")
         ELSE NextRow(q, r)
      /\ Resend(k)
      /\ UNCHANGED <<Unchanged, Money, attemptKey, signed>>

\* A row that had one: the chain decides (getStatus).
CheckChain(q, r) ==
  LET k == attemptKey[r]
  IN  /\ rpc[q] = "pass" /\ r \in todo[q] \cap snapshot[q]
      /\ IF chain[k] = "landed" THEN At(q, r, "finalize")
         ELSE IF chain[k] = "dead" THEN At(q, r, "mark_failed")
         ELSE NextRow(q, r)
      /\ Resend(k)
      /\ UNCHANGED <<Unchanged, Money, attemptKey, signed>>

\* A row whose transaction throws ends the whole pass.
FinalizeRow(q) ==
  LET k == attemptKey[row[q]]
  IN  /\ rpc[q] = "finalize"
      /\ FinalizeMerchantPayment(k)
      /\ IF Receipted(row[q]) \/ Records(k) THEN NextRow(q, row[q]) ELSE EndPass(q)
      /\ UNCHANGED <<Unchanged, attemptKey, signed, chain>>

MarkRowFailed(q) ==
  /\ rpc[q] = "mark_failed"
  /\ MarkMerchantPaymentFailed(row[q])
  /\ IF CanFail(row[q]) \/ attempt[row[q]] \notin Unfinished
       THEN NextRow(q, row[q]) ELSE EndPass(q)
  /\ UNCHANGED <<Unchanged, attemptKey, signed, chain>>

\* The pass throws, or its process ends.
PassEnds(q) ==
  /\ rpc[q] # "idle" /\ Faulty
  /\ EndPass(q)
  /\ UNCHANGED <<overdue, shopVars, late, callerVars, Money, attemptKey, signed, chain>>

RecovererStep(q) ==
  \/ StartPass(q) \/ Attach(q) \/ FinalizeRow(q) \/ MarkRowFailed(q)
  \/ \E r \in Requests : LookForRow(q, r) \/ CheckChain(q, r)

-------------------------------------------------------------------------------
(* Time and chain                                                          *)

\* Five minutes after the claim.  The call that made it has answered by then,
\* unless it stalls.
ClaimGetsLate(r) ==
  /\ attempt[r] \in Unfinished /\ r \notin late
  /\ MayStall \/ \A c \in Callers :
       pc[c] \notin {"idle", "expire", "claim"} => Pays(c) # r
  /\ late' = late \cup {r}
  /\ UNCHANGED <<requestVars, shopVars, Money, attemptKey, signed, chain, callerVars,
                 recovererVars, faults>>

Land(k) ==
  /\ chain[k] = "broadcast"
  /\ chain' = [chain EXCEPT ![k] = "landed"]
  /\ UNCHANGED <<requestVars, shopVars, Money, attemptKey, signed, late, callerVars,
                 recovererVars, faults>>

\* A transaction is finalized with an error or outlives its last block, many
\* seconds after it was sent: by then whoever saw or sent it has written so to
\* the attempt, unless it stalls.
Die(k) ==
  /\ chain[k] \in {"prepared", "broadcast"}
  /\ \/ MayStall
     \/ /\ \A q \in Recoverers : rpc[q] = "attach" => attemptKey[row[q]] # k
        /\ \A c \in Callers : pc[c] = "submitted" => call[c] # k
  /\ chain' = [chain EXCEPT ![k] = "dead"]
  /\ UNCHANGED <<requestVars, shopVars, Money, attemptKey, signed, late, callerVars,
                 recovererVars, faults>>

Elsewhere == <<attemptVars, late, chain, ledger, balanceVars, callerVars, recovererVars, faults>>

Next ==
  \/ (\E r \in Requests : RequestStep(r)) /\ UNCHANGED Elsewhere
  \/ ShopStep /\ UNCHANGED Elsewhere
  \/ \E c \in Callers, k \in Keys : Execute(c, k)
  \/ \E c \in Callers : CallerStep(c) \/ SignFails(c) \/ Throw(c) \/ CallEnds(c)
  \/ \E q \in Recoverers : RecovererStep(q) \/ PassEnds(q)
  \/ \E r \in Requests : ClaimGetsLate(r)
  \/ \E k \in Keys : Land(k) \/ Die(k)

Spec == Init /\ [][Next]_vars

\* Fairness.  A call goes on, each recovery pass that starts goes through its
\* rows and another one follows it, five minutes pass, the chain decides.
Fairness ==
  /\ \A c \in Callers : WF_vars(CallerStep(c))
  /\ \A q \in Recoverers : WF_vars(RecovererStep(q))
  /\ \A r \in Requests : WF_vars(ClaimGetsLate(r))
  /\ \A k \in Keys : WF_vars(Land(k) \/ Die(k))

FairSpec == Spec /\ Fairness

-------------------------------------------------------------------------------
(* Safety                                                                  *)

\* Only the key that claimed a merchant's request ever signs a transfer for
\* it: however many payers and repeated calls meet at one request, it is paid
\* at most once (the unique attempt of claimMerchantPayment and the unique
\* intent of chain_attempts).
OnePaymentPerRequest ==
  \A k \in Keys :
    Merchant(RequestOf[k]) /\ chain[k] # "none" => attemptKey[RequestOf[k]] = k

\* A payment enters the ledger, and a merchant's request is completed, only
\* once its tokens have landed (finalizeMerchantPayment and its two callers).
RecordedOnlyAfterLanding == \A k \in ledger : chain[k] = "landed"

\* A merchant payment that failed, and whose reservations were given back, has
\* moved nothing and never will (markMerchantPaymentFailed after recovery has
\* looked for a saved transaction).
FailureMovedNothing ==
  \A r \in Requests :
    request[r] = "failed" => chain[attemptKey[r]] \in {"none", "dead"}

\* What a wallet holds as pending is exactly the sum of the merchant payments
\* that are being made from it: none is released or settled twice or left
\* behind, whoever of call and recovery ends it.
PendingIsBacked ==
  \A x \in Wallets :
    pending[x] = SumFunctionOnSet(Amount,
      {r \in Requests : request[r] = "processing" /\ Payer[attemptKey[r]] = x})

\* What the payment of a key moves.
Price == [k \in Keys |-> Amount[RequestOf[k]]]

\* Every wallet holds what it opened with, less what the ledger debits and
\* plus what it credits: no payment moves the balances twice.
BalancesMatchLedger ==
  \A x \in Wallets :
    available[x] + pending[x] =
      OpeningBalance[x]
      - SumFunctionOnSet(Price, {k \in ledger : Payer[k] = x})
      + SumFunctionOnSet(Price, {k \in ledger : Payee[RequestOf[k]] = x})

\* A request that was answered stays so: no late call, pass or sweep takes
\* back completed, failed, expired or cancelled.
ClosedIsFinal ==
  [][\A r \in Requests : request[r] \in Closed => request'[r] = request[r]]_vars

\* A request that is being paid does not expire, as the plan of the payment
\* requests says.  resolveInternal does not look at the status when it expires
\* a charge, so that the payment under way can never be recorded.
NotExpiredWhilePaid ==
  [][\A r \in Requests : request[r] = "processing" => request'[r] # "expired"]_vars

-------------------------------------------------------------------------------
(* Liveness                                                                *)

\* Every merchant payment that was claimed ends, completed or failed: after
\* any crash the recovery pass finds it and the chain decides it.
EveryClaimEnds ==
  \A r \in Requests :
    request[r] = "processing" ~> request[r] \in {"completed", "failed"}

===============================================================================
