---------------------------- MODULE AccountTransfer ----------------------------
(***************************************************************************)
(* Transfers between two wallets of a customer (internal_transfer and      *)
(* merchant_dayend): AccountTransferService (account-transfer.service.ts), *)
(* stepped by the runner and started by a request.                         *)
(***************************************************************************)
EXTENDS ChainTransfer, Functions

ASSUME TransferAssumption ==
  /\ Kind \in [Operations -> TransferKinds]
  /\ Source \in [Operations -> Wallets]
  /\ Destination \in [Operations -> Wallets]
  /\ MaxReturns = 0

TransferSteps == CoreSteps \cup {"recorded"}

vars == <<rowVars, leaseVars, balanceVars, ledger, chainVars, workerVars>>

TypeOK == RowsTypeOK /\ ChainTypeOK(TransferSteps)

Init == RowsInit /\ ChainInit

-------------------------------------------------------------------------------
(* Requests                                                                *)

\* startTransfer with a new idempotency key: the row is created ...
Begin(o) ==
  /\ InsertRow(o)
  /\ UNCHANGED <<chainSignature, leaseVars, balanceVars, ledger, chainVars,
                 workerVars>>

\* ... and its funds are reserved, without a lease: a sweep may be at the row.
RequestReserve(o) ==
  /\ status[o] = "created"
  /\ ReserveBalance(o)
  /\ UNCHANGED <<chainSignature, leaseVars, ledger, chainVars, workerVars>>

-------------------------------------------------------------------------------
(* The steps of a worker                                                   *)

Reserve(w) ==
  /\ pc[w] = "start"
  /\ ReserveBalance(op[w])
  /\ Goto(w, "release")
  /\ UNCHANGED <<faults, chainSignature, leaseVars, ledger, chainVars>>

\* submitChainTransfer reads the row again before it sends anything.
SubmitChainTransfer(w) ==
  /\ pc[w] = "submit_chain"
  /\ Goto(w, IF status[op[w]] = "reserved" THEN "look_up" ELSE "release")
  /\ UNCHANGED <<faults, rowVars, leaseVars, balanceVars, ledger, chainVars>>

\* Mutant of Finalize: an entry that is there already ends the step.
FinalizeOnce(w) ==
  /\ pc[w] = "finalize"
  /\ IF status[op[w]] = "chain_confirmed" /\ op[w] \notin ledger
       THEN /\ RecordOnce(op[w])
            /\ Goto(w, IF CanRecord(op[w]) THEN "recorded" ELSE "release")
       ELSE /\ UNCHANGED <<ledger, balanceVars>>
            /\ Goto(w, "release")
  /\ UNCHANGED <<faults, rowVars, leaseVars, chainVars>>

\* finalize: the ledger entry and the balances in one transaction ...
Finalize(w) ==
  /\ pc[w] = "finalize"
  /\ IF status[op[w]] = "chain_confirmed"
       THEN /\ RecordOnce(op[w])
            /\ Goto(w, IF CanRecord(op[w]) THEN "recorded" ELSE "release")
       ELSE /\ UNCHANGED <<ledger, balanceVars>>
            /\ Goto(w, "release")
  /\ UNCHANGED <<faults, rowVars, leaseVars, chainVars>>

\* ... and the row in another.
MarkFinalized(w) ==
  /\ pc[w] = "recorded"
  /\ MoveOrThrow(op[w], "finalized")
  /\ Goto(w, "release")
  /\ UNCHANGED <<faults, chainSignature, leaseVars, balanceVars, ledger, chainVars>>

HandlerStep(w) ==
  \/ Reserve(w) \/ SubmitChainTransfer(w) \/ LookUp(w) \/ Sign(w)
  \/ CheckSaved(w) \/ RecordSignature(w) \/ Broadcast(w)
  \/ Confirm(w) \/ ConfirmTimesOut(w) \/ CheckChain(w)
  \/ RecoverSettled(w) \/ RecoverPending(w)
  \/ TransferCompleted(w) \/ TransferFailed(w)
  \/ Finalize(w) \/ MarkFinalized(w) \/ Release(w)

WorkerFault(w) == SignFails(w) \/ Abort(w) \/ Crash(w)

Resolve(o, r) == Land(o, r) \/ Die(o, r)

Next ==
  \/ \E o \in Operations : Begin(o) \/ RequestReserve(o) \/ Lapse(o)
  \/ \E w \in Workers, o \in Operations : Claim(w, o)
  \/ \E w \in Workers : HandlerStep(w) \/ WorkerFault(w) \/ Heartbeat(w)
  \/ \E o \in Operations, r \in Rounds : Resolve(o, r)

Spec == Init /\ [][Next]_vars

\* Fairness.  A worker finishes what it started; the sweep, which walks every
\* due row, reaches each operation; a dead worker's lease runs out; the chain
\* decides; a node that is asked again and again answers.
Fairness ==
  /\ \A w \in Workers : WF_vars(HandlerStep(w))
  /\ \A o \in Operations :
       /\ SF_vars(\E w \in Workers : Claim(w, o))
       /\ WF_vars(Lapse(o))
       /\ \A r \in Rounds : WF_vars(Resolve(o, r))
       /\ SF_vars(\E w \in Workers : op[w] = o /\ RecoverSettled(w))

FairSpec == Spec /\ Fairness

-------------------------------------------------------------------------------
(* Safety                                                                  *)

\* A transfer that is reported as failed has moved nothing and never will: no
\* saved transaction of it is on its way (the release in submitChainTransfer,
\* checkChain and releaseBalanceAndEnd).
FailureMovedNothing ==
  \A o \in Operations :
    status[o] = "failed" => attempt[o][0] \in {"none", "dead"}

\* The books record a transfer only once its tokens have landed (finalize
\* after chain_confirmed), even when two workers overlap.
RecordedOnlyAfterLanding ==
  \A o \in ledger : attempt[o][0] = "landed"

\* What a wallet holds as pending is exactly what unfinished transfers out of
\* it have set aside: no retry, crash or overlap reserves, releases or
\* consumes a reservation twice, or forgets one.
ReservationsAreBacked ==
  \A x \in Wallets :
    pending[x] = SumFunctionOnSet(Amount,
                   {o \in Operations : Source[o] = x /\ HoldsReservation(o)})

\* Chain and books agree on every wallet at every moment, up to the transfers
\* that have landed and are not recorded yet.
BooksMatchChain ==
  \A x \in Wallets :
    LET landed == {o \in Operations \ ledger : attempt[o][0] = "landed"}
        sum(S) == SumFunctionOnSet(Amount, S)
    IN  tokens[x] + sum({o \in landed : Source[o] = x})
          = available[x] + pending[x] + sum({o \in landed : Destination[o] = x})

\* Spendable balance rises only on evidence from the chain: the destination is
\* credited for a transfer that landed, the source gets its reservation back
\* for one that is dead.
RiseOnlyOnEvidence ==
  [][\A x \in Wallets :
       available'[x] > available[x] =>
         \E o \in Operations :
           \/ Destination[o] = x /\ attempt[o][0] = "landed" /\ o \in ledger' \ ledger
           \/ Source[o] = x /\ attempt[o][0] = "dead"
                            /\ status'[o] = "failed" /\ status[o] # "failed"]_vars

\* The transfer implements the promise of MoneyMovement.
Promise == INSTANCE MoneyMovement
  WITH Movements <- Operations,
       moved     <- {o \in Operations : attempt[o][0] = "landed"},
       recorded  <- ledger,
       refused   <- {o \in Operations : status[o] = "failed"}

KeepsPromise == Promise!Spec

-------------------------------------------------------------------------------
(* Why it is safe                                                          *)

\* Needs no lease: a transfer is confirmed, finalized or recorded only on
\* the sight of its landing, which is never undone.
LandingInv ==
  /\ \A o \in Operations :
       /\ status[o] \in {"chain_confirmed", "finalized"} => attempt[o][0] = "landed"
       /\ o \in ledger => attempt[o][0] = "landed"
  /\ \A w \in Workers : pc[w] = "completed" => attempt[op[w]][0] = "landed"

\* Needs no lease either: the ledger has an entry only of a transfer that was
\* confirmed, and a worker about to finalize a row has seen it there.
LedgerInv ==
  /\ \A o \in ledger : status[o] \in {"chain_confirmed", "finalized"}
  /\ \A w \in Workers : pc[w] = "recorded" => op[w] \in ledger

\* Needs the leases: a busy worker holds the lease of its operation, so that
\* what it read of the row still holds when it acts on it.
LeaseInv ==
  \A w \in Workers :
    pc[w] # "idle" => claimedBy[op[w]] = w /\ claimLive[op[w]]

WorkerInv ==
  \A w \in Workers :
    /\ pc[w] \in {"look_up", "sign", "unsaved"} => status[op[w]] = "reserved"
    /\ pc[w] = "failed" =>
         status[op[w]] = "reserved" \/ attempt[op[w]][0] = "dead"

\* The strengthening of FailureMovedNothing that every step preserves.
TransferInv ==
  /\ LandingInv
  /\ LeaseInv
  /\ WorkerInv
  /\ FailureMovedNothing
  /\ \A o \in Operations :
       status[o] \in {"absent", "created"} => attempt[o][0] = "none"

-------------------------------------------------------------------------------
(* Liveness                                                                *)

\* Every transfer that was accepted ends, finalized or failed, whatever
\* crashed on the way: no status is a dead end for the sweep.
EveryTransferEnds ==
  \A o \in Operations : status[o] = "created" ~> status[o] \in Terminal

===============================================================================
