----------------------------- MODULE ChainTransfer -----------------------------
(***************************************************************************)
(* Workers stepping operations under a lease, and the token transfer they  *)
(* share: SolanaService.sendTransfer and recoverTransfer                   *)
(* (solana.service.ts), sendSplTransfer (spl-transfer.ts), and the runner  *)
(* around them (operation-runner.service.ts).                              *)
(*                                                                         *)
(* An operation asks for token transfers by intent.  Round 0 is the intent *)
(* operation:<id>; round r > 0 is the r-th attempt to return the tokens    *)
(* (compensation:<id>:<previous signature>).  The chain_attempts table is  *)
(* unique on the intent, so attempt[o][r] is its row together with what    *)
(* has become of the signed transaction:                                   *)
(*   none       no row: nothing was signed, or the signed bytes are lost   *)
(*   prepared   the row is saved, the transaction was not sent             *)
(*   broadcast  sent, undecided                                            *)
(*   landed     finalized: the tokens have moved                           *)
(*   dead       finalized with an error, or expired: it never will move    *)
(*                                                                         *)
(* A worker's pc is the database, RPC or provider call it makes next.      *)
(* sendTransfer answers by leaving the worker at "completed" or "failed"   *)
(* for its caller; the answer pending is always followed by a deferral and *)
(* the release of the lease, so it leaves the worker at "release".         *)
(***************************************************************************)
EXTENDS FinancialOperations

CONSTANTS
  NoOperation,   \* op of an idle worker
  MaxReturns,    \* bound on the attempts to return tokens
  MaxFaults      \* bound on crashes and exceptions in a behaviour

ASSUME NoOperationAssumption == NoOperation \notin Operations
ASSUME MaxReturnsAssumption  == MaxReturns \in Nat
ASSUME MaxFaultsAssumption   == MaxFaults \in Nat

VARIABLES
  attempt,   \* attempt[o][r], see above
  tokens,    \* what each wallet holds on chain
  pc,        \* the call each worker makes next
  op,        \* the operation it is stepping
  round,     \* the intent it is working on
  faults     \* crashes and exceptions so far

chainVars  == <<attempt, tokens>>
workerVars == <<pc, op, round, faults>>

Rounds        == 0 .. MaxReturns
AttemptStates == {"none", "prepared", "broadcast", "landed", "dead"}

ResumeSteps ==
  {"start", "poll_collection", "submit_chain", "check_chain",
   "submit_payout", "poll_payout", "finalize", "complete_compensation"}

SendSteps ==
  {"look_up", "sign", "unsaved", "resume", "prepared", "broadcast",
   "confirm", "recover", "completed", "failed"}

\* The steps of one call of the handlers: the caller adds its own.
CoreSteps == {"idle", "release"} \cup ResumeSteps \cup SendSteps

\* Steps inside a try block: their exceptions do not reach the runner.
CaughtSteps == {"sign"}

ChainTypeOK(steps) ==
  /\ attempt \in [Operations -> [Rounds -> AttemptStates]]
  /\ tokens \in [Wallets -> Nat]
  /\ pc \in [Workers -> steps]
  /\ op \in [Workers -> Operations \cup {NoOperation}]
  /\ \A w \in Workers : op[w] = NoOperation <=> pc[w] = "idle"
  /\ round \in [Workers -> Rounds]
  /\ faults \in 0 .. MaxFaults

ChainInit ==
  /\ attempt = [o \in Operations |-> [r \in Rounds |-> "none"]]
  /\ tokens = Opening
  /\ pc = [w \in Workers |-> "idle"]
  /\ op = [w \in Workers |-> NoOperation]
  /\ round = [w \in Workers |-> 0]
  /\ faults = 0

Goto(w, step) ==
  /\ pc' = [pc EXCEPT ![w] = step]
  /\ UNCHANGED <<op, round>>

Idle(w) ==
  /\ pc' = [pc EXCEPT ![w] = "idle"]
  /\ op' = [op EXCEPT ![w] = NoOperation]
  /\ round' = [round EXCEPT ![w] = 0]

Fault == faults < MaxFaults /\ faults' = faults + 1

-------------------------------------------------------------------------------
(* The runner                                                              *)

\* Mutant of Claim: the lease is not looked at.
ClaimAlways(w, o) ==
  /\ pc[w] = "idle"
  /\ status[o] \in InFlight
  /\ claimedBy' = [claimedBy EXCEPT ![o] = w]
  /\ claimLive' = [claimLive EXCEPT ![o] = TRUE]
  /\ pc' = [pc EXCEPT ![w] = ResumeAction(Kind[o], status[o])]
  /\ op' = [op EXCEPT ![w] = o]
  /\ UNCHANGED <<round, faults, rowVars, balanceVars, ledger, chainVars>>

\* Mutant of Claim: the operations that have ended are looked at too.
ClaimEnded(w, o) ==
  /\ pc[w] = "idle"
  /\ status[o] # "absent"
  /\ TakeLease(o, w)
  /\ pc' = [pc EXCEPT ![w] = ResumeAction(Kind[o], status[o])]
  /\ op' = [op EXCEPT ![w] = o]
  /\ UNCHANGED <<round, faults, rowVars, balanceVars, ledger, chainVars>>

\* due, claim and actionFor: an operation in flight whose lease is free.  The
\* delay before the next attempt is left out: a webhook's nudge ignores it.
Claim(w, o) ==
  /\ pc[w] = "idle"
  /\ status[o] \in InFlight
  /\ TakeLease(o, w)
  /\ pc' = [pc EXCEPT ![w] = ResumeAction(Kind[o], status[o])]
  /\ op' = [op EXCEPT ![w] = o]
  /\ UNCHANGED <<round, faults, rowVars, balanceVars, ledger, chainVars>>

\* The finally block of stepExclusively.
Release(w) ==
  /\ pc[w] = "release"
  /\ DropLease(op[w], w)
  /\ Idle(w)
  /\ UNCHANGED <<faults, rowVars, balanceVars, ledger, chainVars>>

\* An exception: a call failed, whether or not it took effect.  The sweep
\* logs it, defers the operation and releases the lease.
Abort(w) ==
  /\ pc[w] \notin {"idle", "release"} \cup CaughtSteps
  /\ Fault
  /\ Goto(w, "release")
  /\ UNCHANGED <<rowVars, leaseVars, balanceVars, ledger, chainVars>>

\* The process dies, or the release itself fails: the lease stays behind.
Crash(w) ==
  /\ pc[w] # "idle"
  /\ Fault
  /\ Idle(w)
  /\ UNCHANGED <<rowVars, leaseVars, balanceVars, ledger, chainVars>>

\* claimedUntil passes.  A live worker renews its lease every 30 s of its
\* 120 s, so only a stall of the process or of the database can lapse it.
Lapse(o) ==
  /\ claimLive[o]
  /\ \/ LeaseMayLapse
     \/ \A w \in Workers : claimedBy[o] = w => op[w] # o
  /\ claimLive' = [claimLive EXCEPT ![o] = FALSE]
  /\ UNCHANGED <<claimedBy, rowVars, balanceVars, ledger, chainVars, workerVars>>

Heartbeat(w) ==
  /\ pc[w] # "idle"
  /\ RenewLease(op[w], w)
  /\ UNCHANGED <<rowVars, balanceVars, ledger, chainVars, workerVars>>

-------------------------------------------------------------------------------
(* sendTransfer                                                            *)

Mine(w) == attempt[op[w]][round[w]]

SetMine(w, state) == attempt' = [attempt EXCEPT ![op[w]][round[w]] = state]

LookUp(w) ==
  /\ pc[w] = "look_up"
  /\ Goto(w, IF Mine(w) = "none" THEN "sign" ELSE "resume")
  /\ UNCHANGED <<faults, rowVars, leaseVars, balanceVars, ledger, chainVars>>

\* Signs, and saves the signed bytes before anything is sent.  The insert
\* fails when another sender's row has the intent.
Sign(w) ==
  /\ pc[w] = "sign"
  /\ IF Mine(w) = "none"
       THEN SetMine(w, "prepared") /\ Goto(w, "prepared")
       ELSE UNCHANGED attempt /\ Goto(w, "unsaved")
  /\ UNCHANGED <<faults, tokens, rowVars, leaseVars, balanceVars, ledger>>

\* Signing or saving raises, perhaps after the row was written.
SignFails(w) ==
  /\ pc[w] = "sign"
  /\ Fault
  /\ \/ UNCHANGED attempt
     \/ Mine(w) = "none" /\ SetMine(w, "prepared")
  /\ Goto(w, "unsaved")
  /\ UNCHANGED <<tokens, rowVars, leaseVars, balanceVars, ledger>>

\* A sender that saved nothing looks for a row another sender has saved.
CheckSaved(w) ==
  /\ pc[w] = "unsaved"
  /\ Goto(w, IF Mine(w) = "none" THEN "failed" ELSE "release")
  /\ UNCHANGED <<faults, rowVars, leaseVars, balanceVars, ledger, chainVars>>

\* onSignaturePrepared of an operation's own transfer: the signature goes into
\* the row as it moves to chain_submitted.  When the row cannot move the call
\* throws, and the sender gives up for now.
RecordSignature(w) ==
  /\ pc[w] \in {"prepared", "resume"}
  /\ round[w] = 0
  /\ MoveOrThrow(op[w], "chain_submitted")
  /\ IF CanMove(op[w], "chain_submitted")
       THEN /\ chainSignature' = [chainSignature EXCEPT ![op[w]] = TRUE]
            /\ Goto(w, IF pc[w] = "prepared" THEN "broadcast" ELSE "recover")
       ELSE /\ UNCHANGED chainSignature
            /\ Goto(w, "release")
  /\ UNCHANGED <<faults, leaseVars, balanceVars, ledger, chainVars>>

Broadcast(w) ==
  /\ pc[w] = "broadcast"
  /\ IF Mine(w) = "prepared" THEN SetMine(w, "broadcast") ELSE UNCHANGED attempt
  /\ Goto(w, "confirm")
  /\ UNCHANGED <<faults, tokens, rowVars, leaseVars, balanceVars, ledger>>

\* Mutant of Confirm: a transfer that was sent counts as one that landed.
ConfirmUnseen(w) ==
  /\ pc[w] = "confirm"
  /\ Goto(w, "completed")
  /\ UNCHANGED <<faults, rowVars, leaseVars, balanceVars, ledger, chainVars>>

Confirm(w) ==
  /\ pc[w] = "confirm"
  /\ Mine(w) = "landed"
  /\ Goto(w, "completed")
  /\ UNCHANGED <<faults, rowVars, leaseVars, balanceVars, ledger, chainVars>>

\* Mutant of ConfirmTimesOut: a timeout counts as a failure.
TimeoutFails(w) ==
  /\ pc[w] = "confirm"
  /\ Goto(w, "failed")
  /\ UNCHANGED <<faults, rowVars, leaseVars, balanceVars, ledger, chainVars>>

\* The confirmation times out or raises: the outcome stays unknown.
ConfirmTimesOut(w) ==
  /\ pc[w] = "confirm"
  /\ Goto(w, "release")
  /\ UNCHANGED <<faults, rowVars, leaseVars, balanceVars, ledger, chainVars>>

\* Mutant of RecoverSettled: a signature the node does not know has failed.
RecoverUnknownFails(w) ==
  /\ pc[w] = "recover"
  /\ Goto(w, IF Mine(w) = "landed" THEN "completed" ELSE "failed")
  /\ UNCHANGED <<faults, rowVars, leaseVars, balanceVars, ledger, chainVars>>

\* recoverTransfer, when the node reports a finalized outcome or an expiry.
RecoverSettled(w) ==
  /\ pc[w] = "recover"
  /\ \/ Mine(w) = "landed" /\ Goto(w, "completed")
     \/ Mine(w) = "dead" /\ Goto(w, "failed")
  /\ UNCHANGED <<faults, rowVars, leaseVars, balanceVars, ledger, chainVars>>

\* recoverTransfer, when the node does not know: the saved bytes are sent
\* again while they are valid.
RecoverPending(w) ==
  /\ pc[w] = "recover"
  /\ \/ UNCHANGED attempt
     \/ Mine(w) = "prepared" /\ SetMine(w, "broadcast")
  /\ Goto(w, "release")
  /\ UNCHANGED <<faults, tokens, rowVars, leaseVars, balanceVars, ledger>>

-------------------------------------------------------------------------------
(* Steps of the runner that every kind with a transfer shares              *)

\* checkChain: only the saved signature is looked up, nothing is signed.
CheckChain(w) ==
  /\ pc[w] = "check_chain"
  /\ Goto(w, IF chainSignature[op[w]] THEN "recover" ELSE "release")
  /\ UNCHANGED <<faults, rowVars, leaseVars, balanceVars, ledger, chainVars>>

\* The transfer landed.
TransferCompleted(w) ==
  /\ pc[w] = "completed"
  /\ round[w] = 0
  /\ MoveOrThrow(op[w], "chain_confirmed")
  /\ Goto(w, "release")
  /\ UNCHANGED <<faults, chainSignature, leaseVars, balanceVars, ledger, chainVars>>

\* The transfer will not land: a submitted operation fails and gets its
\* reservation back, one that never got that far is left for a later attempt.
TransferFailed(w) ==
  /\ pc[w] = "failed"
  /\ round[w] = 0
  /\ IF status[op[w]] = "chain_submitted"
       THEN ReleaseBalanceAndEnd(op[w], "failed")
       ELSE UNCHANGED <<status, balanceVars>>
  /\ Goto(w, "release")
  /\ UNCHANGED <<faults, chainSignature, leaseVars, ledger, chainVars>>

-------------------------------------------------------------------------------
(* The chain                                                               *)

Sender(o, r)   == IF r = 0 THEN Source[o] ELSE Treasury
Receiver(o, r) == IF r = 0 THEN Destination[o] ELSE Source[o]

\* A sent transaction is finalized; the Treasury's own holdings are not counted.
Land(o, r) ==
  /\ attempt[o][r] = "broadcast"
  /\ Sender(o, r) # Treasury => tokens[Sender(o, r)] >= Amount[o]
  /\ attempt' = [attempt EXCEPT ![o][r] = "landed"]
  /\ tokens' = [x \in Wallets |->
                  CASE x = Sender(o, r)   -> tokens[x] - Amount[o]
                    [] x = Receiver(o, r) -> tokens[x] + Amount[o]
                    [] OTHER              -> tokens[x]]
  /\ UNCHANGED <<rowVars, leaseVars, balanceVars, ledger, workerVars>>

\* A transaction errs, or its blockhash expires.  The last round is not let
\* fail, so that MaxReturns bounds the rounds and nothing else.
Die(o, r) ==
  /\ attempt[o][r] \in {"prepared", "broadcast"}
  /\ r = 0 \/ r < MaxReturns
  /\ attempt' = [attempt EXCEPT ![o][r] = "dead"]
  /\ UNCHANGED <<tokens, rowVars, leaseVars, balanceVars, ledger, workerVars>>

===============================================================================
