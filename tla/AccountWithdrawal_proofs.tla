----------------------- MODULE AccountWithdrawal_proofs -----------------------
(***************************************************************************)
(* Proofs about AccountWithdrawal, for every finite set of operations, any *)
(* workers and wallets, and any number of faults.  Types and the number of *)
(* returns need no lease; what a row says of the chain, of Stripe and of   *)
(* the books needs that no live worker loses its lease.                    *)
(***************************************************************************)
EXTENDS AccountWithdrawal, Sums_proofs, TLAPS

-------------------------------------------------------------------------------
(* Type correctness                                                        *)

LEMMA WithdrawalKind ==
  ASSUME NEW o \in Operations
  PROVE  /\ Source[o] \in Wallets /\ Source[o] # Treasury
         /\ Destination[o] = Treasury /\ Treasury \notin Wallets
         /\ Amount[o] \in Nat /\ Amount[o] > 0
BY WithdrawalAssumption, WalletsAssumption, AmountAssumption

LEMMA RoundsAndReturns ==
  /\ MaxReturns \in Nat /\ MaxReturns > 0
  /\ Rounds = 0 .. MaxReturns /\ Returns = 1 .. MaxReturns
  /\ 0 \in Rounds /\ 1 \in Returns /\ Returns \subseteq Rounds
BY MaxReturnsAssumption, WithdrawalAssumption DEF Rounds, Returns

RowTypes  == status \in [Operations -> OperationStatuses \cup {"absent"}]
BookTypes == /\ available \in [Wallets -> Nat]
             /\ pending \in [Wallets -> Nat]
             /\ ledger \subseteq Operations
StepTypes == /\ pc \in [Workers -> WithdrawalSteps]
             /\ op \in [Workers -> Operations \cup {NoOperation}]
             /\ \A w \in Workers : op[w] = NoOperation <=> pc[w] = "idle"
             /\ round \in [Workers -> Rounds]
LeaseTypes == /\ chainSignature \in [Operations -> BOOLEAN]
              /\ claimedBy \in [Operations -> Workers \cup {NoWorker}]
              /\ claimLive \in [Operations -> BOOLEAN]
ChainTypes == /\ attempt \in [Operations -> [Rounds -> AttemptStates]]
              /\ tokens \in [Wallets -> Nat]
FaultTypes == faults \in 0 .. MaxFaults
PayoutTypes ==
  /\ transferred \in [Operations -> BOOLEAN]
  /\ payout \in [Operations -> {"none", "pending", "paid", "failed"}]
  /\ providerRef \in [Operations -> BOOLEAN]
  /\ compensationSignature \in [Operations -> Rounds]

LEMMA TypeParts ==
  TypeOK <=> /\ RowTypes /\ BookTypes /\ StepTypes /\ LeaseTypes /\ ChainTypes
             /\ FaultTypes /\ PayoutTypes
BY DEF TypeOK, RowsTypeOK, ChainTypeOK, RowTypes, BookTypes, StepTypes, LeaseTypes,
  ChainTypes, FaultTypes, PayoutTypes

LEMMA BusyWorker ==
  ASSUME StepTypes, NEW w \in Workers, pc[w] # "idle"
  PROVE  op[w] \in Operations /\ round[w] \in Rounds
BY DEF StepTypes

\* The effects the services share keep the types.
LEMMA MoveTypes ==
  ASSUME RowTypes, NEW o \in Operations, NEW to \in OperationStatuses,
         MoveOrThrow(o, to)
  PROVE  RowTypes'
BY DEF RowTypes, MoveOrThrow

LEMMA ReserveTypes ==
  ASSUME RowTypes, BookTypes, NEW o \in Operations, ReserveBalance(o)
  PROVE  /\ RowTypes'
         /\ available' \in [Wallets -> Nat] /\ pending' \in [Wallets -> Nat]
<1>1. CASE status[o] # "created"
  BY <1>1 DEF RowTypes, BookTypes, ReserveBalance, balanceVars
<1>2. CASE status[o] = "created" /\ available[Source[o]] >= Amount[o]
  BY <1>2, WithdrawalKind DEF RowTypes, BookTypes, ReserveBalance, Less, Shift,
    OperationStatuses, InFlight
<1>3. CASE status[o] = "created" /\ ~(available[Source[o]] >= Amount[o])
  BY <1>3 DEF RowTypes, BookTypes, ReserveBalance, balanceVars,
    OperationStatuses, Terminal
<1> QED
  BY <1>1, <1>2, <1>3

LEMMA ReleaseTypes ==
  ASSUME RowTypes, BookTypes, NEW o \in Operations, NEW end \in OperationStatuses,
         ReleaseBalanceAndEnd(o, end)
  PROVE  /\ RowTypes'
         /\ available' \in [Wallets -> Nat] /\ pending' \in [Wallets -> Nat]
<1>1. CASE CanMove(o, end) /\ pending[Source[o]] >= Amount[o]
  BY <1>1, WithdrawalKind DEF RowTypes, BookTypes, ReleaseBalanceAndEnd, Less, Shift
<1>2. CASE ~(CanMove(o, end) /\ pending[Source[o]] >= Amount[o])
  BY <1>2 DEF RowTypes, BookTypes, ReleaseBalanceAndEnd, balanceVars
<1> QED
  BY <1>1, <1>2

LEMMA RecordTypes ==
  ASSUME BookTypes, NEW o \in Operations, RecordOnce(o)
  PROVE  BookTypes'
<1>1. CASE o \in ledger \/ ~CanRecord(o)
  BY <1>1 DEF BookTypes, RecordOnce, balanceVars
<1>2. CASE o \notin ledger /\ CanRecord(o)
  <2>1. pending[Source[o]] >= Amount[o]
    BY <1>2, WithdrawalKind DEF CanRecord
  <2>2. /\ ledger' = ledger \cup {o}
        /\ pending' = Less(pending, Source[o], Amount[o])
        /\ available' = available
    BY <1>2, WithdrawalKind DEF RecordOnce
  <2> QED
    BY <2>1, <2>2, WithdrawalKind DEF BookTypes, Less
<1> QED
  BY <1>1, <1>2

LEMMA GotoTypes ==
  ASSUME StepTypes, NEW w \in Workers, pc[w] # "idle",
         NEW step \in WithdrawalSteps \ {"idle"}, Goto(w, step)
  PROVE  StepTypes'
BY DEF StepTypes, Goto

LEMMA ResumeTypes ==
  ASSUME StepTypes, NEW w \in Workers, pc[w] # "idle",
         NEW step \in WithdrawalSteps \ {"idle"}, NEW r \in Rounds,
         ResumeReturn(w, step, r)
  PROVE  StepTypes'
BY DEF StepTypes, ResumeReturn

LEMMA IdleTypes ==
  ASSUME StepTypes, NEW w \in Workers, Idle(w)
  PROVE  StepTypes'
BY NoOperationAssumption, RoundsAndReturns DEF StepTypes, Idle,
  WithdrawalSteps, CoreSteps

LEMMA AttemptTypes ==
  ASSUME ChainTypes, StepTypes, NEW w \in Workers, pc[w] # "idle",
         NEW state \in AttemptStates, SetMine(w, state)
  PROVE  attempt' \in [Operations -> [Rounds -> AttemptStates]]
BY BusyWorker DEF ChainTypes, StepTypes, SetMine

\* The steps of a worker by what they leave alone.
LEMMA QuietTypes ==
  ASSUME TypeOK, UNCHANGED <<faults, rowVars, leaseVars, balanceVars, ledger, chainVars,
                             payoutVars>>,
         StepTypes'
  PROVE  TypeOK'
BY TypeParts DEF rowVars, leaseVars, balanceVars, chainVars, payoutVars, stripeVars,
  TypeOK, RowsTypeOK, ChainTypeOK, StepTypes

LEMMA SendTypes ==
  ASSUME TypeOK, UNCHANGED <<faults, tokens, rowVars, leaseVars, balanceVars, ledger,
                             payoutVars>>,
         StepTypes', attempt' \in [Operations -> [Rounds -> AttemptStates]]
  PROVE  TypeOK'
BY TypeParts DEF rowVars, leaseVars, balanceVars, chainVars, payoutVars, stripeVars,
  TypeOK, RowsTypeOK, ChainTypeOK, StepTypes

LEMMA BookingTypes ==
  ASSUME TypeOK, UNCHANGED <<faults, chainSignature, leaseVars, chainVars, payoutVars>>,
         StepTypes', RowTypes', BookTypes'
  PROVE  TypeOK'
BY TypeParts DEF leaseVars, chainVars, payoutVars, stripeVars, RowTypes, BookTypes,
  TypeOK, RowsTypeOK, ChainTypeOK, StepTypes

LEMMA StripeTypes ==
  ASSUME TypeOK, UNCHANGED <<faults, chainSignature, leaseVars, balanceVars, ledger, chainVars>>,
         StepTypes', RowTypes', PayoutTypes'
  PROVE  TypeOK'
BY TypeParts DEF leaseVars, balanceVars, chainVars, RowTypes, PayoutTypes,
  TypeOK, RowsTypeOK, ChainTypeOK, StepTypes

LEMMA InitTypes == Init => TypeOK
BY OpeningAssumption, RoundsAndReturns, MaxFaultsAssumption
DEF Init, RowsInit, ChainInit, TypeOK, RowsTypeOK, ChainTypeOK,
  AttemptStates, WithdrawalSteps, CoreSteps

LEMMA RequestTypes ==
  ASSUME TypeOK, NEW o \in Operations, Begin(o) \/ RequestReserve(o) \/ LeaseEnds(o)
  PROVE  TypeOK'
<1> USE DEF rowVars, leaseVars, balanceVars, chainVars, workerVars, payoutVars, stripeVars
<1>1. CASE Begin(o)
  BY <1>1 DEF TypeOK, RowsTypeOK, ChainTypeOK, Begin, InsertRow,
    OperationStatuses, InFlight
<1>2. CASE RequestReserve(o)
  <2>1. RowTypes' /\ available' \in [Wallets -> Nat] /\ pending' \in [Wallets -> Nat]
    BY <1>2, TypeParts, ReserveTypes DEF RequestReserve
  <2> QED
    BY <1>2, <2>1 DEF TypeOK, RowsTypeOK, ChainTypeOK, RowTypes, RequestReserve
<1>3. CASE LeaseEnds(o)
  BY <1>3 DEF TypeOK, RowsTypeOK, ChainTypeOK, LeaseEnds, Lapse
<1> QED
  BY <1>1, <1>2, <1>3

LEMMA ClaimTypes ==
  ASSUME TypeOK, NEW w \in Workers, NEW o \in Operations, ClaimRow(w, o)
  PROVE  TypeOK'
<1>1. ResumeAction(Kind[o], status[o]) \in WithdrawalSteps \ {"idle"}
  BY DEF ClaimRow, Claim, ResumeAction, WithdrawalSteps, CoreSteps, ResumeSteps, InFlight
<1> QED
  BY <1>1, NoOperationAssumption
  DEF TypeOK, RowsTypeOK, ChainTypeOK, ClaimRow, Claim, TakeLease,
    rowVars, balanceVars, chainVars, payoutVars, stripeVars

\* sendTransfer, recoverTransfer, and what the runner makes of their answers.
LEMMA ChainStepTypes ==
  ASSUME TypeOK, NEW w \in Workers, ChainStep(w)
  PROVE  TypeOK'
<1>0. RowTypes /\ BookTypes /\ StepTypes /\ LeaseTypes /\ ChainTypes /\ FaultTypes
  BY TypeParts
<1>p. UNCHANGED payoutVars
  BY DEF ChainStep
<1> USE DEF WithdrawalSteps, CoreSteps, SendSteps
<1>1. CASE LookUp(w) \/ CheckSaved(w) \/ Confirm(w) \/ ConfirmTimesOut(w) \/ CheckChain(w)
  <2>1. StepTypes'
    BY <1>0, <1>1, GotoTypes DEF LookUp, CheckSaved, Confirm, ConfirmTimesOut, CheckChain
  <2> QED
    BY <1>1, <1>p, <2>1, QuietTypes DEF LookUp, CheckSaved, Confirm, ConfirmTimesOut, CheckChain
<1>2. CASE RecoverSettled(w)
  <2>1. StepTypes'
    BY <1>0, <1>2, GotoTypes DEF RecoverSettled
  <2> QED
    BY <1>2, <1>p, <2>1, QuietTypes DEF RecoverSettled
<1>3. CASE Sign(w) \/ Broadcast(w) \/ RecoverPending(w)
  <2>1. attempt' \in [Operations -> [Rounds -> AttemptStates]]
    BY <1>0, <1>3, AttemptTypes DEF Sign, Broadcast, RecoverPending, AttemptStates, ChainTypes
  <2>2. StepTypes'
    BY <1>0, <1>3, GotoTypes DEF Sign, Broadcast, RecoverPending
  <2> QED
    BY <1>3, <1>p, <2>1, <2>2, SendTypes DEF Sign, Broadcast, RecoverPending
<1>4. CASE RecordSignature(w)
  <2>1. RowTypes'
    BY <1>4, <1>0, BusyWorker, MoveTypes DEF RecordSignature, OperationStatuses, InFlight
  <2>2. StepTypes'
    BY <1>4, <1>0, GotoTypes DEF RecordSignature
  <2>3. chainSignature' \in [Operations -> BOOLEAN]
    BY <1>4, <1>0, BusyWorker DEF RecordSignature, LeaseTypes
  <2> QED
    BY <1>4, <1>p, <2>1, <2>2, <2>3
    DEF RecordSignature, TypeOK, RowsTypeOK, ChainTypeOK, RowTypes, StepTypes,
      leaseVars, balanceVars, chainVars, payoutVars, stripeVars
<1>5. CASE TransferCompleted(w)
  <2>1. StepTypes'
    BY <1>5, <1>0, GotoTypes DEF TransferCompleted
  <2>2. RowTypes'
    BY <1>5, <1>0, BusyWorker, MoveTypes DEF TransferCompleted, OperationStatuses, InFlight
  <2> QED
    BY <1>5, <1>0, <1>p, <2>1, <2>2, BookingTypes DEF TransferCompleted, BookTypes, balanceVars
<1>6. CASE TransferFailed(w)
  <2>1. StepTypes'
    BY <1>6, <1>0, GotoTypes DEF TransferFailed
  <2>2. op[w] \in Operations
    BY <1>6, <1>0, BusyWorker DEF TransferFailed
  <2>3. RowTypes' /\ BookTypes'
    <3>1. CASE status[op[w]] = "chain_submitted"
      BY <1>6, <1>0, <2>2, <3>1, ReleaseTypes
      DEF TransferFailed, BookTypes, OperationStatuses, Terminal
    <3>2. CASE status[op[w]] # "chain_submitted"
      BY <1>6, <1>0, <3>2 DEF TransferFailed, RowTypes, BookTypes, balanceVars
    <3> QED
      BY <3>1, <3>2
  <2> QED
    BY <1>6, <1>p, <2>1, <2>3, BookingTypes DEF TransferFailed
<1>7. CASE Release(w)
  <2>1. StepTypes'
    BY <1>7, <1>0, IdleTypes DEF Release
  <2>2. LeaseTypes'
    BY <1>7, <1>0, BusyWorker, WorkersAssumption
    DEF Release, DropLease, LeaseTypes, rowVars, leaseVars
  <2> QED
    BY <1>7, <1>p, <2>1, <2>2
    DEF Release, TypeOK, RowsTypeOK, ChainTypeOK, StepTypes, LeaseTypes,
      rowVars, balanceVars, chainVars, payoutVars, stripeVars
<1> QED
  BY <1>1, <1>2, <1>3, <1>4, <1>5, <1>6, <1>7 DEF ChainStep

\* The steps before and after the payout.
LEMMA ServiceStepTypes ==
  ASSUME TypeOK, NEW w \in Workers,
         \/ Reserve(w) \/ ReturnTokensToTreasury(w) \/ Finalize(w) \/ MarkFinalized(w)
  PROVE  TypeOK'
<1>0. RowTypes /\ BookTypes /\ StepTypes /\ LeaseTypes /\ ChainTypes /\ FaultTypes
  BY TypeParts
<1> USE DEF WithdrawalSteps, CoreSteps, SendSteps
<1>1. CASE Reserve(w)
  <2>1. StepTypes'
    BY <1>1, <1>0, GotoTypes DEF Reserve
  <2>2. RowTypes' /\ BookTypes'
    BY <1>1, <1>0, BusyWorker, ReserveTypes DEF Reserve, BookTypes
  <2> QED
    BY <1>1, <2>1, <2>2, BookingTypes DEF Reserve
<1>2. CASE ReturnTokensToTreasury(w)
  <2>1. StepTypes'
    BY <1>2, <1>0, GotoTypes DEF ReturnTokensToTreasury
  <2> QED
    BY <1>2, <2>1, QuietTypes DEF ReturnTokensToTreasury
<1>3. CASE Finalize(w)
  <2>1. StepTypes'
    BY <1>3, <1>0, GotoTypes DEF Finalize
  <2>2. op[w] \in Operations
    BY <1>3, <1>0, BusyWorker DEF Finalize
  <2>3. BookTypes'
    <3>1. CASE status[op[w]] = "payout_settled"
      BY <1>3, <1>0, <2>2, <3>1, RecordTypes DEF Finalize
    <3>2. CASE status[op[w]] # "payout_settled"
      BY <1>3, <1>0, <3>2 DEF Finalize, BookTypes, balanceVars
    <3> QED
      BY <3>1, <3>2
  <2> QED
    BY <1>3, <1>0, <2>1, <2>3, BookingTypes DEF Finalize, RowTypes, rowVars
<1>4. CASE MarkFinalized(w)
  <2>1. StepTypes'
    BY <1>4, <1>0, GotoTypes DEF MarkFinalized
  <2>2. RowTypes'
    BY <1>4, <1>0, BusyWorker, MoveTypes DEF MarkFinalized, OperationStatuses, Terminal
  <2> QED
    BY <1>4, <1>0, <2>1, <2>2, BookingTypes DEF MarkFinalized, BookTypes, balanceVars
<1> QED
  BY <1>1, <1>2, <1>3, <1>4

LEMMA PayoutEventTypes ==
  ASSUME RowTypes, NEW o \in Operations, ApplyPayoutEvent(o)
  PROVE  RowTypes'
BY DEF RowTypes, ApplyPayoutEvent, OperationStatuses, InFlight

\* submitPayout and the payout's outcome.
LEMMA PayoutStepTypes ==
  ASSUME TypeOK, NEW w \in Workers,
         \/ SubmitPayout(w) \/ TransferFunds(w) \/ CreatePayout(w)
         \/ RecordPayout(w) \/ BeginCompensation(w) \/ PollPayout(w)
  PROVE  TypeOK'
<1>0. RowTypes /\ BookTypes /\ StepTypes /\ LeaseTypes /\ ChainTypes /\ FaultTypes /\ PayoutTypes
  BY TypeParts
<1> USE DEF WithdrawalSteps, CoreSteps, SendSteps, PayoutSteps
<1>1. CASE SubmitPayout(w)
  <2>1. StepTypes'
    BY <1>1, <1>0, GotoTypes DEF SubmitPayout
  <2> QED
    BY <1>1, <2>1, QuietTypes DEF SubmitPayout
<1>2. CASE TransferFunds(w)
  <2>1. StepTypes' /\ op[w] \in Operations
    BY <1>2, <1>0, GotoTypes, BusyWorker DEF TransferFunds
  <2> QED
    BY <1>2, <1>0, <2>1, StripeTypes DEF TransferFunds, PayoutTypes, RowTypes, rowVars
<1>3. CASE CreatePayout(w)
  <2>1. StepTypes' /\ op[w] \in Operations
    BY <1>3, <1>0, GotoTypes, BusyWorker DEF CreatePayout
  <2> QED
    BY <1>3, <1>0, <2>1, StripeTypes
    DEF CreatePayout, StartPayout, PayoutTypes, RowTypes, rowVars
<1>4. CASE RecordPayout(w)
  <2>1. StepTypes' /\ op[w] \in Operations
    BY <1>4, <1>0, GotoTypes, BusyWorker DEF RecordPayout
  <2>2. RowTypes'
    BY <1>4, <1>0, <2>1, MoveTypes DEF RecordPayout, OperationStatuses, InFlight
  <2> QED
    BY <1>4, <1>0, <2>1, <2>2, StripeTypes DEF RecordPayout, PayoutTypes, stripeVars
<1>5. CASE BeginCompensation(w)
  <2>1. StepTypes' /\ op[w] \in Operations
    BY <1>5, <1>0, GotoTypes, BusyWorker DEF BeginCompensation
  <2>2. RowTypes'
    BY <1>5, <1>0, <2>1, MoveTypes DEF BeginCompensation, OperationStatuses, InFlight
  <2> QED
    BY <1>5, <1>0, <2>1, <2>2, BookingTypes DEF BeginCompensation, BookTypes, balanceVars
<1>6. CASE PollPayout(w)
  <2>1. StepTypes' /\ op[w] \in Operations
    BY <1>6, <1>0, GotoTypes, BusyWorker DEF PollPayout
  <2>2. RowTypes'
    BY <1>6, <1>0, <2>1, PayoutEventTypes DEF PollPayout
  <2> QED
    BY <1>6, <1>0, <2>1, <2>2, BookingTypes DEF PollPayout, BookTypes, balanceVars
<1> QED
  BY <1>1, <1>2, <1>3, <1>4, <1>5, <1>6

\* completeCompensation.  A further round stays within the bound because the
\* last return is not let die.
LEMMA ReturnStepTypes ==
  ASSUME TypeOK, ReturnInv, NEW w \in Workers,
         \/ CompleteCompensation(w) \/ CheckReturn(w) \/ CheckReturnPending(w)
         \/ RecordReturnSignature(w) \/ ReturnCompleted(w) \/ ReturnFailed(w)
  PROVE  TypeOK'
<1>0. RowTypes /\ BookTypes /\ StepTypes /\ LeaseTypes /\ ChainTypes /\ FaultTypes /\ PayoutTypes
  BY TypeParts
<1> USE DEF WithdrawalSteps, CoreSteps, SendSteps, PayoutSteps
<1>1. CASE CompleteCompensation(w)
  <2>1. op[w] \in Operations
    BY <1>0, <1>1, BusyWorker DEF CompleteCompensation
  <2>2. compensationSignature[op[w]] \in Rounds /\ 1 \in Rounds
    BY <1>0, <2>1, RoundsAndReturns DEF PayoutTypes
  <2>3. StepTypes'
    BY <1>0, <1>1, <2>2, GotoTypes, ResumeTypes DEF CompleteCompensation
  <2> QED
    BY <1>1, <2>3, QuietTypes DEF CompleteCompensation
<1>2. CASE CheckReturn(w)
  <2>1. op[w] \in Operations /\ round[w] \in Rounds /\ round[w] > 0
    BY <1>0, <1>2, BusyWorker DEF CheckReturn, ReturnInv
  <2>2. round[w] \in Returns
    BY <2>1, RoundsAndReturns
  <2>3. Mine(w) = "dead" => round[w] + 1 \in Rounds
    BY <2>1, <2>2, RoundsAndReturns DEF ReturnInv, Mine
  <2>4. StepTypes'
    BY <1>0, <1>2, <2>3, GotoTypes, ResumeTypes DEF CheckReturn
  <2> QED
    BY <1>2, <2>4, QuietTypes DEF CheckReturn
<1>3. CASE CheckReturnPending(w)
  <2>1. StepTypes'
    BY <1>0, <1>3, GotoTypes DEF CheckReturnPending
  <2>2. attempt' \in [Operations -> [Rounds -> AttemptStates]]
    BY <1>0, <1>3, AttemptTypes DEF CheckReturnPending, AttemptStates, ChainTypes
  <2> QED
    BY <1>3, <2>1, <2>2, SendTypes DEF CheckReturnPending
<1>4. CASE RecordReturnSignature(w)
  <2>1. op[w] \in Operations /\ round[w] \in Rounds
    BY <1>0, <1>4, BusyWorker DEF RecordReturnSignature
  <2>2. StepTypes'
    BY <1>0, <1>4, GotoTypes DEF RecordReturnSignature
  <2> QED
    BY <1>0, <1>4, <2>1, <2>2, StripeTypes
    DEF RecordReturnSignature, PayoutTypes, stripeVars, RowTypes, rowVars
<1>5. CASE ReturnCompleted(w)
  <2>1. StepTypes' /\ op[w] \in Operations
    BY <1>5, <1>0, GotoTypes, BusyWorker DEF ReturnCompleted
  <2>2. RowTypes' /\ BookTypes'
    BY <1>5, <1>0, <2>1, ReleaseTypes
    DEF ReturnCompleted, BookTypes, OperationStatuses, Terminal
  <2> QED
    BY <1>5, <2>1, <2>2, BookingTypes DEF ReturnCompleted
<1>6. CASE ReturnFailed(w)
  <2>1. StepTypes'
    BY <1>6, <1>0, GotoTypes DEF ReturnFailed
  <2> QED
    BY <1>6, <2>1, QuietTypes DEF ReturnFailed
<1> QED
  BY <1>1, <1>2, <1>3, <1>4, <1>5, <1>6

LEMMA FaultStepTypes ==
  ASSUME TypeOK, NEW w \in Workers, WorkerFault(w) \/ RenewsLease(w)
  PROVE  TypeOK'
<1> USE DEF rowVars, leaseVars, balanceVars, chainVars, workerVars, payoutVars, stripeVars
<1>0. RowTypes /\ BookTypes /\ StepTypes /\ LeaseTypes /\ ChainTypes /\ FaultTypes /\ PayoutTypes
  BY TypeParts
<1> USE DEF WithdrawalSteps, CoreSteps, SendSteps, PayoutSteps
<1>a. ASSUME Fault PROVE FaultTypes'
  BY <1>a, <1>0, MaxFaultsAssumption DEF Fault, FaultTypes
<1>1. CASE SignFails(w) /\ UNCHANGED payoutVars
  <2>1. attempt' \in [Operations -> [Rounds -> AttemptStates]]
    BY <1>1, <1>0, AttemptTypes DEF SignFails, AttemptStates, ChainTypes
  <2>2. StepTypes'
    BY <1>1, <1>0, GotoTypes DEF SignFails
  <2> QED
    BY <1>1, <1>a, <2>1, <2>2
    DEF SignFails, TypeOK, RowsTypeOK, ChainTypeOK, StepTypes, FaultTypes
<1>2. CASE Abort(w) /\ UNCHANGED payoutVars
  <2>1. StepTypes'
    BY <1>2, <1>0, GotoTypes DEF Abort
  <2> QED
    BY <1>2, <1>a, <2>1
    DEF Abort, TypeOK, RowsTypeOK, ChainTypeOK, StepTypes, FaultTypes
<1>3. CASE Crash(w) /\ UNCHANGED payoutVars
  <2>1. StepTypes'
    BY <1>3, <1>0, IdleTypes DEF Crash
  <2> QED
    BY <1>3, <1>a, <2>1
    DEF Crash, TypeOK, RowsTypeOK, ChainTypeOK, StepTypes, FaultTypes
<1>4. CASE PayoutFails(w)
  <2>1. StepTypes' /\ op[w] \in Operations
    BY <1>4, <1>0, GotoTypes, BusyWorker DEF PayoutFails, InTry
  <2>2. PayoutTypes'
    BY <1>4, <1>0, <2>1 DEF PayoutFails, StartPayout, PayoutTypes
  <2> QED
    BY <1>4, <1>a, <2>1, <2>2
    DEF PayoutFails, TypeOK, RowsTypeOK, ChainTypeOK, StepTypes, FaultTypes, PayoutTypes
<1>5. CASE RenewsLease(w)
  BY <1>5, <1>0, BusyWorker
  DEF RenewsLease, Heartbeat, RenewLease, TypeOK, RowsTypeOK, ChainTypeOK
<1> QED
  BY <1>1, <1>2, <1>3, <1>4, <1>5 DEF WorkerFault

\* The chain and Stripe.
LEMMA OutsideTypes ==
  ASSUME TypeOK, NEW o \in Operations,
         \/ \E r \in Rounds : Resolve(o, r)
         \/ PayoutEnds(o) \/ PayoutWebhook(o)
  PROVE  TypeOK'
<1> USE DEF rowVars, leaseVars, balanceVars, chainVars, workerVars, payoutVars, stripeVars,
            TypeOK, RowsTypeOK, ChainTypeOK
<1>1. ASSUME NEW r \in Rounds, Land(o, r), UNCHANGED payoutVars PROVE TypeOK'
  <2>1. attempt' \in [Operations -> [Rounds -> AttemptStates]]
    BY <1>1 DEF Land, AttemptStates
  <2>2. tokens' = [x \in Wallets |->
                     CASE x = Sender(o, r)   -> tokens[x] - Amount[o]
                       [] x = Receiver(o, r) -> tokens[x] + Amount[o]
                       [] OTHER              -> tokens[x]]
    BY <1>1 DEF Land
  <2>3. \A x \in Wallets : x = Sender(o, r) => tokens[x] >= Amount[o]
    BY <1>1, WithdrawalKind DEF Land
  <2>4. tokens' \in [Wallets -> Nat]
    BY <2>2, <2>3, WithdrawalKind
  <2> QED
    BY <1>1, <2>1, <2>4 DEF Land
<1>2. ASSUME NEW r \in Rounds, Die(o, r), UNCHANGED payoutVars PROVE TypeOK'
  BY <1>2 DEF Die, AttemptStates
<1>3. CASE PayoutEnds(o)
  BY <1>3 DEF PayoutEnds
<1>4. CASE PayoutWebhook(o)
  <2>1. RowTypes'
    BY <1>4, TypeParts, PayoutEventTypes DEF PayoutWebhook
  <2> QED
    BY <1>4, <2>1 DEF PayoutWebhook, RowTypes
<1> QED
  BY <1>1, <1>2, <1>3, <1>4 DEF Resolve

LEMMA NextTypes == TypeOK /\ ReturnInv /\ [Next]_vars => TypeOK'
<1> SUFFICES ASSUME TypeOK, ReturnInv, [Next]_vars PROVE TypeOK'
  OBVIOUS
<1>1. CASE UNCHANGED vars
  BY <1>1 DEF vars, rowVars, leaseVars, balanceVars, chainVars, workerVars, payoutVars,
    stripeVars, TypeOK, RowsTypeOK, ChainTypeOK
<1>2. CASE Next
  BY <1>2, RequestTypes, ClaimTypes, ChainStepTypes, ServiceStepTypes, PayoutStepTypes,
    ReturnStepTypes, FaultStepTypes, OutsideTypes
  DEF Next, HandlerStep
<1> QED
  BY <1>1, <1>2

-------------------------------------------------------------------------------
(* Returns go out one after the other, leases or no leases                 *)

\* What a step may do to a return: a worker that has it in hand signs it, it is
\* sent, it lands, or it dies; none comes back to life.
AttemptStep ==
  \/ attempt' = attempt
  \/ \E w \in Workers, state \in {"prepared", "broadcast"} :
       op[w] \in Operations /\ round[w] \in Rounds /\ Mine(w) # "dead" /\ SetMine(w, state)
  \/ \E o \in Operations, r \in Rounds, state \in {"landed", "dead"} :
       /\ attempt[o][r] \in {"prepared", "broadcast"}
       /\ state = "dead" => r = 0 \/ r < MaxReturns
       /\ attempt' = [attempt EXCEPT ![o][r] = state]

LEMMA AttemptSteps == TypeOK /\ [Next]_vars => AttemptStep
<1> SUFFICES ASSUME TypeOK, [Next]_vars PROVE AttemptStep
  OBVIOUS
<1> USE DEF chainVars
<1>0. StepTypes
  BY TypeParts
<1>1. ASSUME UNCHANGED attempt PROVE AttemptStep
  BY <1>1 DEF AttemptStep
<1>2. ASSUME NEW w \in Workers, pc[w] # "idle", Mine(w) # "dead",
             NEW state \in {"prepared", "broadcast"}, SetMine(w, state)
      PROVE  AttemptStep
  BY <1>0, <1>2, BusyWorker DEF AttemptStep
<1>3. ASSUME NEW w \in Workers, HandlerStep(w) PROVE AttemptStep
  <2>1. CASE Sign(w)
    BY <1>1, <1>2, <2>1 DEF Sign
  <2>2. CASE Broadcast(w)
    BY <1>1, <1>2, <2>2 DEF Broadcast
  <2>3. CASE RecoverPending(w)
    BY <1>1, <1>2, <2>3 DEF RecoverPending
  <2>4. CASE CheckReturnPending(w)
    BY <1>1, <1>2, <2>4 DEF CheckReturnPending
  <2>5. CASE UNCHANGED attempt
    BY <1>1, <2>5
  <2> QED
    BY <1>3, <2>1, <2>2, <2>3, <2>4, <2>5
    DEF HandlerStep, ChainStep, LookUp, CheckSaved, RecordSignature, Confirm,
      ConfirmTimesOut, CheckChain, RecoverSettled, TransferCompleted, TransferFailed,
      Release, Reserve, ReturnTokensToTreasury, SubmitPayout, TransferFunds, CreatePayout,
      RecordPayout, BeginCompensation, PollPayout, Finalize, MarkFinalized,
      CompleteCompensation, CheckReturn, RecordReturnSignature, ReturnCompleted, ReturnFailed
<1>4. ASSUME NEW w \in Workers, WorkerFault(w) \/ RenewsLease(w) PROVE AttemptStep
  <2>1. CASE SignFails(w)
    BY <1>1, <1>2, <2>1 DEF SignFails
  <2>2. CASE UNCHANGED attempt
    BY <1>1, <2>2
  <2> QED
    BY <1>4, <2>1, <2>2
    DEF WorkerFault, PayoutFails, Abort, Crash, RenewsLease, Heartbeat
<1>5. ASSUME NEW o \in Operations, NEW r \in Rounds, Resolve(o, r) PROVE AttemptStep
  BY <1>5 DEF Resolve, Land, Die, AttemptStep
<1>6. CASE UNCHANGED vars
  BY <1>1, <1>6 DEF vars
<1>7. CASE Next
  BY <1>1, <1>3, <1>4, <1>5, <1>7
  DEF Next, Begin, RequestReserve, LeaseEnds, Lapse, PayoutEnds, PayoutWebhook,
    ClaimRow, Claim
<1> QED
  BY <1>6, <1>7

\* A return that is dead stays dead, and the last one is not let die.
LEMMA DeadStays ==
  ASSUME TypeOK, AttemptStep, NEW o \in Operations, NEW r \in Rounds
  PROVE  /\ attempt[o][r] = "dead" => attempt'[o][r] = "dead"
         /\ attempt'[o][r] = "dead" => attempt[o][r] = "dead" \/ r = 0 \/ r < MaxReturns
         /\ \/ attempt'[o][r] = attempt[o][r]
            \/ attempt[o][r] # "none"
            \/ \E w \in Workers : op[w] = o /\ round[w] = r
<1>0. attempt \in [Operations -> [Rounds -> AttemptStates]]
  BY TypeParts DEF ChainTypes
<1>1. CASE attempt' = attempt
  BY <1>1
<1>2. ASSUME NEW w \in Workers, NEW state \in {"prepared", "broadcast"},
             op[w] \in Operations, round[w] \in Rounds, Mine(w) # "dead", SetMine(w, state)
      PROVE  /\ attempt[o][r] = "dead" => attempt'[o][r] = "dead"
             /\ attempt'[o][r] = "dead" => attempt[o][r] = "dead"
             /\ attempt'[o][r] = attempt[o][r] \/ (op[w] = o /\ round[w] = r)
  BY <1>0, <1>2 DEF SetMine, Mine
<1>3. ASSUME NEW p \in Operations, NEW q \in Rounds, NEW state \in {"landed", "dead"},
             attempt[p][q] \in {"prepared", "broadcast"},
             state = "dead" => q = 0 \/ q < MaxReturns,
             attempt' = [attempt EXCEPT ![p][q] = state]
      PROVE  /\ attempt[o][r] = "dead" => attempt'[o][r] = "dead"
             /\ attempt'[o][r] = "dead" => attempt[o][r] = "dead" \/ r = 0 \/ r < MaxReturns
             /\ attempt'[o][r] = attempt[o][r] \/ attempt[o][r] # "none"
  BY <1>0, <1>3
<1> QED
  BY <1>1, <1>2, <1>3 DEF AttemptStep

\* How a worker comes to be at a return: it stays there, it takes up the first,
\* the one the row knows of, or the one after a return it has seen dead.
WorkerAt(v) ==
  \/ op'[v] = op[v] /\ round'[v] = round[v]
  \/ round'[v] = 0
  \/ /\ op'[v] = op[v] /\ op[v] \in Operations
     /\ \/ round'[v] = 1
        \/ round'[v] = compensationSignature[op[v]]
        \/ round[v] \in Returns /\ Mine(v) = "dead" /\ round'[v] = round[v] + 1

\* The three ways on of completeCompensation.
LEMMA CompensationCases ==
  ASSUME NEW w \in Workers, CompleteCompensation(w)
  PROVE  \/ Goto(w, "release")
         \/ /\ status[op[w]] = "compensating"
            /\ ResumeReturn(w, "look_up", 1)
         \/ /\ status[op[w]] = "compensating" /\ compensationSignature[op[w]] # 0
            /\ ResumeReturn(w, "check_return", compensationSignature[op[w]])
<1>1. CASE status[op[w]] # "compensating"
  BY <1>1 DEF CompleteCompensation
<1>2. CASE status[op[w]] = "compensating" /\ compensationSignature[op[w]] = 0
  BY Zenon, <1>2 DEF CompleteCompensation
<1>3. CASE status[op[w]] = "compensating" /\ compensationSignature[op[w]] # 0
  BY Zenon, <1>3 DEF CompleteCompensation
<1> QED
  BY <1>1, <1>2, <1>3

LEMMA WorkerSteps ==
  ASSUME TypeOK, ReturnInv, [Next]_vars, NEW v \in Workers
  PROVE  /\ WorkerAt(v)
         /\ pc'[v] = "idle" => round'[v] = 0
         /\ pc'[v] = "check_return" => round'[v] > 0
<1> DEFINE Goal == /\ WorkerAt(v)
                   /\ pc'[v] = "idle" => round'[v] = 0
                   /\ pc'[v] = "check_return" => round'[v] > 0
<1>0. StepTypes /\ PayoutTypes
  BY TypeParts
<1>1. ASSUME UNCHANGED <<pc, op, round>> PROVE Goal
  BY <1>1 DEF WorkerAt, ReturnInv
<1>2. ASSUME NEW w \in Workers, NEW step, step \notin {"idle", "check_return"},
             Goto(w, step)
      PROVE  Goal
  BY <1>0, <1>2 DEF WorkerAt, Goto, StepTypes, ReturnInv
<1>3. ASSUME NEW w \in Workers, Idle(w) PROVE Goal
  BY <1>0, <1>3 DEF WorkerAt, Idle, StepTypes, ReturnInv
<1>4. ASSUME NEW w \in Workers, NEW o \in Operations, ClaimRow(w, o) PROVE Goal
  <2>1. ResumeAction(Kind[o], status[o]) \notin {"idle", "check_return"}
    BY DEF ResumeAction
  <2>2. /\ UNCHANGED round /\ round[w] = 0
        /\ pc' = [pc EXCEPT ![w] = ResumeAction(Kind[o], status[o])]
        /\ op' = [op EXCEPT ![w] = o]
    BY <1>4 DEF ClaimRow, Claim, ReturnInv
  <2> QED
    BY <1>0, <2>1, <2>2 DEF WorkerAt, StepTypes, ReturnInv
<1>5. ASSUME NEW w \in Workers, CompleteCompensation(w) PROVE Goal
  <2>0. op[w] \in Operations /\ compensationSignature[op[w]] \in Rounds
    BY <1>0, <1>5, BusyWorker DEF CompleteCompensation, PayoutTypes
  <2> DEFINE previous == compensationSignature[op[w]]
  <2>1. CASE Goto(w, "release")
    BY <1>2, <2>1
  <2>2. CASE ResumeReturn(w, "look_up", 1)
    BY <1>0, <2>0, <2>2 DEF WorkerAt, ResumeReturn, StepTypes, ReturnInv
  <2>3. CASE previous # 0 /\ ResumeReturn(w, "check_return", previous)
    <3>1. previous > 0
      BY <2>0, <2>3, RoundsAndReturns
    <3> QED
      BY <1>0, <2>0, <2>3, <3>1 DEF WorkerAt, ResumeReturn, StepTypes, ReturnInv
  <2>4. Goto(w, "release") \/ ResumeReturn(w, "look_up", 1)
          \/ (previous # 0 /\ ResumeReturn(w, "check_return", previous))
    BY <1>5, CompensationCases
  <2> QED
    BY <2>1, <2>2, <2>3, <2>4
<1>6. ASSUME NEW w \in Workers, CheckReturn(w) PROVE Goal
  <2>0. op[w] \in Operations /\ round[w] \in Returns
    BY <1>0, <1>6, BusyWorker, RoundsAndReturns DEF CheckReturn, ReturnInv
  <2>1. CASE Goto(w, "completed")
    BY <1>2, <2>1
  <2>2. CASE Mine(w) = "dead" /\ ResumeReturn(w, "look_up", round[w] + 1)
    BY <1>0, <2>0, <2>2 DEF WorkerAt, ResumeReturn, StepTypes, ReturnInv
  <2> QED
    BY <1>6, <2>1, <2>2 DEF CheckReturn
<1>7. ASSUME NEW w \in Workers, ChainStep(w) PROVE Goal
  BY <1>2, <1>3, <1>7
  DEF ChainStep, LookUp, Sign, CheckSaved, RecordSignature, Broadcast, Confirm,
    ConfirmTimesOut, CheckChain, RecoverSettled, RecoverPending, TransferCompleted,
    TransferFailed, Release
<1>8. ASSUME NEW w \in Workers,
             \/ Reserve(w) \/ ReturnTokensToTreasury(w) \/ SubmitPayout(w) \/ TransferFunds(w)
             \/ CreatePayout(w) \/ RecordPayout(w) \/ BeginCompensation(w) \/ PollPayout(w)
      PROVE  Goal
  BY <1>2, <1>8
  DEF Reserve, ReturnTokensToTreasury, SubmitPayout, TransferFunds, CreatePayout,
    RecordPayout, BeginCompensation, PollPayout
<1>9. ASSUME NEW w \in Workers,
             \/ Finalize(w) \/ MarkFinalized(w) \/ CheckReturnPending(w)
             \/ RecordReturnSignature(w) \/ ReturnCompleted(w) \/ ReturnFailed(w)
      PROVE  Goal
  BY <1>2, <1>9
  DEF Finalize, MarkFinalized, CheckReturnPending, RecordReturnSignature,
    ReturnCompleted, ReturnFailed
<1>10. ASSUME NEW w \in Workers, WorkerFault(w) PROVE Goal
  BY <1>2, <1>3, <1>10 DEF WorkerFault, PayoutFails, SignFails, Abort, Crash
<1>11. CASE UNCHANGED vars
  BY <1>1, <1>11 DEF vars, workerVars
<1>12. CASE Next
  BY <1>1, <1>4, <1>5, <1>6, <1>7, <1>8, <1>9, <1>10, <1>12
  DEF Next, HandlerStep, Begin, RequestReserve, LeaseEnds, Lapse, PayoutEnds,
    PayoutWebhook, RenewsLease, Heartbeat, Resolve, Land, Die, workerVars
<1> QED
  BY <1>11, <1>12

\* The row learns of a return from a worker that has it in hand.
LEMMA SignatureSteps ==
  ASSUME TypeOK, [Next]_vars, NEW o \in Operations
  PROVE  \/ compensationSignature'[o] = compensationSignature[o]
         \/ \E w \in Workers : op[w] = o /\ round[w] = compensationSignature'[o]
<1> USE DEF payoutVars
<1>0. StepTypes /\ PayoutTypes
  BY TypeParts
<1>1. CASE UNCHANGED vars
  BY <1>1 DEF vars
<1>2. ASSUME NEW w \in Workers, RecordReturnSignature(w)
      PROVE  \/ compensationSignature'[o] = compensationSignature[o]
             \/ op[w] = o /\ round[w] = compensationSignature'[o]
  BY <1>0, <1>2, BusyWorker DEF RecordReturnSignature, PayoutTypes
<1>3. ASSUME NEW w \in Workers, HandlerStep(w), ~RecordReturnSignature(w)
      PROVE  UNCHANGED compensationSignature
  BY <1>3
  DEF HandlerStep, ChainStep, Reserve, ReturnTokensToTreasury, SubmitPayout, TransferFunds,
    CreatePayout, RecordPayout, BeginCompensation, PollPayout, Finalize, MarkFinalized,
    CompleteCompensation, CheckReturn, CheckReturnPending, ReturnCompleted, ReturnFailed
<1>4. CASE Next
  BY <1>2, <1>3, <1>4
  DEF Next, Begin, RequestReserve, LeaseEnds, PayoutEnds, PayoutWebhook, ClaimRow,
    WorkerFault, PayoutFails, RenewsLease, Resolve
<1> QED
  BY <1>1, <1>4

\* A return that is begun now was begun before, is the first, or follows one
\* that was begun and is dead.
LEMMA BegunSteps ==
  ASSUME TypeOK, ReturnInv, [Next]_vars, NEW o \in Operations, NEW r \in Returns, Begun(o, r)'
  PROVE  \/ Begun(o, r)
         \/ r = 1
         \/ r - 1 \in Returns /\ Begun(o, r - 1) /\ attempt[o][r - 1] = "dead"
<1>0. r \in Rounds /\ r > 0 /\ r \in Nat
  BY RoundsAndReturns
<1>1. CASE attempt'[o][r] # "none"
  BY <1>0, <1>1, AttemptSteps, DeadStays DEF Begun
<1>2. CASE compensationSignature'[o] = r
  BY <1>2, SignatureSteps DEF Begun
<1>3. ASSUME NEW w \in Workers, op'[w] = o, round'[w] = r
      PROVE  \/ Begun(o, r)
             \/ r = 1
             \/ r - 1 \in Returns /\ Begun(o, r - 1) /\ attempt[o][r - 1] = "dead"
  <2>1. WorkerAt(w)
    BY WorkerSteps
  <2>2. CASE op'[w] = op[w] /\ round'[w] = round[w]
    BY <1>3, <2>2 DEF Begun
  <2>3. CASE round'[w] = 0
    BY <1>0, <1>3, <2>3
  <2>4. CASE op'[w] = op[w] /\ round'[w] = compensationSignature[op[w]]
    BY <1>3, <2>4 DEF Begun
  <2>5. CASE op'[w] = op[w] /\ round[w] \in Returns /\ Mine(w) = "dead" /\ round'[w] = round[w] + 1
    <3>1. r - 1 = round[w]
      BY <1>0, <1>3, <2>5, RoundsAndReturns
    <3> QED
      BY <1>3, <2>5, <3>1 DEF Begun, Mine
  <2> QED
    BY <1>3, <2>1, <2>2, <2>3, <2>4, <2>5 DEF WorkerAt
<1> QED
  BY <1>1, <1>2, <1>3 DEF Begun

LEMMA ReturnInit == Init => ReturnInv
BY RoundsAndReturns, NoOperationAssumption DEF Init, ChainInit, ReturnInv, Begun

LEMMA ReturnStep == TypeOK /\ ReturnInv /\ [Next]_vars => ReturnInv'
<1> SUFFICES ASSUME TypeOK, ReturnInv, [Next]_vars PROVE ReturnInv'
  OBVIOUS
<1>1. ASSUME NEW o \in Operations, NEW r \in Returns, Begun(o, r)', NEW q \in 1 .. r - 1
      PROVE  attempt'[o][q] = "dead"
  <2>0. q \in Returns /\ q \in Rounds /\ q \in Nat /\ r \in Nat
    BY RoundsAndReturns
  <2>1. attempt[o][q] = "dead"
    <3>1. CASE Begun(o, r)
      BY <3>1 DEF ReturnInv
    <3>2. CASE r = 1
      BY <3>2
    <3>3. CASE r - 1 \in Returns /\ Begun(o, r - 1) /\ attempt[o][r - 1] = "dead"
      <4>1. q = r - 1 \/ q \in 1 .. (r - 1) - 1
        BY <2>0
      <4> QED
        BY <3>3, <4>1 DEF ReturnInv
    <3> QED
      BY <1>1, <3>1, <3>2, <3>3, BegunSteps
  <2> QED
    BY <2>0, <2>1, AttemptSteps, DeadStays
<1>2. ASSUME NEW o \in Operations, NEW r \in Returns, attempt'[o][r] = "dead"
      PROVE  r < MaxReturns
  <2>1. r \in Rounds /\ r # 0
    BY RoundsAndReturns
  <2> QED
    BY <1>2, <2>1, AttemptSteps, DeadStays DEF ReturnInv
<1>3. ASSUME NEW w \in Workers
      PROVE  /\ pc'[w] = "idle" => round'[w] = 0
             /\ pc'[w] = "check_return" => round'[w] > 0
  BY WorkerSteps
<1> QED
  BY <1>1, <1>2, <1>3 DEF ReturnInv

LEMMA Inductive == Spec => [](TypeOK /\ ReturnInv)
<1>1. Init => TypeOK /\ ReturnInv
  BY InitTypes, ReturnInit
<1>2. TypeOK /\ ReturnInv /\ [Next]_vars => TypeOK' /\ ReturnInv'
  BY NextTypes, ReturnStep
<1> QED
  BY <1>1, <1>2, PTL DEF Spec

\* Every variable stays within its type; in particular no balance is ever
\* negative and no compensation goes past its rounds.
THEOREM TypeCorrect == Spec => []TypeOK
BY Inductive, PTL

\* The Treasury returns the tokens of a withdrawal at most once, for any number
\* of workers, whatever crashes, and although leases lapse under live workers,
\* so that several complete one compensation at a time: of the transactions
\* signed for its returns at most one is not dead.
THEOREM ReturnedOnce == Spec => []ReturnedAtMostOnce
<1>1. TypeOK /\ ReturnInv => ReturnedAtMostOnce
  <2> SUFFICES ASSUME TypeOK, ReturnInv, NEW o \in Operations
               PROVE  Cardinality({r \in Returns :
                        attempt[o][r] \in {"prepared", "broadcast", "landed"}}) <= 1
    BY DEF ReturnedAtMostOnce
  <2> DEFINE Live == {r \in Returns : attempt[o][r] \in {"prepared", "broadcast", "landed"}}
  <2>1. ASSUME NEW q \in Live, NEW r \in Live, q < r PROVE FALSE
    <3>1. q \in 1 .. r - 1 /\ Begun(o, r)
      BY <2>1, RoundsAndReturns DEF Begun
    <3> QED
      BY <2>1, <3>1 DEF ReturnInv
  <2>2. \A q, r \in Live : q = r
    BY <2>1, RoundsAndReturns
  <2>3. CASE Live = {}
    BY <2>3, FS_EmptySet
  <2>4. ASSUME NEW r \in Live PROVE Cardinality(Live) = 1
    <3>1. Live = {r}
      BY <2>2, <2>4
    <3> QED
      BY <3>1, FS_Singleton
  <2> QED
    BY <2>3, <2>4, FS_EmptySet
<1> QED
  BY <1>1, Inductive, PTL

-------------------------------------------------------------------------------
(* The state machine of a withdrawal                                       *)

\* nextStatus on the sequence of a withdrawal, spelled out.
LEMMA WithdrawalNext ==
  ASSUME NEW o \in Operations, NEW from, NEW to
  PROVE  IsNextStatus(Kind[o], from, to) <=>
           \/ from = "created" /\ to = "reserved"
           \/ from = "reserved" /\ to = "chain_submitted"
           \/ from = "chain_submitted" /\ to = "chain_confirmed"
           \/ from = "chain_confirmed" /\ to = "payout_submitted"
           \/ from = "payout_submitted" /\ to = "payout_settled"
           \/ from = "payout_settled" /\ to = "finalized"
<1>0. Len(WithdrawalSequence) = 7
  BY DEF WithdrawalSequence
<1>a. 1 .. Len(WithdrawalSequence) - 1 = 1 .. 6
  BY <1>0
<1>b. StepSequence(Kind[o]) = WithdrawalSequence
  BY WithdrawalAssumption DEF StepSequence, TransferKinds, FundingKinds, WithdrawalKinds
<1>1. IsNextStatus(Kind[o], from, to) <=>
        \E i \in 1 .. 6 : WithdrawalSequence[i] = from /\ WithdrawalSequence[i + 1] = to
  BY <1>a, <1>b, Zenon DEF IsNextStatus
<1>2. /\ WithdrawalSequence[1] = "created" /\ WithdrawalSequence[2] = "reserved"
      /\ WithdrawalSequence[3] = "chain_submitted"
      /\ WithdrawalSequence[4] = "chain_confirmed"
      /\ WithdrawalSequence[5] = "payout_submitted"
      /\ WithdrawalSequence[6] = "payout_settled"
      /\ WithdrawalSequence[7] = "finalized"
  BY DEF WithdrawalSequence
<1>3. 1 .. 6 = {1, 2, 3, 4, 5, 6}
  OBVIOUS
<1>4. IsNextStatus(Kind[o], from, to) <=>
        \/ WithdrawalSequence[1] = from /\ WithdrawalSequence[2] = to
        \/ WithdrawalSequence[2] = from /\ WithdrawalSequence[3] = to
        \/ WithdrawalSequence[3] = from /\ WithdrawalSequence[4] = to
        \/ WithdrawalSequence[4] = from /\ WithdrawalSequence[5] = to
        \/ WithdrawalSequence[5] = from /\ WithdrawalSequence[6] = to
        \/ WithdrawalSequence[6] = from /\ WithdrawalSequence[7] = to
  BY <1>1, <1>3
<1> QED
  BY <1>2, <1>4

\* When a withdrawal may move to each status its workers move it to.
LEMMA WithdrawalMoves ==
  ASSUME NEW o \in Operations
  PROVE  /\ CanMove(o, "chain_submitted") => status[o] = "reserved"
         /\ CanMove(o, "chain_confirmed") => status[o] = "chain_submitted"
         /\ CanMove(o, "payout_submitted") <=> status[o] = "chain_confirmed"
         /\ CanMove(o, "finalized") => status[o] = "payout_settled"
         /\ CanMove(o, "compensating") => status[o] \in Irreversible
         /\ CanMove(o, "reversed") => status[o] = "compensating"
<1>1. ~CollectedFunding(Kind[o], status[o])
  BY WithdrawalAssumption DEF CollectedFunding, WithdrawalKinds, FundingKinds
<1> QED
  BY <1>1, WithdrawalNext DEF CanMove, CanTransition, Terminal

-------------------------------------------------------------------------------
(* Leases keep workers apart                                               *)

\* Two busy workers step different operations.
LEMMA Alone ==
  ASSUME StepTypes, LeaseInv, NEW v \in Workers, NEW w \in Workers, v # w,
         pc[v] # "idle", pc[w] # "idle"
  PROVE  op[v] # op[w]
BY DEF LeaseInv

\* A step of a worker that is not the release of its lease.
LEMMA WorkerKeepsLeases ==
  ASSUME NEW w \in Workers, HandlerStep(w) \/ WorkerFault(w)
  PROVE  UNCHANGED leaseVars \/ Release(w)
BY DEF HandlerStep, ChainStep, LookUp, Sign, CheckSaved, RecordSignature, Broadcast,
  Confirm, ConfirmTimesOut, CheckChain, RecoverSettled, RecoverPending, TransferCompleted,
  TransferFailed, Reserve, ReturnTokensToTreasury, SubmitPayout, TransferFunds,
  CreatePayout, RecordPayout, BeginCompensation, PollPayout, Finalize, MarkFinalized,
  CompleteCompensation, CheckReturn, CheckReturnPending, RecordReturnSignature,
  ReturnCompleted, ReturnFailed, WorkerFault, PayoutFails, SignFails, Abort, Crash

\* A worker's step changes no other worker, and leaves it where its operation
\* is the same or it is idle.
LEMMA WorkerMoves ==
  ASSUME StepTypes, NEW w \in Workers, HandlerStep(w) \/ WorkerFault(w)
  PROVE  /\ pc[w] # "idle"
         /\ \A v \in Workers \ {w} :
              pc'[v] = pc[v] /\ op'[v] = op[v] /\ round'[v] = round[v]
         /\ op'[w] = op[w] \/ (pc'[w] = "idle" /\ round'[w] = 0)
<1> DEFINE Goal == /\ \A v \in Workers \ {w} :
                        pc'[v] = pc[v] /\ op'[v] = op[v] /\ round'[v] = round[v]
                   /\ op'[w] = op[w] \/ (pc'[w] = "idle" /\ round'[w] = 0)
<1>1. ASSUME NEW step, Goto(w, step) PROVE Goal
  BY <1>1 DEF Goto, StepTypes
<1>2. ASSUME Idle(w) PROVE Goal
  BY <1>2 DEF Idle, StepTypes
<1>3. ASSUME NEW step, NEW r, ResumeReturn(w, step, r) PROVE Goal
  BY <1>3 DEF ResumeReturn, StepTypes
<1> HIDE DEF Goal
<1>4. CASE ChainStep(w)
  <2>1. CASE LookUp(w) \/ Sign(w) \/ CheckSaved(w) \/ RecordSignature(w) \/ Broadcast(w)
    BY <1>1, <2>1 DEF LookUp, Sign, CheckSaved, RecordSignature, Broadcast, Goal
  <2>2. CASE Confirm(w) \/ ConfirmTimesOut(w) \/ CheckChain(w) \/ RecoverSettled(w)
    BY <1>1, <2>2 DEF Confirm, ConfirmTimesOut, CheckChain, RecoverSettled, Goal
  <2>3. CASE RecoverPending(w) \/ TransferCompleted(w) \/ TransferFailed(w)
    BY <1>1, <2>3 DEF RecoverPending, TransferCompleted, TransferFailed, Goal
  <2>4. CASE Release(w)
    BY <1>2, <2>4 DEF Release, Goal
  <2> QED
    BY <1>4, <2>1, <2>2, <2>3, <2>4 DEF ChainStep, Goal
<1>5. CASE Reserve(w) \/ ReturnTokensToTreasury(w) \/ SubmitPayout(w) \/ TransferFunds(w)
  BY <1>1, <1>5 DEF Reserve, ReturnTokensToTreasury, SubmitPayout, TransferFunds, Goal
<1>6. CASE CreatePayout(w) \/ RecordPayout(w) \/ BeginCompensation(w) \/ PollPayout(w)
  BY <1>1, <1>6 DEF CreatePayout, RecordPayout, BeginCompensation, PollPayout, Goal
<1>7. CASE Finalize(w) \/ MarkFinalized(w) \/ CheckReturnPending(w)
           \/ RecordReturnSignature(w) \/ ReturnCompleted(w) \/ ReturnFailed(w)
  BY <1>1, <1>7
  DEF Finalize, MarkFinalized, CheckReturnPending, RecordReturnSignature,
    ReturnCompleted, ReturnFailed, Goal
<1>8. CASE CompleteCompensation(w)
  <2>1. pc[w] # "idle"
    BY <1>8 DEF CompleteCompensation
  <2> QED
    BY <1>1, <1>3, <1>8, <2>1, CompensationCases DEF Goal
<1>9. CASE CheckReturn(w)
  BY <1>1, <1>3, <1>9 DEF CheckReturn, Goal
<1>10. CASE WorkerFault(w)
  BY <1>1, <1>2, <1>10 DEF WorkerFault, PayoutFails, SignFails, Abort, Crash, InTry, Goal
<1> QED
  BY <1>4, <1>5, <1>6, <1>7, <1>8, <1>9, <1>10 DEF HandlerStep, Goal

LEMMA LeaseStep ==
  ASSUME ~LeaseMayLapse, TypeOK, LeaseInv, [Next]_vars
  PROVE  LeaseInv'
<1>0. StepTypes /\ LeaseTypes
  BY TypeParts
<1>1. CASE UNCHANGED <<leaseVars, workerVars>>
  BY <1>1 DEF leaseVars, workerVars, LeaseInv
<1>2. ASSUME NEW o \in Operations, Lapse(o) PROVE LeaseInv'
  <2> SUFFICES ASSUME NEW v \in Workers, pc'[v] # "idle"
               PROVE  claimedBy'[op'[v]] = v /\ claimLive'[op'[v]]
    BY DEF LeaseInv
  <2>1. pc[v] # "idle" /\ op'[v] = op[v]
    BY <1>2 DEF Lapse, workerVars
  <2>2. claimedBy[op[v]] = v /\ claimLive[op[v]]
    BY <2>1 DEF LeaseInv
  <2>3. op[v] # o
    BY <1>2, <2>2 DEF Lapse
  <2> QED
    BY <1>0, <1>2, <2>1, <2>2, <2>3, BusyWorker DEF Lapse, LeaseTypes
<1>3. ASSUME NEW w \in Workers, NEW o \in Operations, Claim(w, o) PROVE LeaseInv'
  <2> SUFFICES ASSUME NEW v \in Workers, pc'[v] # "idle"
               PROVE  claimedBy'[op'[v]] = v /\ claimLive'[op'[v]]
    BY DEF LeaseInv
  <2>1. CASE v = w
    BY <1>0, <1>3, <2>1 DEF Claim, TakeLease, StepTypes, LeaseTypes
  <2>2. CASE v # w
    <3>1. pc[v] # "idle" /\ op'[v] = op[v]
      BY <1>0, <1>3, <2>2 DEF Claim, StepTypes
    <3>2. claimedBy[op[v]] = v /\ claimLive[op[v]] /\ op[v] # o
      BY <1>3, <3>1 DEF LeaseInv, Claim, TakeLease
    <3> QED
      BY <1>0, <1>3, <3>1, <3>2, BusyWorker DEF Claim, TakeLease, LeaseTypes
  <2> QED
    BY <2>1, <2>2
<1>4. ASSUME NEW w \in Workers, HandlerStep(w) \/ WorkerFault(w) PROVE LeaseInv'
  <2> SUFFICES ASSUME NEW v \in Workers, pc'[v] # "idle"
               PROVE  claimedBy'[op'[v]] = v /\ claimLive'[op'[v]]
    BY DEF LeaseInv
  <2>1. pc[v] # "idle" /\ op'[v] = op[v]
    BY <1>0, <1>4, WorkerMoves
  <2>2. claimedBy[op[v]] = v /\ claimLive[op[v]]
    BY <2>1 DEF LeaseInv
  <2>3. CASE UNCHANGED leaseVars
    BY <2>1, <2>2, <2>3 DEF leaseVars
  <2>4. CASE Release(w)
    <3>1. v # w
      BY <1>0, <2>4 DEF Release, Idle, StepTypes
    <3>2. op[v] # op[w]
      BY <1>0, <1>4, <2>1, <3>1, Alone, WorkerMoves
    <3> QED
      BY <1>0, <2>1, <2>2, <2>4, <3>2, BusyWorker
      DEF Release, DropLease, leaseVars, LeaseTypes
  <2> QED
    BY <1>4, <2>3, <2>4, WorkerKeepsLeases
<1>5. ASSUME NEW w \in Workers, Heartbeat(w) PROVE LeaseInv'
  <2>1. op[w] \in Operations
    BY <1>0, <1>5, BusyWorker DEF Heartbeat
  <2> QED
    BY <1>0, <1>5, <2>1, BusyWorker
    DEF Heartbeat, RenewLease, LeaseInv, LeaseTypes, workerVars
<1>6. CASE Next
  BY <1>1, <1>2, <1>3, <1>4, <1>5, <1>6
  DEF Next, Begin, RequestReserve, Resolve, Land, Die, ClaimRow, LeaseEnds, RenewsLease,
    PayoutEnds, PayoutWebhook
<1> QED
  BY <1>1, <1>6 DEF vars, leaseVars, workerVars

-------------------------------------------------------------------------------
(* What a row's status says, and what workers have read                    *)

\* Nothing that RowInv and WorkerInv say of a row has changed.
SameRow(o) ==
  /\ status'[o] = status[o]
  /\ attempt'[o] = attempt[o]
  /\ transferred'[o] = transferred[o]
  /\ payout'[o] = payout[o]
  /\ providerRef'[o] = providerRef[o]
  /\ o \in ledger' <=> o \in ledger

RowsKept == UNCHANGED <<status, attempt, transferred, payout, providerRef, ledger>>

LEMMA KeptIsSame ==
  ASSUME RowsKept, NEW o
  PROVE  SameRow(o)
BY DEF RowsKept, SameRow

LEMMA SameRowInv ==
  ASSUME NEW o, SameRow(o), RowInv(o)
  PROVE  RowInv(o)'
BY Zenon DEF SameRow, RowInv

\* The worker's own attempt, after it was set.
LEMMA MineSet ==
  ASSUME TypeOK, NEW w \in Workers, pc[w] # "idle", NEW state, SetMine(w, state)
  PROVE  /\ attempt'[op[w]][round[w]] = state
         /\ \A r \in Rounds \ {round[w]} : attempt'[op[w]][r] = attempt[op[w]][r]
         /\ \A o \in Operations \ {op[w]} : attempt'[o] = attempt[o]
<1>1. StepTypes /\ ChainTypes
  BY TypeParts
<1> QED
  BY <1>1, BusyWorker DEF SetMine, ChainTypes

\* A worker's step changes no row but that of its operation.
LEMMA WorkerRows ==
  ASSUME TypeOK, NEW w \in Workers, HandlerStep(w) \/ WorkerFault(w),
         NEW o \in Operations, o # op[w]
  PROVE  SameRow(o)
<1> USE DEF rowVars, chainVars, payoutVars, stripeVars
<1>0. /\ StepTypes /\ RowTypes /\ ChainTypes /\ PayoutTypes
      /\ pc[w] # "idle" /\ op[w] \in Operations
  BY TypeParts, WorkerMoves, BusyWorker
<1>a. ASSUME UNCHANGED <<attempt, transferred, payout, providerRef, ledger>>,
             status'[o] = status[o]
      PROVE  SameRow(o)
  BY <1>a DEF SameRow
<1>1. CASE RowsKept
  BY <1>1, KeptIsSame
<1>2. CASE Sign(w) /\ UNCHANGED payoutVars
  BY <1>0, <1>2, MineSet DEF Sign, SameRow
<1>3. CASE Broadcast(w) /\ UNCHANGED payoutVars
  BY <1>0, <1>3, MineSet DEF Broadcast, SameRow
<1>4. CASE RecoverPending(w) /\ UNCHANGED payoutVars
  BY <1>0, <1>4, MineSet DEF RecoverPending, SameRow
<1>5. CASE SignFails(w) /\ UNCHANGED payoutVars
  BY <1>0, <1>5, MineSet DEF SignFails, SameRow
<1>6. CASE CheckReturnPending(w)
  BY <1>0, <1>6, MineSet DEF CheckReturnPending, SameRow
<1>7. CASE (RecordSignature(w) \/ TransferCompleted(w)) /\ UNCHANGED payoutVars
  BY <1>0, <1>a, <1>7 DEF RecordSignature, TransferCompleted, MoveOrThrow, RowTypes
<1>8. CASE TransferFailed(w) /\ UNCHANGED payoutVars
  BY <1>0, <1>a, <1>8 DEF TransferFailed, ReleaseBalanceAndEnd, RowTypes
<1>9. CASE Reserve(w)
  BY <1>0, <1>a, <1>9 DEF Reserve, ReserveBalance, RowTypes
<1>10. CASE TransferFunds(w)
  BY <1>0, <1>10 DEF TransferFunds, SameRow, PayoutTypes
<1>11. CASE CreatePayout(w)
  BY <1>0, <1>11 DEF CreatePayout, StartPayout, SameRow, PayoutTypes
<1>12. CASE RecordPayout(w)
  <2>1. status'[o] = status[o] /\ UNCHANGED <<attempt, transferred, payout, ledger>>
    BY <1>0, <1>12 DEF RecordPayout, MoveOrThrow, RowTypes
  <2>2. providerRef'[o] = providerRef[o]
    BY <1>0, <1>12 DEF RecordPayout, PayoutTypes
  <2> QED
    BY <2>1, <2>2 DEF SameRow
<1>13. CASE PayoutFails(w)
  <2>1. UNCHANGED <<status, attempt, providerRef, ledger>>
    BY <1>13 DEF PayoutFails
  <2>2. transferred'[o] = transferred[o] /\ payout'[o] = payout[o]
    BY <1>0, <1>13 DEF PayoutFails, StartPayout, PayoutTypes
  <2> QED
    BY <2>1, <2>2 DEF SameRow
<1>14. CASE BeginCompensation(w) \/ MarkFinalized(w)
  BY <1>0, <1>a, <1>14 DEF BeginCompensation, MarkFinalized, MoveOrThrow, RowTypes
<1>15. CASE PollPayout(w)
  <2>1. status'[o] = status[o]
    BY <1>0, <1>15 DEF PollPayout, ApplyPayoutEvent, RowTypes
  <2> QED
    BY <1>a, <1>15, <2>1 DEF PollPayout
<1>16. CASE Finalize(w)
  <2>1. o \in ledger' <=> o \in ledger
    BY <1>0, <1>16 DEF Finalize, RecordOnce
  <2> QED
    BY <1>16, <2>1 DEF Finalize, SameRow
<1>17. CASE ReturnCompleted(w)
  BY <1>0, <1>a, <1>17 DEF ReturnCompleted, ReleaseBalanceAndEnd, RowTypes
<1>18. CASE ChainStep(w)
  BY <1>1, <1>2, <1>3, <1>4, <1>7, <1>8, <1>18
  DEF ChainStep, RowsKept, LookUp, CheckSaved, Confirm, ConfirmTimesOut, CheckChain,
    RecoverSettled, Release
<1>19. CASE WorkerFault(w)
  BY <1>1, <1>5, <1>13, <1>19 DEF WorkerFault, RowsKept, Abort, Crash
<1> QED
  BY <1>1, <1>6, <1>9, <1>10, <1>11, <1>12, <1>14, <1>15, <1>16, <1>17, <1>18, <1>19
  DEF HandlerStep, RowsKept, ReturnTokensToTreasury, SubmitPayout, CompleteCompensation,
    CheckReturn, RecordReturnSignature, ReturnFailed

\* A change of a row's status, and of nothing else that RowInv speaks of.
StatusOnly(o, s) ==
  /\ status'[o] = s
  /\ UNCHANGED <<attempt, transferred, payout, providerRef, ledger>>

\* RowInv is about the rows alone: what each change of status asks of it.
LEMMA StatusRow ==
  ASSUME NEW o, RowInv(o), NEW s, StatusOnly(o, s),
         \/ s = status[o]
         \/ status[o] = "absent" /\ s = "created"
         \/ status[o] = "created" /\ s \in {"reserved", "failed"}
         \/ status[o] = "reserved" /\ s = "chain_submitted"
         \/ status[o] = "chain_submitted" /\ s = "chain_confirmed" /\ attempt[o][0] = "landed"
         \/ status[o] = "chain_submitted" /\ s = "failed" /\ attempt[o][0] = "dead"
         \/ status[o] = "chain_confirmed" /\ s = "compensating"
         \/ status[o] = "payout_submitted" /\ s = "payout_settled"
         \/ status[o] = "payout_submitted" /\ s = "compensating" /\ payout[o] = "failed"
         \/ status[o] = "payout_settled" /\ s = "finalized"
         \/ status[o] = "compensating" /\ s = "reversed"
  PROVE  RowInv(o)'
<1>1. CASE s = status[o]
  BY <1>1, SameRowInv DEF StatusOnly, SameRow
<1>2. CASE status[o] = "absent" /\ s = "created"
  BY <1>2 DEF StatusOnly, RowInv, Irreversible, Compensated
<1>3. CASE status[o] = "created" /\ s \in {"reserved", "failed"}
  BY <1>3 DEF StatusOnly, RowInv, Irreversible, Compensated
<1>4. CASE status[o] = "reserved" /\ s = "chain_submitted"
  BY <1>4 DEF StatusOnly, RowInv, Irreversible, Compensated
<1>5. CASE status[o] = "chain_submitted" /\ s = "chain_confirmed" /\ attempt[o][0] = "landed"
  BY <1>5 DEF StatusOnly, RowInv, Irreversible, Compensated
<1>6. CASE status[o] = "chain_submitted" /\ s = "failed" /\ attempt[o][0] = "dead"
  BY <1>6 DEF StatusOnly, RowInv, Irreversible, Compensated
<1>7. CASE status[o] = "chain_confirmed" /\ s = "compensating"
  BY <1>7 DEF StatusOnly, RowInv, Irreversible, Compensated
<1>8. CASE status[o] = "payout_submitted" /\ s = "payout_settled"
  BY <1>8 DEF StatusOnly, RowInv, Irreversible, Compensated
<1>9. CASE status[o] = "payout_submitted" /\ s = "compensating" /\ payout[o] = "failed"
  BY <1>9 DEF StatusOnly, RowInv, Irreversible, Compensated
<1>10. CASE status[o] = "payout_settled" /\ s = "finalized"
  BY <1>10 DEF StatusOnly, RowInv, Irreversible, Compensated
<1>11. CASE status[o] = "compensating" /\ s = "reversed"
  BY <1>11 DEF StatusOnly, RowInv, Irreversible, Compensated
<1> QED
  BY <1>1, <1>2, <1>3, <1>4, <1>5, <1>6, <1>7, <1>8, <1>9, <1>10, <1>11

\* The effects of the services' methods on the status of one row.
LEMMA MoveStatus ==
  ASSUME RowTypes, NEW o \in Operations, NEW to, MoveOrThrow(o, to)
  PROVE  status'[o] = IF CanMove(o, to) THEN to ELSE status[o]
BY DEF RowTypes, MoveOrThrow

LEMMA ReserveStatus ==
  ASSUME RowTypes, NEW o \in Operations, ReserveBalance(o)
  PROVE  \/ status'[o] = status[o]
         \/ status[o] = "created" /\ status'[o] \in {"reserved", "failed"}
BY DEF RowTypes, ReserveBalance

LEMMA ReleaseStatus ==
  ASSUME RowTypes, NEW o \in Operations, NEW end, ReleaseBalanceAndEnd(o, end)
  PROVE  status'[o] = status[o] \/ (CanMove(o, end) /\ status'[o] = end)
BY DEF RowTypes, ReleaseBalanceAndEnd

LEMMA EventStatus ==
  ASSUME RowTypes, NEW o \in Operations, ApplyPayoutEvent(o)
  PROVE  \/ status'[o] = status[o]
         \/ status[o] = "payout_submitted" /\ status'[o] = "payout_settled"
         \/ /\ status[o] = "payout_submitted" /\ status'[o] = "compensating"
            /\ payout[o] = "failed"
<1>1. CASE ~providerRef[o] \/ status[o] # "payout_submitted"
  BY <1>1 DEF ApplyPayoutEvent
<1>2. CASE providerRef[o] /\ status[o] = "payout_submitted"
  <2>1. \/ status' = status
        \/ status' = [status EXCEPT ![o] = "payout_settled"]
        \/ payout[o] = "failed" /\ status' = [status EXCEPT ![o] = "compensating"]
    BY <1>2, Zenon DEF ApplyPayoutEvent
  <2> QED
    BY <1>2, <2>1 DEF RowTypes
<1> QED
  BY <1>1, <1>2

\* Signing or sending a transaction of the row's operation.
LEMMA SetRow ==
  ASSUME TypeOK, NEW w \in Workers, pc[w] # "idle", NEW o, o = op[w], RowInv(o),
         NEW state \in {"prepared", "broadcast"}, SetMine(w, state),
         UNCHANGED <<status, transferred, payout, providerRef, ledger>>,
         round[w] > 0 => status[o] \in Compensated,
         round[w] = 0 => Mine(w) = "prepared" \/ status[o] = "reserved"
  PROVE  RowInv(o)'
<1>0. /\ o \in Operations /\ round[w] \in Rounds
      /\ (round[w] = 0 \/ round[w] > 0) /\ 0 \in Rounds /\ 0 \notin Returns
      /\ Returns \subseteq Rounds
  BY TypeParts, BusyWorker, RoundsAndReturns
<1>1. /\ attempt'[o][round[w]] = state
      /\ \A r \in Rounds \ {round[w]} : attempt'[o][r] = attempt[o][r]
  BY MineSet
<1>2. CASE round[w] > 0
  <2>1. attempt'[o][0] = attempt[o][0]
    BY <1>0, <1>1, <1>2
  <2>2. status[o] \in Compensated
    BY <1>2
  <2> QED
    BY <2>1, <2>2 DEF RowInv
<1>3. CASE round[w] = 0
  <2>1. \A r \in Returns : attempt'[o][r] = attempt[o][r]
    BY <1>0, <1>1, <1>3
  <2>2. attempt[o][0] = "prepared" \/ status[o] = "reserved"
    BY <1>3 DEF Mine
  <2>3. status[o] \notin {"absent", "created", "failed"} \cup Irreversible \cup Compensated
          \cup {"finalized"}
    BY <2>2 DEF RowInv, Irreversible, Compensated
  <2> QED
    BY <2>1, <2>3 DEF RowInv
<1> QED
  BY <1>0, <1>2, <1>3

\* The row of the operation that a worker steps.
LEMMA OwnRow ==
  ASSUME TypeOK, NEW w \in Workers, HandlerStep(w) \/ WorkerFault(w), WorkerInv(w),
         NEW o, o = op[w], RowInv(o), attempt[o][0] = Mine(w) \/ round[w] > 0,
         round[w] \in Rounds
  PROVE  RowInv(o)'
<1> USE DEF rowVars, chainVars, payoutVars, stripeVars
<1>0. /\ StepTypes /\ RowTypes /\ ChainTypes /\ PayoutTypes
      /\ pc[w] # "idle" /\ o \in Operations
      /\ round[w] > 0 => status[o] \in Compensated
      /\ round[w] \in Nat
  BY TypeParts, WorkerMoves, BusyWorker, RoundsAndReturns DEF WorkerInv
<1>1. CASE RowsKept
  BY <1>1, KeptIsSame, SameRowInv
<1>a. ASSUME UNCHANGED <<attempt, transferred, payout, providerRef, ledger>>
      PROVE  StatusOnly(o, status'[o])
  BY <1>a DEF StatusOnly
<1>2. CASE Sign(w) /\ UNCHANGED payoutVars
  <2>1. round[w] = 0 => status[o] = "reserved"
    BY <1>2 DEF Sign, WorkerInv
  <2> QED
    BY <1>0, <1>1, <1>2, <2>1, SetRow DEF Sign, RowsKept
<1>3. CASE SignFails(w) /\ UNCHANGED payoutVars
  <2>1. round[w] = 0 => status[o] = "reserved"
    BY <1>3 DEF SignFails, WorkerInv
  <2> QED
    BY <1>0, <1>1, <1>3, <2>1, SetRow DEF SignFails, RowsKept
<1>4. CASE Broadcast(w) /\ UNCHANGED payoutVars
  BY <1>0, <1>1, <1>4, SetRow DEF Broadcast, RowsKept
<1>5. CASE RecoverPending(w) /\ UNCHANGED payoutVars
  BY <1>0, <1>1, <1>5, SetRow DEF RecoverPending, RowsKept
<1>6. CASE CheckReturnPending(w)
  BY <1>0, <1>1, <1>6, SetRow DEF CheckReturnPending, RowsKept
<1>7. CASE RecordSignature(w) /\ UNCHANGED payoutVars
  <2>1. status'[o] = status[o] \/ (status[o] = "reserved" /\ status'[o] = "chain_submitted")
    BY <1>0, <1>7, MoveStatus, WithdrawalMoves DEF RecordSignature
  <2> QED
    BY <1>0, <1>a, <1>7, <2>1, StatusRow DEF RecordSignature
<1>8. CASE TransferCompleted(w) /\ UNCHANGED payoutVars
  <2>1. \/ status'[o] = status[o]
        \/ status[o] = "chain_submitted" /\ status'[o] = "chain_confirmed"
    BY <1>0, <1>8, MoveStatus, WithdrawalMoves DEF TransferCompleted
  <2>2. attempt[o][0] = "landed"
    BY <1>8 DEF TransferCompleted, WorkerInv
  <2> QED
    BY <1>0, <1>a, <1>8, <2>1, <2>2, StatusRow DEF TransferCompleted
<1>9. CASE TransferFailed(w) /\ UNCHANGED payoutVars
  <2>1. CASE status[o] = "chain_submitted"
    <3>1. status'[o] = status[o] \/ status'[o] = "failed"
      BY <1>0, <1>9, <2>1, ReleaseStatus DEF TransferFailed
    <3>2. attempt[o][0] = "dead"
      BY <1>9, <2>1 DEF TransferFailed, WorkerInv
    <3> QED
      BY <1>0, <1>a, <1>9, <2>1, <3>1, <3>2, StatusRow DEF TransferFailed
  <2>2. CASE status[o] # "chain_submitted"
    BY <1>1, <1>9, <2>2 DEF TransferFailed, RowsKept
  <2> QED
    BY <2>1, <2>2
<1>10. CASE Reserve(w)
  BY <1>0, <1>a, <1>10, ReserveStatus, StatusRow DEF Reserve
<1>11. CASE TransferFunds(w)
  <2>1. status[o] = "chain_confirmed" /\ status' = status
    BY <1>11 DEF TransferFunds, WorkerInv, InTry
  <2>2. UNCHANGED <<attempt, payout, providerRef, ledger>>
    BY <1>11 DEF TransferFunds
  <2> QED
    BY <2>1, <2>2 DEF RowInv, Irreversible, Compensated
<1>12. CASE CreatePayout(w)
  <2>1. status[o] = "chain_confirmed" /\ status' = status
    BY <1>12 DEF CreatePayout, WorkerInv, InTry
  <2>2. UNCHANGED <<attempt, transferred, providerRef, ledger>>
    BY <1>12 DEF CreatePayout
  <2> QED
    BY <2>1, <2>2 DEF RowInv, Irreversible, Compensated
<1>13. CASE RecordPayout(w)
  <2>1. status[o] = "chain_confirmed" /\ CanMove(o, "payout_submitted")
    BY <1>0, <1>13, WithdrawalMoves DEF RecordPayout, WorkerInv, InTry
  <2>2. status'[o] = "payout_submitted"
    BY <1>0, <1>13, <2>1, MoveStatus DEF RecordPayout
  <2>3. UNCHANGED <<attempt, transferred, payout, ledger>>
    BY <1>13 DEF RecordPayout
  <2> QED
    BY <2>1, <2>2, <2>3 DEF RowInv, Irreversible, Compensated
<1>14. CASE PayoutFails(w)
  <2>1. status[o] = "chain_confirmed" /\ status' = status
    BY <1>14 DEF PayoutFails, WorkerInv
  <2>2. UNCHANGED <<attempt, providerRef, ledger>>
    BY <1>14 DEF PayoutFails
  <2> QED
    BY <2>1, <2>2 DEF RowInv, Irreversible, Compensated
<1>15. CASE BeginCompensation(w)
  <2>1. status[o] = "chain_confirmed"
    BY <1>15 DEF BeginCompensation, WorkerInv
  <2>2. status'[o] = status[o] \/ status'[o] = "compensating"
    BY <1>0, <1>15, MoveStatus DEF BeginCompensation
  <2> QED
    BY <1>0, <1>a, <1>15, <2>1, <2>2, StatusRow DEF BeginCompensation
<1>16. CASE PollPayout(w)
  BY <1>0, <1>a, <1>16, EventStatus, StatusRow DEF PollPayout
<1>17. CASE Finalize(w)
  <2>1. CASE status[o] = "payout_settled"
    BY <1>17, <2>1 DEF Finalize, RowInv
  <2>2. CASE status[o] # "payout_settled"
    BY <1>1, <1>17, <2>2 DEF Finalize, RowsKept
  <2> QED
    BY <2>1, <2>2
<1>18. CASE MarkFinalized(w)
  <2>1. status'[o] = status[o] \/ (status[o] = "payout_settled" /\ status'[o] = "finalized")
    BY <1>0, <1>18, MoveStatus, WithdrawalMoves DEF MarkFinalized
  <2> QED
    BY <1>0, <1>a, <1>18, <2>1, StatusRow DEF MarkFinalized
<1>19. CASE ReturnCompleted(w)
  <2>1. status'[o] = status[o] \/ (status[o] = "compensating" /\ status'[o] = "reversed")
    BY <1>0, <1>19, ReleaseStatus, WithdrawalMoves DEF ReturnCompleted
  <2> QED
    BY <1>0, <1>a, <1>19, <2>1, StatusRow DEF ReturnCompleted
<1>20. CASE ChainStep(w)
  BY <1>1, <1>2, <1>4, <1>5, <1>7, <1>8, <1>9, <1>20
  DEF ChainStep, RowsKept, LookUp, CheckSaved, Confirm, ConfirmTimesOut, CheckChain,
    RecoverSettled, Release
<1>21. CASE WorkerFault(w)
  BY <1>1, <1>3, <1>14, <1>21 DEF WorkerFault, RowsKept, Abort, Crash
<1> QED
  BY <1>1, <1>6, <1>10, <1>11, <1>12, <1>13, <1>15, <1>16, <1>17, <1>18, <1>19, <1>20, <1>21
  DEF HandlerStep, RowsKept, ReturnTokensToTreasury, SubmitPayout, CompleteCompensation,
    CheckReturn, RecordReturnSignature, ReturnFailed

\* The steps that are not a worker's.
LEMMA OutsideRow ==
  ASSUME TypeOK, NEW o \in Operations, RowInv(o), NEW p \in Operations,
         \/ Begin(p) \/ RequestReserve(p) \/ LeaseEnds(p) \/ PayoutEnds(p)
         \/ PayoutWebhook(p) \/ \E r \in Rounds : Resolve(p, r)
  PROVE  RowInv(o)'
<1> USE DEF rowVars, chainVars, payoutVars, stripeVars
<1>0. RowTypes /\ ChainTypes /\ PayoutTypes
  BY TypeParts
<1>a. ASSUME UNCHANGED <<attempt, transferred, payout, providerRef, ledger>>
      PROVE  StatusOnly(o, status'[o])
  BY <1>a DEF StatusOnly
<1>1. CASE Begin(p)
  <2>1. status'[o] = status[o] \/ (status[o] = "absent" /\ status'[o] = "created")
    BY <1>0, <1>1 DEF Begin, InsertRow, RowTypes
  <2> QED
    BY <1>a, <1>1, <2>1, StatusRow DEF Begin
<1>2. CASE RequestReserve(p)
  <2>1. \/ status'[o] = status[o]
        \/ status[o] = "created" /\ status'[o] \in {"reserved", "failed"}
    BY <1>0, <1>2 DEF RequestReserve, ReserveBalance, RowTypes
  <2> QED
    BY <1>a, <1>2, <2>1, StatusRow DEF RequestReserve
<1>3. CASE LeaseEnds(p)
  BY <1>3, KeptIsSame, SameRowInv DEF LeaseEnds, Lapse, RowsKept
<1>4. CASE PayoutEnds(p)
  <2>1. UNCHANGED <<status, attempt, transferred, providerRef, ledger>>
    BY <1>4 DEF PayoutEnds
  <2>2. payout'[o] = payout[o] \/ (payout[o] = "pending" /\ payout'[o] # "none")
    BY <1>0, <1>4 DEF PayoutEnds, PayoutTypes
  <2> QED
    BY <2>1, <2>2 DEF RowInv
<1>5. CASE PayoutWebhook(p)
  <2>1. \/ status'[o] = status[o]
        \/ status[o] = "payout_submitted" /\ status'[o] = "payout_settled"
        \/ /\ status[o] = "payout_submitted" /\ status'[o] = "compensating"
           /\ payout[o] = "failed"
    <3>1. CASE o = p
      BY <1>0, <1>5, <3>1, EventStatus DEF PayoutWebhook
    <3>2. CASE o # p
      BY <1>0, <1>5, <3>2 DEF PayoutWebhook, ApplyPayoutEvent, RowTypes
    <3> QED
      BY <3>1, <3>2
  <2> QED
    BY <1>a, <1>5, <2>1, StatusRow DEF PayoutWebhook
<1>6. ASSUME NEW r \in Rounds, Resolve(p, r) PROVE RowInv(o)'
  <2>1. UNCHANGED <<status, transferred, payout, providerRef, ledger>>
    BY <1>6 DEF Resolve, Land, Die
  <2>2. \A q \in Rounds : \/ attempt'[o][q] = attempt[o][q]
                          \/ /\ attempt[o][q] \in {"prepared", "broadcast"}
                             /\ attempt'[o][q] \in {"landed", "dead"}
    BY <1>0, <1>6 DEF Resolve, Land, Die, ChainTypes
  <2>3. 0 \in Rounds /\ Returns \subseteq Rounds
    BY RoundsAndReturns
  <2> QED
    BY <2>1, <2>2, <2>3 DEF RowInv, Irreversible, Compensated
<1> QED
  BY <1>1, <1>2, <1>3, <1>4, <1>5, <1>6

LEMMA RowStep ==
  ASSUME TypeOK, WithdrawalInv, [Next]_vars, NEW o \in Operations
  PROVE  RowInv(o)'
<1>0. RowInv(o) /\ StepTypes /\ ReturnInv
  BY TypeParts DEF WithdrawalInv
<1>1. CASE RowsKept
  BY <1>0, <1>1, KeptIsSame, SameRowInv
<1>2. ASSUME NEW w \in Workers, HandlerStep(w) \/ WorkerFault(w) PROVE RowInv(o)'
  <2>1. CASE o # op[w]
    BY <1>0, <1>2, <2>1, WorkerRows, SameRowInv
  <2>2. CASE o = op[w]
    <3>1. WorkerInv(w) /\ round[w] \in Rounds /\ (round[w] = 0 \/ round[w] > 0)
      BY <1>0, RoundsAndReturns DEF WithdrawalInv, StepTypes
    <3>2. attempt[o][0] = Mine(w) \/ round[w] > 0
      BY <2>2, <3>1 DEF Mine
    <3> QED
      BY <1>0, <1>2, <2>2, <3>1, <3>2, OwnRow
  <2> QED
    BY <2>1, <2>2
<1>3. CASE Next
  BY <1>0, <1>1, <1>2, <1>3, OutsideRow
  DEF Next, ClaimRow, Claim, RenewsLease, Heartbeat, RowsKept, rowVars, chainVars,
    payoutVars, stripeVars
<1> QED
  BY <1>1, <1>3
  DEF vars, RowsKept, rowVars, chainVars, payoutVars, stripeVars

\* A worker that makes no step keeps its part of the invariant while its row does
\* not leave the statuses it may rely on and its transactions are final.
LEMMA RestingWorker ==
  ASSUME NEW v \in Workers, WorkerInv(v), NEW o, o = op[v], round[v] \in Rounds, 0 \in Rounds,
         pc'[v] = pc[v], op'[v] = op[v], round'[v] = round[v],
         ledger \subseteq ledger',
         \/ status'[o] = status[o]
         \/ status[o] \notin {"reserved", "chain_confirmed"} \cup Compensated,
         \A r \in Rounds : attempt[o][r] \in {"dead", "landed"} =>
                             attempt'[o][r] = attempt[o][r]
  PROVE  WorkerInv(v)'
BY DEF WorkerInv, Mine

\* An idle worker relies on nothing.
LEMMA IdleWorker ==
  ASSUME NEW v \in Workers, pc'[v] = "idle", round'[v] = 0
  PROVE  WorkerInv(v)'
BY DEF WorkerInv, InTry

\* Compensation is not abandoned.
LEMMA CompensatedStays ==
  ASSUME TypeOK, NEW w \in Workers, HandlerStep(w) \/ WorkerFault(w),
         op[w] \in Operations, status[op[w]] \in Compensated
  PROVE  status'[op[w]] \in Compensated
<1> USE DEF rowVars
<1>0. RowTypes /\ status[op[w]] \in {"compensating", "reversed"}
  BY TypeParts DEF Compensated
<1>1. CASE status' = status
  BY <1>1
<1>2. CASE RecordSignature(w) \/ TransferCompleted(w) \/ RecordPayout(w) \/ MarkFinalized(w)
  BY <1>0, <1>2, MoveStatus, WithdrawalMoves
  DEF RecordSignature, TransferCompleted, RecordPayout, MarkFinalized
<1>3. CASE TransferFailed(w) \/ Reserve(w)
  BY <1>0, <1>3 DEF TransferFailed, Reserve, ReserveBalance
<1>4. CASE BeginCompensation(w)
  BY <1>0, <1>4, MoveStatus DEF BeginCompensation, Compensated
<1>5. CASE PollPayout(w)
  BY <1>0, <1>5, EventStatus DEF PollPayout
<1>6. CASE ReturnCompleted(w)
  BY <1>0, <1>6, ReleaseStatus DEF ReturnCompleted, Compensated
<1>7. CASE ChainStep(w)
  BY <1>1, <1>2, <1>3, <1>7
  DEF ChainStep, LookUp, Sign, CheckSaved, Broadcast, Confirm, ConfirmTimesOut, CheckChain,
    RecoverSettled, RecoverPending, Release
<1>8. CASE WorkerFault(w)
  BY <1>1, <1>8 DEF WorkerFault, PayoutFails, SignFails, Abort, Crash
<1> QED
  BY <1>1, <1>2, <1>3, <1>4, <1>5, <1>6, <1>7, <1>8
  DEF HandlerStep, ReturnTokensToTreasury, SubmitPayout, TransferFunds, CreatePayout,
    Finalize, CompleteCompensation, CheckReturn, CheckReturnPending, RecordReturnSignature,
    ReturnFailed

\* Steps at which a worker relies on what it has read.
Relying ==
  {"look_up", "sign", "unsaved", "failed", "completed", "recorded", "payout_error"} \cup InTry

\* What a worker that goes on to a step has to know there.
LEMMA GotoWorker ==
  ASSUME StepTypes, NEW w \in Workers, pc[w] # "idle", NEW o, o = op[w],
         NEW step, Goto(w, step),
         round[w] > 0 => status'[o] \in Compensated,
         step \in {"look_up", "sign", "unsaved"} /\ round[w] = 0 => status'[o] = "reserved",
         step = "failed" /\ round[w] = 0 => status'[o] = "reserved" \/ attempt'[o][0] = "dead",
         step = "completed" => attempt'[o][round[w]] = "landed",
         step \in InTry \cup {"payout_error"} => status'[o] = "chain_confirmed",
         step = "recorded" => o \in ledger'
  PROVE  WorkerInv(w)'
<1>1. pc'[w] = step /\ op'[w] = o /\ round'[w] = round[w]
  BY DEF Goto, StepTypes
<1> QED
  BY <1>1 DEF WorkerInv, Mine

LEMMA QuietGoto ==
  ASSUME StepTypes, NEW w \in Workers, pc[w] # "idle", NEW step, Goto(w, step),
         step \notin Relying, round[w] > 0 => status'[op[w]] \in Compensated
  PROVE  WorkerInv(w)'
BY GotoWorker DEF Relying

\* The part of the worker that makes the step.
LEMMA OwnWorker ==
  ASSUME TypeOK, ReturnInv, NEW w \in Workers, WorkerInv(w), HandlerStep(w) \/ WorkerFault(w)
  PROVE  WorkerInv(w)'
<1> USE DEF rowVars, chainVars
<1>0. /\ StepTypes /\ pc[w] # "idle" /\ op[w] \in Operations /\ round[w] \in Rounds
      /\ round[w] > 0 => status'[op[w]] \in Compensated
  BY TypeParts, WorkerMoves, BusyWorker, CompensatedStays DEF WorkerInv
<1>a. ASSUME Idle(w) PROVE WorkerInv(w)'
  <2>1. pc'[w] = "idle" /\ round'[w] = 0
    BY <1>0, <1>a DEF Idle, StepTypes
  <2> QED
    BY <2>1, IdleWorker
<1>b. ASSUME NEW step, Goto(w, step), step \notin Relying PROVE WorkerInv(w)'
  BY <1>0, <1>b, QuietGoto
<1>c. "release" \notin Relying
  BY DEF Relying, InTry
<1>1. CASE ReturnTokensToTreasury(w)
  BY <1>0, <1>1, GotoWorker DEF ReturnTokensToTreasury, InTry
<1>2. CASE LookUp(w)
  BY <1>0, <1>2, GotoWorker DEF LookUp, InTry, WorkerInv
<1>3. CASE Sign(w)
  BY <1>0, <1>3, GotoWorker DEF Sign, InTry, WorkerInv
<1>4. CASE SignFails(w)
  BY <1>0, <1>4, GotoWorker DEF SignFails, InTry, WorkerInv
<1>5. CASE CheckSaved(w)
  BY <1>0, <1>5, GotoWorker DEF CheckSaved, InTry, WorkerInv
<1>6. CASE Confirm(w)
  BY <1>0, <1>6, GotoWorker DEF Confirm, InTry, Mine
<1>7. CASE RecoverSettled(w)
  BY <1>0, <1>7, GotoWorker DEF RecoverSettled, InTry, Mine
<1>8. CASE RecordSignature(w)
  BY <1>b, <1>8 DEF RecordSignature, Relying, InTry
<1>9. CASE Broadcast(w) \/ ConfirmTimesOut(w) \/ CheckChain(w) \/ RecoverPending(w)
           \/ TransferCompleted(w) \/ TransferFailed(w)
  BY <1>b, <1>9
  DEF Broadcast, ConfirmTimesOut, CheckChain, RecoverPending, TransferCompleted,
    TransferFailed, Relying, InTry
<1>10. CASE Release(w) \/ Crash(w)
  BY <1>a, <1>10 DEF Release, Crash
<1>11. CASE SubmitPayout(w)
  BY <1>0, <1>11, GotoWorker DEF SubmitPayout, InTry
<1>12. CASE TransferFunds(w)
  BY <1>0, <1>12, GotoWorker DEF TransferFunds, InTry, WorkerInv
<1>13. CASE CreatePayout(w)
  BY <1>0, <1>13, GotoWorker DEF CreatePayout, InTry, WorkerInv
<1>14. CASE RecordPayout(w)
  <2>1. CanMove(op[w], "payout_submitted")
    BY <1>0, <1>14, WithdrawalMoves DEF RecordPayout, WorkerInv, InTry
  <2> QED
    BY <1>b, <1>c, <1>14, <2>1 DEF RecordPayout
<1>15. CASE PayoutFails(w)
  BY <1>0, <1>15, GotoWorker DEF PayoutFails, InTry, WorkerInv
<1>16. CASE Finalize(w)
  <2>1. CASE status[op[w]] = "payout_settled" /\ CanRecord(op[w])
    <3>1. op[w] \in ledger' /\ Goto(w, "recorded")
      BY <1>16, <2>1 DEF Finalize, RecordOnce
    <3> QED
      BY <1>0, <3>1, GotoWorker DEF InTry
  <2>2. CASE ~(status[op[w]] = "payout_settled" /\ CanRecord(op[w]))
    BY <1>b, <1>c, <1>16, <2>2 DEF Finalize
  <2> QED
    BY <2>1, <2>2
<1>17. CASE CompleteCompensation(w)
  <2>1. ASSUME status[op[w]] = "compensating", NEW r \in Rounds, r > 0,
               NEW step \in {"look_up", "check_return"}, ResumeReturn(w, step, r)
        PROVE  WorkerInv(w)'
    <3>1. pc'[w] = step /\ op'[w] = op[w] /\ round'[w] = r /\ r # 0
      BY <1>0, <2>1, RoundsAndReturns DEF ResumeReturn, StepTypes
    <3>2. status'[op[w]] \in Compensated
      BY <1>17, <2>1 DEF CompleteCompensation, Compensated
    <3> QED
      BY <3>1, <3>2 DEF WorkerInv, InTry
  <2>2. compensationSignature[op[w]] \in Rounds /\ 1 \in Rounds
    BY <1>0, TypeParts, RoundsAndReturns DEF PayoutTypes
  <2>3. compensationSignature[op[w]] # 0 => compensationSignature[op[w]] > 0
    BY <2>2, RoundsAndReturns
  <2> QED
    BY <1>b, <1>c, <1>17, <2>1, <2>2, <2>3, CompensationCases
<1>18. CASE CheckReturn(w)
  <2>1. CASE Mine(w) = "landed" /\ Goto(w, "completed")
    BY <1>0, <1>18, <2>1, GotoWorker DEF CheckReturn, InTry, Mine
  <2>2. CASE ResumeReturn(w, "look_up", round[w] + 1)
    <3>1. /\ pc'[w] = "look_up" /\ op'[w] = op[w] /\ round'[w] = round[w] + 1
          /\ round[w] > 0 /\ round[w] + 1 # 0
      BY <1>0, <1>18, <2>2, RoundsAndReturns DEF CheckReturn, ResumeReturn, StepTypes, ReturnInv
    <3> QED
      BY <1>0, <3>1 DEF WorkerInv, InTry
  <2> QED
    BY <1>18, <2>1, <2>2 DEF CheckReturn
<1>19. CASE RecordReturnSignature(w)
  BY <1>b, <1>19 DEF RecordReturnSignature, Relying, InTry
<1>20. CASE Reserve(w) \/ BeginCompensation(w) \/ PollPayout(w) \/ MarkFinalized(w)
            \/ CheckReturnPending(w) \/ ReturnCompleted(w) \/ ReturnFailed(w) \/ Abort(w)
  BY <1>b, <1>c, <1>20
  DEF Reserve, BeginCompensation, PollPayout, MarkFinalized, CheckReturnPending,
    ReturnCompleted, ReturnFailed, Abort
<1>21. CASE ChainStep(w)
  BY <1>2, <1>3, <1>5, <1>6, <1>7, <1>8, <1>9, <1>10, <1>21 DEF ChainStep
<1>22. CASE WorkerFault(w)
  BY <1>4, <1>10, <1>15, <1>20, <1>22 DEF WorkerFault
<1> QED
  BY <1>1, <1>11, <1>12, <1>13, <1>14, <1>16, <1>17, <1>18, <1>19, <1>20, <1>21, <1>22
  DEF HandlerStep

LEMMA WorkerStep ==
  ASSUME TypeOK, WithdrawalInv, [Next]_vars, NEW v \in Workers
  PROVE  WorkerInv(v)'
<1> USE DEF workerVars
<1>0. /\ StepTypes /\ RowTypes /\ ChainTypes /\ WorkerInv(v) /\ ReturnInv /\ LeaseInv
      /\ round[v] \in Rounds /\ 0 \in Rounds
      /\ pc[v] # "idle" => op[v] \in Operations
  BY TypeParts, RoundsAndReturns, BusyWorker DEF WithdrawalInv, StepTypes
<1>1. CASE UNCHANGED <<status, attempt, ledger, workerVars>>
  BY <1>0, <1>1, RestingWorker
<1>2. ASSUME NEW w \in Workers, HandlerStep(w) \/ WorkerFault(w) PROVE WorkerInv(v)'
  <2>1. CASE v = w
    BY <1>0, <1>2, <2>1, OwnWorker
  <2>2. CASE v # w /\ pc[v] = "idle"
    BY <1>0, <1>2, <2>2, WorkerMoves, IdleWorker DEF ReturnInv
  <2>3. CASE v # w /\ pc[v] # "idle"
    <3>1. /\ pc'[v] = pc[v] /\ op'[v] = op[v] /\ round'[v] = round[v]
          /\ op[v] # op[w]
      BY <1>0, <1>2, <2>3, WorkerMoves, Alone
    <3>2. SameRow(op[v])
      BY <1>0, <1>2, <2>3, <3>1, WorkerRows
    <3> QED
      BY <1>0, <3>1, <3>2 DEF SameRow, WorkerInv, Mine
  <2> QED
    BY <2>1, <2>2, <2>3
<1>3. ASSUME NEW w \in Workers, NEW o \in Operations, ClaimRow(w, o) PROVE WorkerInv(v)'
  <2>1. UNCHANGED <<status, attempt, ledger, round>>
    BY <1>3 DEF ClaimRow, Claim, rowVars, chainVars
  <2>2. CASE v # w
    BY <1>0, <1>3, <2>1, <2>2 DEF ClaimRow, Claim, StepTypes, WorkerInv, Mine
  <2>3. CASE v = w
    <3>1. pc'[v] = ResumeAction(Kind[o], status[o]) /\ round'[v] = 0
      BY <1>0, <1>3, <2>1, <2>3 DEF ClaimRow, Claim, StepTypes, ReturnInv
    <3>2. ResumeAction(Kind[o], status[o]) \notin Relying
      BY DEF ResumeAction, Relying, InTry
    <3> QED
      BY <3>1, <3>2 DEF WorkerInv, Relying
  <2> QED
    BY <2>2, <2>3
<1>4. ASSUME NEW p \in Operations, Begin(p) \/ RequestReserve(p) \/ PayoutWebhook(p)
      PROVE  WorkerInv(v)'
  <2>1. UNCHANGED <<attempt, ledger, workerVars>>
    BY <1>4 DEF Begin, RequestReserve, PayoutWebhook, chainVars
  <2>2. CASE pc[v] = "idle"
    BY <1>0, <2>1, <2>2, IdleWorker DEF ReturnInv
  <2>3. CASE pc[v] # "idle"
    <3>1. \/ status'[op[v]] = status[op[v]]
          \/ status[op[v]] \in {"absent", "created", "payout_submitted"}
      BY <1>0, <1>4, <2>3
      DEF Begin, InsertRow, RequestReserve, ReserveBalance, PayoutWebhook, ApplyPayoutEvent,
        RowTypes
    <3> QED
      BY <1>0, <2>1, <3>1, RestingWorker DEF Compensated
  <2> QED
    BY <2>2, <2>3
<1>5. ASSUME NEW p \in Operations, NEW r \in Rounds, Resolve(p, r) PROVE WorkerInv(v)'
  <2>1. UNCHANGED <<status, ledger, workerVars>>
    BY <1>5 DEF Resolve, Land, Die, rowVars
  <2>2. CASE pc[v] = "idle"
    BY <1>0, <2>1, <2>2, IdleWorker DEF ReturnInv
  <2>3. CASE pc[v] # "idle"
    <3>1. \A q \in Rounds : attempt[op[v]][q] \in {"dead", "landed"} =>
                              attempt'[op[v]][q] = attempt[op[v]][q]
      BY <1>0, <1>5, <2>3 DEF Resolve, Land, Die, ChainTypes
    <3> QED
      BY <1>0, <2>1, <3>1, RestingWorker
  <2> QED
    BY <2>2, <2>3
<1>6. CASE Next
  BY <1>1, <1>2, <1>3, <1>4, <1>5, <1>6
  DEF Next, LeaseEnds, Lapse, PayoutEnds, RenewsLease, Heartbeat, rowVars, chainVars
<1> QED
  BY <1>1, <1>6 DEF vars, rowVars, chainVars

LEMMA WithdrawalInit == Init => WithdrawalInv
<1> SUFFICES ASSUME Init PROVE WithdrawalInv
  OBVIOUS
<1>0. ReturnInv /\ 0 \in Rounds /\ Returns \subseteq Rounds
  BY ReturnInit, RoundsAndReturns
<1>1. LeaseInv
  BY DEF Init, ChainInit, LeaseInv
<1>2. ASSUME NEW o \in Operations PROVE RowInv(o)
  BY <1>0 DEF Init, RowsInit, ChainInit, RowInv, Irreversible, Compensated
<1>3. ASSUME NEW w \in Workers PROVE WorkerInv(w)
  BY DEF Init, ChainInit, WorkerInv, InTry
<1> QED
  BY <1>0, <1>1, <1>2, <1>3 DEF WithdrawalInv

LEMMA WithdrawalInvStep ==
  ASSUME ~LeaseMayLapse, TypeOK, WithdrawalInv, [Next]_vars
  PROVE  WithdrawalInv'
<1>1. ReturnInv' /\ LeaseInv'
  BY ReturnStep, LeaseStep DEF WithdrawalInv
<1>2. \A o \in Operations : RowInv(o)'
  BY RowStep
<1>3. \A w \in Workers : WorkerInv(w)'
  BY WorkerStep
<1> QED
  BY <1>1, <1>2, <1>3 DEF WithdrawalInv

\* With leases that hold, the types and the whole invariant.
LEMMA WithdrawalInductive ==
  ASSUME ~LeaseMayLapse
  PROVE  Spec => [](TypeOK /\ WithdrawalInv)
<1>1. Init => TypeOK /\ WithdrawalInv
  BY InitTypes, WithdrawalInit
<1>2. TypeOK /\ WithdrawalInv /\ [Next]_vars => TypeOK' /\ WithdrawalInv'
  <2> SUFFICES ASSUME TypeOK, WithdrawalInv, [Next]_vars PROVE TypeOK' /\ WithdrawalInv'
    OBVIOUS
  <2>1. ReturnInv
    BY DEF WithdrawalInv
  <2> QED
    BY <2>1, NextTypes, WithdrawalInvStep
<1> QED
  BY <1>1, <1>2, PTL DEF Spec

\* While no live worker loses its lease, a withdrawal reported as failed has
\* moved nothing: its tokens never left, Stripe transferred and pays nothing.
THEOREM FailedMovedNothing ==
  ASSUME ~LeaseMayLapse
  PROVE  Spec => []FailureMovedNothing
<1>1. TypeOK /\ WithdrawalInv => FailureMovedNothing
  BY DEF WithdrawalInv, RowInv, FailureMovedNothing, Irreversible, Compensated
<1> QED
  BY <1>1, WithdrawalInductive, PTL

\* While no live worker loses its lease, the tokens of a withdrawal whose payout
\* is on record come back only when that payout has failed, even when the
\* errors submitPayout sees do not say whether its calls took effect.
THEOREM ReturnNeedsFailedPayout ==
  ASSUME ~LeaseMayLapse
  PROVE  Spec => []ReturnedOnlyIfPayoutFailed
<1>1. TypeOK /\ WithdrawalInv => ReturnedOnlyIfPayoutFailed
  BY DEF WithdrawalInv, RowInv, ReturnedOnlyIfPayoutFailed, Returned
<1> QED
  BY <1>1, WithdrawalInductive, PTL

-------------------------------------------------------------------------------
(* What is set aside adds up                                               *)

SetsAside(o) ==
  /\ ~HoldsReservation(o) /\ HoldsReservation(o)'
  /\ pending' = Shift(pending, Source[o], Amount[o])

GivesUp(o) ==
  /\ HoldsReservation(o) /\ ~HoldsReservation(o)'
  /\ pending' = Less(pending, Source[o], Amount[o])

ReservationStep ==
  \/ pending' = pending /\ \A o \in Operations : HoldsReservation(o)' = HoldsReservation(o)
  \/ \E o \in Operations :
       /\ SetsAside(o) \/ GivesUp(o)
       /\ \A p \in Operations \ {o} : HoldsReservation(p)' = HoldsReservation(p)

\* A status that changes on its own keeps what the row holds.
LEMMA QuietMove ==
  ASSUME RowTypes, UNCHANGED <<pending, ledger>>, NEW o \in Operations,
         \A p \in Operations \ {o} : status'[p] = status[p],
         \/ status'[o] = status[o]
         \/ status[o] \in InFlight \ {"created"} /\ status'[o] \in InFlight \ {"created"}
         \/ status[o] \notin InFlight \ {"created"} /\ status'[o] \notin InFlight \ {"created"}
         \/ o \in ledger
  PROVE  ReservationStep
BY DEF ReservationStep, HoldsReservation

LEMMA ReserveMoves ==
  ASSUME TypeOK, NEW o \in Operations, RowInv(o), ReserveBalance(o), UNCHANGED ledger
  PROVE  ReservationStep
<1>0. RowTypes /\ Source[o] # Treasury
  BY TypeParts, WithdrawalKind
<1>1. CASE status[o] # "created"
  BY <1>0, <1>1, QuietMove DEF ReserveBalance, balanceVars
<1>2. CASE status[o] = "created" /\ ~(available[Source[o]] >= Amount[o])
  BY <1>0, <1>2, QuietMove DEF ReserveBalance, balanceVars, RowTypes, InFlight
<1>3. CASE status[o] = "created" /\ available[Source[o]] >= Amount[o]
  <2>1. o \notin ledger
    BY <1>3 DEF RowInv
  <2>2. /\ status' = [status EXCEPT ![o] = "reserved"]
        /\ pending' = Shift(pending, Source[o], Amount[o])
    BY <1>3 DEF ReserveBalance
  <2>3. SetsAside(o)
    BY <1>0, <1>3, <2>1, <2>2 DEF SetsAside, HoldsReservation, RowTypes, InFlight
  <2>4. \A p \in Operations \ {o} : HoldsReservation(p)' = HoldsReservation(p)
    BY <1>0, <2>2 DEF HoldsReservation, RowTypes
  <2> QED
    BY <2>3, <2>4 DEF ReservationStep
<1> QED
  BY <1>1, <1>2, <1>3

\* A withdrawal gives its reservation back when it fails and when it is reversed.
LEMMA ReleaseMoves ==
  ASSUME TypeOK, NEW o \in Operations, RowInv(o), NEW end \in {"failed", "reversed"},
         end = "failed" => status[o] = "chain_submitted",
         ReleaseBalanceAndEnd(o, end), UNCHANGED ledger
  PROVE  ReservationStep
<1>0. RowTypes /\ Source[o] # Treasury
  BY TypeParts, WithdrawalKind
<1>1. CASE UNCHANGED <<status, balanceVars>>
  BY <1>0, <1>1, QuietMove DEF balanceVars
<1>2. CASE ~UNCHANGED <<status, balanceVars>>
  <2>1. status[o] \in {"chain_submitted", "compensating"}
    BY <1>2, WithdrawalMoves DEF ReleaseBalanceAndEnd
  <2>2. o \notin ledger
    BY <2>1 DEF RowInv
  <2>3. /\ status' = [status EXCEPT ![o] = end]
        /\ pending' = Less(pending, Source[o], Amount[o])
    BY <1>2 DEF ReleaseBalanceAndEnd
  <2>4. GivesUp(o)
    BY <1>0, <2>1, <2>2, <2>3 DEF GivesUp, HoldsReservation, RowTypes, InFlight
  <2>5. \A p \in Operations \ {o} : HoldsReservation(p)' = HoldsReservation(p)
    BY <1>0, <2>3 DEF HoldsReservation, RowTypes
  <2> QED
    BY <2>4, <2>5 DEF ReservationStep
<1> QED
  BY <1>1, <1>2

LEMMA RecordMoves ==
  ASSUME TypeOK, NEW o \in Operations, status[o] = "payout_settled",
         RecordOnce(o), UNCHANGED status
  PROVE  ReservationStep
<1>0. RowTypes /\ Source[o] # Treasury
  BY TypeParts, WithdrawalKind
<1>1. CASE UNCHANGED <<ledger, balanceVars>>
  BY <1>0, <1>1, QuietMove DEF balanceVars
<1>2. CASE ~UNCHANGED <<ledger, balanceVars>>
  <2>1. /\ o \notin ledger
        /\ ledger' = ledger \cup {o}
        /\ pending' = Less(pending, Source[o], Amount[o])
    BY <1>0, <1>2 DEF RecordOnce
  <2>2. GivesUp(o)
    BY <1>0, <2>1 DEF GivesUp, HoldsReservation, RowTypes, InFlight
  <2>3. \A p \in Operations \ {o} : HoldsReservation(p)' = HoldsReservation(p)
    BY <2>1 DEF HoldsReservation
  <2> QED
    BY <2>2, <2>3 DEF ReservationStep
<1> QED
  BY <1>1, <1>2

LEMMA OneMoves ==
  ASSUME TypeOK, WithdrawalInv, [Next]_vars
  PROVE  ReservationStep
<1> USE DEF rowVars, balanceVars
<1>0. /\ RowTypes /\ StepTypes
      /\ \A o \in Operations : RowInv(o)
      /\ \A w \in Workers : WorkerInv(w)
  BY TypeParts DEF WithdrawalInv
<1>1. ASSUME UNCHANGED <<status, pending, ledger>> PROVE ReservationStep
  BY <1>1 DEF ReservationStep, HoldsReservation
<1>2. CASE UNCHANGED vars
  BY <1>1, <1>2 DEF vars
<1>3. ASSUME NEW o \in Operations, Begin(o) \/ RequestReserve(o) \/ PayoutWebhook(o)
      PROVE  ReservationStep
  <2>1. CASE Begin(o)
    BY <1>0, <2>1, QuietMove DEF Begin, InsertRow, RowTypes, InFlight
  <2>2. CASE RequestReserve(o)
    BY <1>0, <2>2, ReserveMoves DEF RequestReserve
  <2>3. CASE PayoutWebhook(o)
    <3>1. \A p \in Operations \ {o} : status'[p] = status[p]
      BY <1>0, <2>3 DEF PayoutWebhook, ApplyPayoutEvent, RowTypes
    <3> QED
      BY <1>0, <2>3, <3>1, EventStatus, QuietMove DEF PayoutWebhook, InFlight
  <2> QED
    BY <1>3, <2>1, <2>2, <2>3
<1>4. ASSUME NEW w \in Workers, HandlerStep(w) \/ WorkerFault(w) PROVE ReservationStep
  <2>0. op[w] \in Operations
    BY <1>0, <1>4, WorkerMoves, BusyWorker
  <2>a. ASSUME NEW to, MoveOrThrow(op[w], to), UNCHANGED <<pending, ledger>>,
               \/ to \in {"chain_submitted", "chain_confirmed", "payout_submitted", "compensating"}
                  /\ (CanMove(op[w], to) => status[op[w]] \in InFlight \ {"created"})
               \/ op[w] \in ledger
        PROVE  ReservationStep
    <3>1. \A p \in Operations \ {op[w]} : status'[p] = status[p]
      BY <1>0, <2>0, <2>a DEF MoveOrThrow, RowTypes
    <3> QED
      BY <1>0, <2>0, <2>a, <3>1, MoveStatus, QuietMove DEF InFlight
  <2>1. CASE Reserve(w)
    BY <1>0, <2>0, <2>1, ReserveMoves DEF Reserve
  <2>2. CASE RecordSignature(w)
    BY <2>0, <2>a, <2>2, WithdrawalMoves DEF RecordSignature, InFlight
  <2>3. CASE TransferCompleted(w)
    BY <2>0, <2>a, <2>3, WithdrawalMoves DEF TransferCompleted, InFlight
  <2>4. CASE TransferFailed(w)
    <3>1. CASE status[op[w]] = "chain_submitted"
      BY <1>0, <2>0, <2>4, <3>1, ReleaseMoves DEF TransferFailed
    <3>2. CASE status[op[w]] # "chain_submitted"
      BY <1>1, <2>4, <3>2 DEF TransferFailed
    <3> QED
      BY <3>1, <3>2
  <2>5. CASE RecordPayout(w)
    BY <2>0, <2>a, <2>5, WithdrawalMoves DEF RecordPayout, InFlight
  <2>6. CASE BeginCompensation(w)
    BY <2>0, <2>a, <2>6, WithdrawalMoves DEF BeginCompensation, InFlight, Irreversible
  <2>7. CASE PollPayout(w)
    <3>1. \A p \in Operations \ {op[w]} : status'[p] = status[p]
      BY <1>0, <2>0, <2>7 DEF PollPayout, ApplyPayoutEvent, RowTypes
    <3> QED
      BY <1>0, <2>0, <2>7, <3>1, EventStatus, QuietMove DEF PollPayout, InFlight
  <2>8. CASE Finalize(w)
    <3>1. CASE status[op[w]] = "payout_settled"
      BY <2>0, <2>8, <3>1, RecordMoves DEF Finalize
    <3>2. CASE status[op[w]] # "payout_settled"
      BY <1>1, <2>8, <3>2 DEF Finalize
    <3> QED
      BY <3>1, <3>2
  <2>9. CASE MarkFinalized(w)
    <3>1. op[w] \in ledger
      BY <1>0, <2>9 DEF MarkFinalized, WorkerInv
    <3> QED
      BY <2>a, <2>9, <3>1 DEF MarkFinalized
  <2>10. CASE ReturnCompleted(w)
    BY <1>0, <2>0, <2>10, ReleaseMoves DEF ReturnCompleted
  <2>11. CASE UNCHANGED <<status, pending, ledger>>
    BY <1>1, <2>11
  <2>12. CASE ChainStep(w)
    BY <2>2, <2>3, <2>4, <2>11, <2>12
    DEF ChainStep, LookUp, Sign, CheckSaved, Broadcast, Confirm, ConfirmTimesOut, CheckChain,
      RecoverSettled, RecoverPending, Release
  <2>13. CASE WorkerFault(w)
    BY <2>11, <2>13 DEF WorkerFault, PayoutFails, SignFails, Abort, Crash
  <2> QED
    BY <1>4, <2>1, <2>5, <2>6, <2>7, <2>8, <2>9, <2>10, <2>11, <2>12, <2>13
    DEF HandlerStep, ReturnTokensToTreasury, SubmitPayout, TransferFunds, CreatePayout,
      CompleteCompensation, CheckReturn, CheckReturnPending, RecordReturnSignature,
      ReturnFailed
<1>5. CASE Next
  BY <1>1, <1>3, <1>4, <1>5
  DEF Next, LeaseEnds, Lapse, PayoutEnds, ClaimRow, Claim, RenewsLease, Heartbeat, Resolve,
    Land, Die
<1> QED
  BY <1>2, <1>5

\* Amounts of operations can be added.
LEMMA Amounts ==
  ASSUME NEW S \in SUBSET Operations
  PROVE  /\ IsFiniteSet(S)
         /\ \A o \in S : Amount[o] \in Int
         /\ SumFunctionOnSet(Amount, S) \in Int
<1>1. IsFiniteSet(S)
  BY OperationsAssumption, FS_Subset
<1>2. \A o \in S : Amount[o] \in Int
  BY AmountAssumption
<1> QED
  BY <1>1, <1>2, SumIsInt

\* One operation more, and one less.
LEMMA AmountsWith ==
  ASSUME NEW S \in SUBSET Operations, NEW o \in Operations \ S
  PROVE  SumFunctionOnSet(Amount, S \cup {o}) = SumFunctionOnSet(Amount, S) + Amount[o]
<1>1. /\ IsFiniteSet(S) /\ \A x \in S : Amount[x] \in Int
      /\ SumFunctionOnSet(Amount, S) \in Int /\ Amount[o] \in Int
  BY Amounts, AmountAssumption
<1>2. SumFunctionOnSet(Amount, S \cup {o}) = Amount[o] + SumFunctionOnSet(Amount, S)
  BY <1>1, SumWith
<1> QED
  BY <1>1, <1>2

LEMMA AmountsWithout ==
  ASSUME NEW S \in SUBSET Operations, NEW o \in S
  PROVE  SumFunctionOnSet(Amount, S \ {o}) = SumFunctionOnSet(Amount, S) - Amount[o]
<1>1. o \in Operations \ (S \ {o}) /\ (S \ {o}) \cup {o} = S
  OBVIOUS
<1>2. SumFunctionOnSet(Amount, S) = SumFunctionOnSet(Amount, S \ {o}) + Amount[o]
  BY <1>1, AmountsWith, S \ {o} \in SUBSET Operations
<1>3. SumFunctionOnSet(Amount, S \ {o}) \in Int /\ Amount[o] \in Int
  BY Amounts, AmountAssumption, S \ {o} \in SUBSET Operations
<1> QED
  BY <1>2, <1>3

Holders(x) == {o \in Operations : Source[o] = x /\ HoldsReservation(o)}

\* What a step moves between reserved and not, it moves between the balances.
LEMMA BackedStep ==
  ASSUME TypeOK, ReservationsAreBacked, ReservationStep
  PROVE  ReservationsAreBacked'
<1> SUFFICES ASSUME NEW x \in Wallets
             PROVE  pending'[x] = SumFunctionOnSet(Amount, Holders(x)')
  BY DEF ReservationsAreBacked, Holders
<1>0. pending \in [Wallets -> Nat]
  BY DEF TypeOK, RowsTypeOK
<1>1. pending[x] = SumFunctionOnSet(Amount, Holders(x)) /\ Holders(x) \in SUBSET Operations
  BY DEF ReservationsAreBacked, Holders
<1>2. CASE pending' = pending /\ \A o \in Operations : HoldsReservation(o)' = HoldsReservation(o)
  <2>1. Holders(x)' = Holders(x)
    BY <1>2, Zenon DEF Holders
  <2> QED
    BY <1>1, <1>2, <2>1
<1>3. ASSUME NEW o \in Operations, SetsAside(o) \/ GivesUp(o),
             \A p \in Operations \ {o} : HoldsReservation(p)' = HoldsReservation(p)
      PROVE  pending'[x] = SumFunctionOnSet(Amount, Holders(x)')
  <2>0. Amount[o] \in Nat
    BY AmountAssumption
  <2>1. CASE Source[o] # x
    <3>1. pending'[x] = pending[x]
      BY <1>0, <1>3, <2>1 DEF SetsAside, GivesUp, Shift, Less
    <3>2. \A p \in Operations : Source[p] = x =>
                 HoldsReservation(p)' = HoldsReservation(p)
      BY <1>3, <2>1, Zenon
    <3>3. Holders(x)' = Holders(x)
      BY <3>2, Zenon DEF Holders
    <3> QED
      BY <1>1, <3>1, <3>3
  <2>2. CASE Source[o] = x /\ SetsAside(o)
    <3>1. pending'[x] = pending[x] + Amount[o]
      BY <1>0, <2>2 DEF SetsAside, Shift
    <3>2. o \notin Holders(x) /\ Holders(x)' = Holders(x) \cup {o}
      BY <1>3, <2>2, Zenon DEF Holders, SetsAside
    <3> QED
      BY <1>1, <3>1, <3>2, AmountsWith
  <2>3. CASE Source[o] = x /\ GivesUp(o)
    <3>1. pending'[x] = pending[x] - Amount[o]
      BY <1>0, <2>3 DEF GivesUp, Less
    <3>2. o \in Holders(x) /\ o \notin Holders(x)'
      BY <2>3, Zenon DEF Holders, GivesUp
    <3>3. \A p \in Operations \ {o} : p \in Holders(x)' <=> p \in Holders(x)
      BY <1>3, Zenon DEF Holders
    <3>4. Holders(x)' = Holders(x) \ {o}
      <4>1. Holders(x) \in SUBSET Operations /\ Holders(x)' \in SUBSET Operations
        BY DEF Holders
      <4> HIDE DEF Holders
      <4> QED
        BY <3>2, <3>3, <4>1
    <3> QED
      BY <1>1, <3>1, <3>2, <3>4, AmountsWithout
  <2> QED
    BY <1>3, <2>1, <2>2, <2>3
<1> QED
  BY <1>2, <1>3 DEF ReservationStep

LEMMA BackedInit == Init => ReservationsAreBacked
<1> SUFFICES ASSUME Init, NEW x \in Wallets
             PROVE  pending[x] = SumFunctionOnSet(Amount, Holders(x))
  BY DEF ReservationsAreBacked, Holders
<1>1. Holders(x) = {}
  BY DEF Init, RowsInit, Holders, HoldsReservation, InFlight
<1>2. pending[x] = 0
  BY DEF Init, RowsInit
<1> QED
  BY <1>1, <1>2, SumOfNone

\* While no live worker loses its lease, what a wallet holds as pending is exactly
\* what the unfinished withdrawals from it have set aside, through reversals,
\* retries and crashes.
THEOREM ReservationsBacked ==
  ASSUME ~LeaseMayLapse
  PROVE  Spec => []ReservationsAreBacked
<1>1. TypeOK /\ WithdrawalInv /\ ReservationsAreBacked /\ [Next]_vars
        => ReservationsAreBacked'
  BY OneMoves, BackedStep
<1> QED
  BY <1>1, BackedInit, WithdrawalInductive, PTL DEF Spec

-------------------------------------------------------------------------------
(* Chain and books agree                                                   *)

\* Withdrawals whose tokens are with the Treasury and not yet booked as gone.
Away == {o \in Operations \ ledger : attempt[o][0] = "landed" /\ ~Returned(o)}

AwayFrom(x) == {o \in Away : Source[o] = x}

SameLandings ==
  \A o \in Operations, r \in Rounds : attempt'[o][r] = "landed" <=> attempt[o][r] = "landed"

KeepsTotals ==
  /\ Away' = Away /\ tokens' = tokens
  /\ available' \in [Wallets -> Nat] /\ pending' \in [Wallets -> Nat]
  /\ \A x \in Wallets : available'[x] + pending'[x] = available[x] + pending[x]

\* The tokens of a withdrawal leave its wallet, come back to it, or are booked.
TokensLeave(o) ==
  /\ o \notin Away /\ Away' = Away \cup {o}
  /\ tokens' = Less(tokens, Source[o], Amount[o])
  /\ UNCHANGED balanceVars

TokensComeBack(o) ==
  /\ o \in Away /\ Away' = Away \ {o}
  /\ tokens' = Shift(tokens, Source[o], Amount[o])
  /\ UNCHANGED balanceVars

IsBooked(o) ==
  /\ o \in Away /\ Away' = Away \ {o}
  /\ pending' = Less(pending, Source[o], Amount[o])
  /\ UNCHANGED <<tokens, available>>

BooksStep ==
  KeepsTotals \/ \E o \in Operations : TokensLeave(o) \/ TokensComeBack(o) \/ IsBooked(o)

LEMMA LandingsKeepAway ==
  ASSUME SameLandings, ledger' = ledger
  PROVE  Away' = Away
<1>1. 0 \in Rounds /\ Returns \subseteq Rounds
  BY RoundsAndReturns
<1>2. \A o \in Operations : /\ attempt'[o][0] = "landed" <=> attempt[o][0] = "landed"
                            /\ Returned(o)' <=> Returned(o)
  BY <1>1 DEF SameLandings, Returned
<1>3. \A o \in Operations : o \in Away' <=> o \in Away
  BY <1>2, Zenon DEF Away
<1>4. Away \subseteq Operations /\ Away' \subseteq Operations
  BY DEF Away
<1> HIDE DEF Away
<1> QED
  BY <1>3, <1>4

\* What is signed or sent has not landed yet.
LEMMA SendKeepsLandings ==
  ASSUME TypeOK, NEW w \in Workers, pc[w] # "idle", Mine(w) \in {"none", "prepared"},
         NEW state \in {"prepared", "broadcast"}, SetMine(w, state)
  PROVE  SameLandings
<1>1. op[w] \in Operations /\ round[w] \in Rounds
  BY TypeParts, BusyWorker DEF StepTypes
<1>2. ASSUME NEW o \in Operations, NEW r \in Rounds, o # op[w] \/ r # round[w]
      PROVE  attempt'[o][r] = attempt[o][r]
  BY <1>1, <1>2, MineSet
<1>3. attempt'[op[w]][round[w]] # "landed" /\ attempt[op[w]][round[w]] # "landed"
  BY MineSet DEF Mine
<1> QED
  BY <1>2, <1>3 DEF SameLandings

LEMMA ReserveKeepsTotals ==
  ASSUME TypeOK, NEW o \in Operations, ReserveBalance(o), UNCHANGED <<attempt, tokens, ledger>>
  PROVE  KeepsTotals
<1>0. RowTypes /\ BookTypes
  BY TypeParts
<1>1. available' \in [Wallets -> Nat] /\ pending' \in [Wallets -> Nat]
  BY <1>0, ReserveTypes
<1>2. Away' = Away
  BY LandingsKeepAway DEF SameLandings
<1>3. \A x \in Wallets : available'[x] + pending'[x] = available[x] + pending[x]
  <2>1. CASE UNCHANGED balanceVars
    BY <2>1 DEF balanceVars
  <2>2. CASE ~UNCHANGED balanceVars
    <3>1. /\ available' = Less(available, Source[o], Amount[o])
          /\ pending' = Shift(pending, Source[o], Amount[o])
      BY <2>2 DEF ReserveBalance, balanceVars
    <3> QED
      BY <1>0, <3>1, WithdrawalKind DEF BookTypes, Less, Shift
  <2> QED
    BY <2>1, <2>2
<1> QED
  BY <1>1, <1>2, <1>3 DEF KeepsTotals

LEMMA ReleaseKeepsTotals ==
  ASSUME TypeOK, NEW o \in Operations, NEW end \in {"failed", "reversed"},
         ReleaseBalanceAndEnd(o, end), UNCHANGED <<attempt, tokens, ledger>>
  PROVE  KeepsTotals
<1>0. RowTypes /\ BookTypes
  BY TypeParts
<1>1. available' \in [Wallets -> Nat] /\ pending' \in [Wallets -> Nat]
  BY <1>0, ReleaseTypes DEF OperationStatuses, Terminal
<1>2. Away' = Away
  BY LandingsKeepAway DEF SameLandings
<1>3. \A x \in Wallets : available'[x] + pending'[x] = available[x] + pending[x]
  <2>1. CASE UNCHANGED balanceVars
    BY <2>1 DEF balanceVars
  <2>2. CASE ~UNCHANGED balanceVars
    <3>1. /\ available' = Shift(available, Source[o], Amount[o])
          /\ pending' = Less(pending, Source[o], Amount[o])
      BY <2>2 DEF ReleaseBalanceAndEnd, balanceVars
    <3> QED
      BY <1>0, <3>1, WithdrawalKind DEF BookTypes, Less, Shift
  <2> QED
    BY <2>1, <2>2
<1> QED
  BY <1>1, <1>2, <1>3 DEF KeepsTotals

\* A withdrawal is booked as gone while its tokens are away: none came back.
LEMMA RecordBooks ==
  ASSUME TypeOK, NEW o \in Operations, RowInv(o), status[o] = "payout_settled",
         RecordOnce(o), UNCHANGED <<attempt, tokens>>
  PROVE  KeepsTotals \/ IsBooked(o)
<1>0. BookTypes /\ Source[o] # Treasury /\ Destination[o] = Treasury
  BY TypeParts, WithdrawalKind
<1>1. CASE UNCHANGED <<ledger, balanceVars>>
  BY <1>0, <1>1, LandingsKeepAway DEF balanceVars, KeepsTotals, BookTypes, SameLandings
<1>2. CASE ~UNCHANGED <<ledger, balanceVars>>
  <2>1. /\ o \notin ledger /\ ledger' = ledger \cup {o}
        /\ pending' = Less(pending, Source[o], Amount[o])
        /\ available' = available
    BY <1>0, <1>2 DEF RecordOnce
  <2>2. attempt[o][0] = "landed" /\ ~Returned(o)
    BY DEF RowInv, Irreversible, Compensated, Returned
  <2>3. o \in Away
    BY <2>1, <2>2 DEF Away
  <2>4. \A p \in Operations : Returned(p)' <=> Returned(p)
    BY DEF Returned
  <2>5. \A p \in Operations : p \in Away' <=> p \in Away \ {o}
    BY <2>1, <2>4 DEF Away
  <2>6. Away' = Away \ {o}
    <3>1. Away \subseteq Operations /\ Away' \subseteq Operations
      BY DEF Away
    <3> HIDE DEF Away
    <3> QED
      BY <2>5, <3>1
  <2> QED
    BY <2>1, <2>3, <2>6 DEF IsBooked
<1> QED
  BY <1>1, <1>2

\* A landing takes a withdrawal's tokens away, or brings them back once: a
\* withdrawal that is returned is away, and was not returned before.
LEMMA LandMovesTokens ==
  ASSUME TypeOK, ReturnInv, NEW o \in Operations, RowInv(o), NEW r \in Rounds, Land(o, r)
  PROVE  TokensLeave(o) \/ TokensComeBack(o)
<1>0. /\ ChainTypes /\ Source[o] # Treasury /\ Treasury \notin Wallets
      /\ Destination[o] = Treasury /\ 0 \in Rounds /\ 0 \notin Returns
      /\ Returns \subseteq Rounds /\ (r = 0 \/ r \in Returns)
  BY TypeParts, WithdrawalKind, RoundsAndReturns
<1>1. /\ attempt[o][r] = "broadcast" /\ attempt'[o][r] = "landed"
      /\ \A q \in Rounds \ {r} : attempt'[o][q] = attempt[o][q]
      /\ \A p \in Operations \ {o} : attempt'[p] = attempt[p]
      /\ ledger' = ledger /\ UNCHANGED balanceVars
  BY <1>0 DEF Land, ChainTypes
<1>2. \A p \in Operations \ {o} : p \in Away' <=> p \in Away
  BY <1>1 DEF Away, Returned
<1>3. Away \subseteq Operations /\ Away' \subseteq Operations
  BY DEF Away
<1>4. CASE r = 0
  <2>1. o \notin ledger /\ ~Returned(o)
    BY <1>1, <1>4 DEF RowInv, Irreversible, Compensated, Returned
  <2>2. ~Returned(o)'
    BY <1>0, <1>1, <1>4, <2>1 DEF Returned
  <2>3. o \notin Away /\ o \in Away'
    BY <1>1, <1>4, <2>1, <2>2 DEF Away
  <2>4. Away' = Away \cup {o}
    <3> HIDE DEF Away
    <3> QED
      BY <1>2, <1>3, <2>3
  <2>5. tokens' = Less(tokens, Source[o], Amount[o])
    BY <1>0, <1>4 DEF Land, Sender, Receiver, Less, ChainTypes
  <2> QED
    BY <1>1, <2>3, <2>4, <2>5 DEF TokensLeave
<1>5. CASE r \in Returns
  <2>1. attempt[o][0] = "landed" /\ o \notin ledger
    BY <1>1, <1>5 DEF RowInv, Irreversible, Compensated
  <2>2. ASSUME NEW q \in Returns, attempt[o][q] = "landed" PROVE FALSE
    <3>1. q # r
      BY <1>1, <2>2
    <3>2. q \in 1 .. r - 1 \/ r \in 1 .. q - 1
      BY <1>5, <3>1, RoundsAndReturns
    <3>3. Begun(o, r) /\ Begun(o, q)
      BY <1>1, <2>2 DEF Begun
    <3> QED
      BY <1>1, <1>5, <2>2, <3>2, <3>3 DEF ReturnInv
  <2>3. ~Returned(o) /\ Returned(o)'
    BY <1>1, <1>5, <2>2 DEF Returned
  <2>4. o \in Away /\ o \notin Away'
    BY <2>1, <2>3 DEF Away
  <2>5. Away' = Away \ {o}
    <3> HIDE DEF Away
    <3> QED
      BY <1>2, <1>3, <2>4
  <2>6. tokens' = Shift(tokens, Source[o], Amount[o])
    BY <1>0, <1>5 DEF Land, Sender, Receiver, Shift, ChainTypes
  <2> QED
    BY <1>1, <2>4, <2>5, <2>6 DEF TokensComeBack
<1> QED
  BY <1>0, <1>4, <1>5

LEMMA EveryBooksStep ==
  ASSUME TypeOK, WithdrawalInv, [Next]_vars
  PROVE  BooksStep
<1> USE DEF balanceVars, chainVars
<1>0. /\ StepTypes /\ BookTypes /\ ChainTypes /\ ReturnInv
      /\ \A o \in Operations : RowInv(o)
  BY TypeParts DEF WithdrawalInv
<1>1. ASSUME UNCHANGED <<balanceVars, ledger, tokens>>, SameLandings PROVE BooksStep
  BY <1>0, <1>1, LandingsKeepAway DEF BooksStep, KeepsTotals, BookTypes
<1>2. ASSUME UNCHANGED <<balanceVars, ledger, chainVars>> PROVE BooksStep
  BY <1>1, <1>2 DEF SameLandings
<1>3. ASSUME NEW w \in Workers, HandlerStep(w) \/ WorkerFault(w) PROVE BooksStep
  <2>0. op[w] \in Operations /\ pc[w] # "idle"
    BY <1>0, <1>3, WorkerMoves, BusyWorker
  <2>a. ASSUME \/ UNCHANGED attempt
               \/ /\ Mine(w) \in {"none", "prepared"}
                  /\ \E state \in {"prepared", "broadcast"} : SetMine(w, state),
               UNCHANGED <<balanceVars, ledger, tokens>>
        PROVE  BooksStep
    BY <1>1, <1>2, <2>0, <2>a, SendKeepsLandings
  <2>1. CASE Reserve(w)
    BY <2>0, <2>1, ReserveKeepsTotals DEF Reserve, BooksStep
  <2>2. CASE TransferFailed(w)
    <3>1. CASE status[op[w]] = "chain_submitted"
      BY <2>0, <2>2, <3>1, ReleaseKeepsTotals DEF TransferFailed, BooksStep
    <3>2. CASE status[op[w]] # "chain_submitted"
      BY <1>2, <2>2, <3>2 DEF TransferFailed
    <3> QED
      BY <3>1, <3>2
  <2>3. CASE ReturnCompleted(w)
    BY <2>0, <2>3, ReleaseKeepsTotals DEF ReturnCompleted, BooksStep
  <2>4. CASE Finalize(w)
    <3>1. CASE status[op[w]] = "payout_settled"
      BY <1>0, <2>0, <2>4, <3>1, RecordBooks DEF Finalize, BooksStep
    <3>2. CASE status[op[w]] # "payout_settled"
      BY <1>2, <2>4, <3>2 DEF Finalize
    <3> QED
      BY <3>1, <3>2
  <2>5. CASE Sign(w) \/ SignFails(w)
    BY <2>a, <2>5 DEF Sign, SignFails
  <2>6. CASE Broadcast(w) \/ RecoverPending(w) \/ CheckReturnPending(w)
    BY <2>a, <2>6 DEF Broadcast, RecoverPending, CheckReturnPending
  <2>7. CASE UNCHANGED <<balanceVars, ledger, chainVars>>
    BY <1>2, <2>7
  <2>8. CASE ChainStep(w)
    BY <2>2, <2>5, <2>6, <2>7, <2>8
    DEF ChainStep, LookUp, CheckSaved, RecordSignature, Confirm, ConfirmTimesOut, CheckChain,
      RecoverSettled, TransferCompleted, Release
  <2>9. CASE WorkerFault(w)
    BY <2>5, <2>7, <2>9 DEF WorkerFault, PayoutFails, Abort, Crash
  <2> QED
    BY <1>3, <2>1, <2>3, <2>4, <2>6, <2>7, <2>8, <2>9
    DEF HandlerStep, ReturnTokensToTreasury, SubmitPayout, TransferFunds, CreatePayout,
      RecordPayout, BeginCompensation, PollPayout, MarkFinalized, CompleteCompensation,
      CheckReturn, RecordReturnSignature, ReturnFailed
<1>4. ASSUME NEW o \in Operations, NEW r \in Rounds, Resolve(o, r) PROVE BooksStep
  <2>1. CASE Land(o, r)
    BY <1>0, <2>1, LandMovesTokens DEF BooksStep
  <2>2. CASE Die(o, r)
    <3>1. SameLandings
      BY <1>0, <2>2 DEF Die, ChainTypes, SameLandings
    <3> QED
      BY <1>1, <2>2, <3>1 DEF Die
  <2> QED
    BY <1>4, <2>1, <2>2 DEF Resolve
<1>5. CASE UNCHANGED vars
  BY <1>2, <1>5 DEF vars
<1>6. ASSUME NEW o \in Operations, RequestReserve(o) PROVE BooksStep
  BY <1>6, ReserveKeepsTotals DEF RequestReserve, BooksStep
<1>7. CASE Next
  BY <1>2, <1>3, <1>4, <1>6, <1>7
  DEF Next, Begin, LeaseEnds, Lapse, PayoutEnds, PayoutWebhook, ClaimRow, Claim,
    RenewsLease, Heartbeat
<1> QED
  BY <1>5, <1>7

Agrees(x) == tokens[x] + SumFunctionOnSet(Amount, AwayFrom(x)) = available[x] + pending[x]

LEMMA AgreementUnfolds == BooksMatchChain <=> \A x \in Wallets : Agrees(x)
<1>1. \A x \in Wallets : AwayFrom(x) = {o \in Operations \ ledger :
                           Source[o] = x /\ attempt[o][0] = "landed" /\ ~Returned(o)}
  BY DEF AwayFrom, Away
<1> QED
  BY <1>1 DEF BooksMatchChain, Agrees

\* A wallet's part of the agreement: the sum gains or loses the term that moves.
LEMMA AgreementStep ==
  ASSUME TypeOK, BooksStep, NEW x \in Wallets, Agrees(x)
  PROVE  Agrees(x)'
<1> DEFINE Out == SumFunctionOnSet(Amount, AwayFrom(x))
<1>0. /\ available \in [Wallets -> Nat] /\ pending \in [Wallets -> Nat]
      /\ tokens \in [Wallets -> Nat] /\ AwayFrom(x) \in SUBSET Operations
  BY DEF TypeOK, RowsTypeOK, ChainTypeOK, AwayFrom, Away
<1>1. Out \in Int
  BY <1>0, Amounts
<1>2. tokens[x] + Out = available[x] + pending[x]
  BY DEF Agrees
<1> SUFFICES tokens'[x] + Out' = available'[x] + pending'[x]
  BY DEF Agrees
<1>3. CASE KeepsTotals
  <2>1. AwayFrom(x)' = AwayFrom(x)
    BY <1>3 DEF KeepsTotals, AwayFrom
  <2>2. Out' = Out
    BY <2>1
  <2>3. tokens'[x] = tokens[x] /\ available'[x] + pending'[x] = available[x] + pending[x]
    BY <1>3 DEF KeepsTotals
  <2> HIDE DEF Out
  <2> QED
    BY <1>2, <2>2, <2>3
<1>4. ASSUME NEW o \in Operations, TokensLeave(o)
      PROVE  tokens'[x] + Out' = available'[x] + pending'[x]
  <2>0. Amount[o] \in Nat
    BY WithdrawalKind
  <2>1. AwayFrom(x)' = (IF Source[o] = x THEN AwayFrom(x) \cup {o} ELSE AwayFrom(x))
        /\ o \notin AwayFrom(x)
    BY <1>4 DEF TokensLeave, AwayFrom
  <2>2. Out' = IF Source[o] = x THEN Out + Amount[o] ELSE Out
    BY <1>0, <2>1, AmountsWith
  <2>3. tokens'[x] = IF Source[o] = x THEN tokens[x] - Amount[o] ELSE tokens[x]
    BY <1>0, <1>4 DEF TokensLeave, Less
  <2>4. available'[x] = available[x] /\ pending'[x] = pending[x]
    BY <1>4 DEF TokensLeave, balanceVars
  <2> HIDE DEF Out
  <2> QED
    BY <1>0, <1>1, <1>2, <2>0, <2>2, <2>3, <2>4
<1>5. ASSUME NEW o \in Operations, TokensComeBack(o) \/ IsBooked(o)
      PROVE  tokens'[x] + Out' = available'[x] + pending'[x]
  <2>0. Amount[o] \in Nat
    BY WithdrawalKind
  <2>1. /\ AwayFrom(x)' = IF Source[o] = x THEN AwayFrom(x) \ {o} ELSE AwayFrom(x)
        /\ Source[o] = x => o \in AwayFrom(x)
    BY <1>5 DEF TokensComeBack, IsBooked, AwayFrom
  <2>2. Out' = IF Source[o] = x THEN Out - Amount[o] ELSE Out
    BY <1>0, <2>1, AmountsWithout
  <2>3. /\ available'[x] = available[x]
        /\ \/ /\ tokens'[x] = IF Source[o] = x THEN tokens[x] + Amount[o] ELSE tokens[x]
              /\ pending'[x] = pending[x]
           \/ /\ pending'[x] = IF Source[o] = x THEN pending[x] - Amount[o] ELSE pending[x]
              /\ tokens'[x] = tokens[x]
    BY <1>0, <1>5 DEF TokensComeBack, IsBooked, Less, Shift, balanceVars
  <2> HIDE DEF Out
  <2> QED
    BY <1>0, <1>1, <1>2, <2>0, <2>2, <2>3
<1> QED
  BY <1>3, <1>4, <1>5 DEF BooksStep

LEMMA AgreementInit == Init => BooksMatchChain
<1> SUFFICES ASSUME Init, NEW x \in Wallets PROVE Agrees(x)
  BY AgreementUnfolds
<1>1. AwayFrom(x) = {}
  BY RoundsAndReturns DEF Init, ChainInit, AwayFrom, Away
<1>2. tokens[x] = Opening[x] /\ available[x] = Opening[x] /\ pending[x] = 0
  BY DEF Init, RowsInit, ChainInit
<1> QED
  BY <1>1, <1>2, SumOfNone, OpeningAssumption DEF Agrees

\* While no live worker loses its lease, what a wallet holds on chain is what its
\* books say, up to the withdrawals whose tokens are with the Treasury, at every
\* moment and through every return.
THEOREM BooksFollowChain ==
  ASSUME ~LeaseMayLapse
  PROVE  Spec => []BooksMatchChain
<1>1. ASSUME TypeOK, WithdrawalInv, BooksMatchChain, [Next]_vars
      PROVE  BooksMatchChain'
  <2>1. \A x \in Wallets : Agrees(x)'
    BY <1>1, EveryBooksStep, AgreementUnfolds, AgreementStep
  <2>2. \A x \in Wallets : AwayFrom(x)' = {o \in Operations \ ledger' :
                  Source[o] = x /\ attempt'[o][0] = "landed" /\ ~Returned(o)'}
    BY DEF AwayFrom, Away
  <2> QED
    BY <2>1, <2>2 DEF BooksMatchChain, Agrees
<1>2. TypeOK /\ WithdrawalInv /\ BooksMatchChain /\ [Next]_vars => BooksMatchChain'
  BY <1>1
<1> QED
  BY <1>2, AgreementInit, WithdrawalInductive, PTL DEF Spec

-------------------------------------------------------------------------------
(* Spendable balance rises only once the tokens are back                   *)

Evidence(x) ==
  \E o \in Operations :
    /\ Source[o] = x /\ status'[o] # status[o]
    /\ \/ status'[o] = "reversed" /\ Returned(o)
       \/ status'[o] = "failed" /\ attempt[o][0] = "dead"

LEMMA ReserveRaisesNothing ==
  ASSUME TypeOK, NEW o \in Operations, ReserveBalance(o), NEW x \in Wallets
  PROVE  ~(available'[x] > available[x])
<1>0. BookTypes
  BY TypeParts
<1>1. available'[x] \in {available[x], available[x] - Amount[o]}
  BY <1>0 DEF ReserveBalance, Less, balanceVars, BookTypes
<1> QED
  BY <1>0, <1>1, WithdrawalKind DEF BookTypes

LEMMA ReleaseRaises ==
  ASSUME TypeOK, NEW o \in Operations, NEW end \in {"failed", "reversed"},
         ReleaseBalanceAndEnd(o, end), NEW x \in Wallets, available'[x] > available[x]
  PROVE  Source[o] = x /\ status'[o] = end /\ status[o] # end
<1>0. BookTypes /\ RowTypes
  BY TypeParts
<1>1. ~UNCHANGED available
  BY <1>0 DEF BookTypes
<1>2. /\ CanMove(o, end) /\ status' = [status EXCEPT ![o] = end]
      /\ available' = Shift(available, Source[o], Amount[o])
  BY <1>1 DEF ReleaseBalanceAndEnd, balanceVars
<1>3. Source[o] = x
  BY <1>0, <1>1, <1>2 DEF Shift, BookTypes
<1>4. status[o] # end
  BY <1>2 DEF CanMove, CanTransition, Terminal
<1> QED
  BY <1>0, <1>2, <1>3, <1>4 DEF RowTypes

LEMMA RiseStep ==
  ASSUME TypeOK, WithdrawalInv, [Next]_vars, NEW x \in Wallets, available'[x] > available[x]
  PROVE  Evidence(x)
<1> USE DEF balanceVars
<1>0. /\ StepTypes /\ RowTypes /\ BookTypes
      /\ \A w \in Workers : WorkerInv(w)
  BY TypeParts DEF WithdrawalInv
<1>1. ~UNCHANGED available
  BY <1>0 DEF BookTypes
<1>2. ASSUME NEW w \in Workers, HandlerStep(w) \/ WorkerFault(w) PROVE Evidence(x)
  <2>0. op[w] \in Operations /\ round[w] \in Rounds
    BY <1>0, <1>2, WorkerMoves, BusyWorker DEF StepTypes
  <2>1. CASE Reserve(w)
    BY <2>0, <2>1, ReserveRaisesNothing DEF Reserve
  <2>2. CASE TransferFailed(w)
    <3>1. status[op[w]] = "chain_submitted" /\ ReleaseBalanceAndEnd(op[w], "failed")
      BY <1>1, <2>2 DEF TransferFailed
    <3>2. attempt[op[w]][0] = "dead"
      BY <1>0, <2>2, <3>1 DEF TransferFailed, WorkerInv
    <3> QED
      BY <2>0, <3>1, <3>2, ReleaseRaises DEF Evidence
  <2>3. CASE ReturnCompleted(w)
    <3>1. Mine(w) = "landed" /\ round[w] \in Returns
      BY <1>0, <2>0, <2>3, RoundsAndReturns DEF ReturnCompleted, WorkerInv
    <3>2. Returned(op[w])
      BY <3>1 DEF Returned, Mine
    <3> QED
      BY <2>0, <2>3, <3>2, ReleaseRaises DEF ReturnCompleted, Evidence
  <2>4. CASE Finalize(w)
    BY <1>1, <2>0, <2>4, WithdrawalKind DEF Finalize, RecordOnce
  <2>5. CASE ChainStep(w)
    BY <1>1, <2>2, <2>5
    DEF ChainStep, LookUp, Sign, CheckSaved, RecordSignature, Broadcast, Confirm,
      ConfirmTimesOut, CheckChain, RecoverSettled, RecoverPending, TransferCompleted, Release
  <2> QED
    BY <1>1, <1>2, <2>1, <2>3, <2>4, <2>5
    DEF HandlerStep, WorkerFault, ReturnTokensToTreasury, SubmitPayout, TransferFunds,
      CreatePayout, RecordPayout, BeginCompensation, PollPayout, MarkFinalized,
      CompleteCompensation, CheckReturn, CheckReturnPending, RecordReturnSignature,
      ReturnFailed, PayoutFails, SignFails, Abort, Crash
<1>3. ASSUME NEW o \in Operations, RequestReserve(o) PROVE FALSE
  BY <1>3, ReserveRaisesNothing DEF RequestReserve
<1>4. CASE Next
  BY <1>1, <1>2, <1>3, <1>4
  DEF Next, Begin, LeaseEnds, Lapse, PayoutEnds, PayoutWebhook, ClaimRow, Claim,
    RenewsLease, Heartbeat, Resolve, Land, Die
<1> QED
  BY <1>1, <1>4 DEF vars

\* While no live worker loses its lease, a wallet can spend more only once the
\* Treasury's return has landed, or the withdrawal's own transfer never can.
THEOREM RestoresAfterReturn ==
  ASSUME ~LeaseMayLapse
  PROVE  Spec => RestoredOnlyAfterReturn
<1>1. TypeOK /\ WithdrawalInv /\ [Next]_vars =>
        [\A x \in Wallets : available'[x] > available[x] => Evidence(x)]_vars
  BY RiseStep
<1>2. Spec => [][\A x \in Wallets : available'[x] > available[x] => Evidence(x)]_vars
  BY <1>1, WithdrawalInductive, PTL DEF Spec
<1> QED
  BY <1>2 DEF RestoredOnlyAfterReturn, Evidence

-------------------------------------------------------------------------------
(* Paid out or given back                                                  *)

\* A worker that compensates has been told that nothing is paid out.
ClearRow(o) ==
  /\ payout[o] # "none" => transferred[o]
  /\ status[o] \in Compensated => payout[o] \in {"none", "failed"}

ClearWorker(w) ==
  /\ pc[w] \in {"create_payout", "record_payout"} => transferred[op[w]]
  /\ pc[w] = "payout_error" => payout[op[w]] = "none"

ClearInv ==
  /\ \A o \in Operations : ClearRow(o)
  /\ \A w \in Workers : ClearWorker(w)

LEMMA ClearInit == Init => ClearInv
BY DEF Init, RowsInit, ChainInit, ClearInv, ClearRow, ClearWorker, Compensated

\* The steps on which the row of a worker's operation comes to be paid out or
\* given back.
LEMMA ClearOwnStep ==
  ASSUME ~UnclearErrors, TypeOK, NEW w \in Workers, HandlerStep(w) \/ WorkerFault(w),
         WorkerInv(w), NEW o, o = op[w], ClearRow(o), ClearWorker(w)
  PROVE  ClearRow(o)' /\ (op'[w] = o => ClearWorker(w)')
<1> USE DEF rowVars, chainVars, payoutVars, stripeVars
<1> DEFINE Goal == ClearRow(o)' /\ (op'[w] = o => ClearWorker(w)')
<1>0. /\ StepTypes /\ RowTypes /\ PayoutTypes /\ pc[w] # "idle" /\ o \in Operations
  BY TypeParts, WorkerMoves, BusyWorker
<1>1. ASSUME UNCHANGED <<transferred, payout>>,
             \/ status'[o] = status[o]
             \/ status'[o] \notin Compensated
             \/ status[o] = "compensating"
             \/ payout[o] \in {"none", "failed"},
             pc'[w] \notin {"create_payout", "record_payout", "payout_error"}
      PROVE  Goal
  BY <1>1 DEF ClearRow, ClearWorker, Compensated
<1>2. ASSUME NEW step, Goto(w, step) PROVE pc'[w] = step /\ op'[w] = o
  BY <1>0, <1>2 DEF Goto, StepTypes
<1>3. ASSUME Idle(w) PROVE pc'[w] = "idle"
  BY <1>0, <1>3 DEF Idle, StepTypes
<1>4. ASSUME NEW step, NEW r, ResumeReturn(w, step, r) PROVE pc'[w] = step
  BY <1>0, <1>4 DEF ResumeReturn, StepTypes
<1> HIDE DEF Goal
<1>5. CASE (LookUp(w) \/ Sign(w) \/ CheckSaved(w) \/ Broadcast(w) \/ Confirm(w)
             \/ ConfirmTimesOut(w) \/ CheckChain(w) \/ RecoverSettled(w)
             \/ RecoverPending(w)) /\ UNCHANGED payoutVars
  BY <1>1, <1>2, <1>5
  DEF LookUp, Sign, CheckSaved, Broadcast, Confirm, ConfirmTimesOut, CheckChain,
    RecoverSettled, RecoverPending, Goal
<1>6. CASE (RecordSignature(w) \/ TransferCompleted(w)) /\ UNCHANGED payoutVars
  <2>1. status'[o] = status[o] \/ status'[o] \in {"chain_submitted", "chain_confirmed"}
    BY <1>0, <1>6, MoveStatus DEF RecordSignature, TransferCompleted
  <2> QED
    BY <1>1, <1>2, <1>6, <2>1 DEF RecordSignature, TransferCompleted, Compensated, Goal
<1>7. CASE TransferFailed(w) /\ UNCHANGED payoutVars
  <2>1. status'[o] = status[o] \/ status'[o] = "failed"
    BY <1>0, <1>7, ReleaseStatus DEF TransferFailed
  <2> QED
    BY <1>1, <1>2, <1>7, <2>1 DEF TransferFailed, Compensated, Goal
<1>8. CASE Release(w) /\ UNCHANGED payoutVars
  BY <1>1, <1>3, <1>8 DEF Release, Goal
<1>9. CASE Reserve(w) \/ ReturnTokensToTreasury(w) \/ SubmitPayout(w) \/ ReturnFailed(w)
  <2>1. status'[o] = status[o] \/ status'[o] \in {"reserved", "failed"}
    BY <1>0, <1>9, ReserveStatus DEF Reserve, ReturnTokensToTreasury, SubmitPayout, ReturnFailed
  <2> QED
    BY <1>1, <1>2, <1>9, <2>1
    DEF Reserve, ReturnTokensToTreasury, SubmitPayout, ReturnFailed, Compensated, Goal
<1>10. CASE TransferFunds(w)
  <2>1. /\ transferred'[o] = TRUE /\ payout' = payout /\ status' = status
        /\ pc'[w] = "create_payout" /\ op'[w] = o
    BY <1>0, <1>2, <1>10 DEF TransferFunds, PayoutTypes
  <2> QED
    BY <2>1 DEF ClearRow, ClearWorker, Goal
<1>11. CASE CreatePayout(w)
  <2>1. /\ transferred' = transferred /\ status' = status
        /\ pc'[w] = "record_payout" /\ op'[w] = o
    BY <1>2, <1>11 DEF CreatePayout
  <2>2. status[o] = "chain_confirmed" /\ transferred[o]
    BY <1>11 DEF CreatePayout, WorkerInv, InTry, ClearWorker
  <2> QED
    BY <2>1, <2>2 DEF ClearRow, ClearWorker, Compensated, Goal
<1>12. CASE RecordPayout(w)
  <2>1. CanMove(o, "payout_submitted")
    BY <1>0, <1>12, WithdrawalMoves DEF RecordPayout, WorkerInv, InTry
  <2>2. status'[o] = "payout_submitted"
    BY <1>0, <1>12, <2>1, MoveStatus DEF RecordPayout
  <2> QED
    BY <1>1, <1>2, <1>12, <2>1, <2>2 DEF RecordPayout, Compensated, Goal
<1>13. CASE PayoutFails(w)
  <2>1. UNCHANGED <<status, transferred, payout>> /\ NotExecuted(w)
    BY <1>13 DEF PayoutFails
  <2>2. payout[o] = "none"
    BY <1>0, <2>1 DEF NotExecuted, ClearRow, PayoutTypes
  <2>3. pc'[w] = "payout_error" /\ op'[w] = o
    BY <1>2, <1>13 DEF PayoutFails
  <2> QED
    BY <2>1, <2>2, <2>3 DEF ClearRow, ClearWorker, Goal
<1>14. CASE BeginCompensation(w)
  <2>1. payout[o] = "none"
    BY <1>14 DEF BeginCompensation, ClearWorker
  <2> QED
    BY <1>1, <1>2, <1>14, <2>1 DEF BeginCompensation, Goal
<1>15. CASE PollPayout(w)
  <2>1. status'[o] = status[o] \/ status'[o] = "payout_settled" \/ payout[o] = "failed"
    BY <1>0, <1>15, EventStatus DEF PollPayout
  <2> QED
    BY <1>1, <1>2, <1>15, <2>1 DEF PollPayout, Compensated, Goal
<1>16. CASE Finalize(w) \/ RecordReturnSignature(w) \/ CheckReturnPending(w)
  BY <1>1, <1>2, <1>16 DEF Finalize, RecordReturnSignature, CheckReturnPending, Goal
<1>17. CASE MarkFinalized(w)
  <2>1. status'[o] = status[o] \/ status'[o] = "finalized"
    BY <1>0, <1>17, MoveStatus DEF MarkFinalized
  <2> QED
    BY <1>1, <1>2, <1>17, <2>1 DEF MarkFinalized, Compensated, Goal
<1>18. CASE CompleteCompensation(w)
  BY <1>1, <1>2, <1>4, <1>18, CompensationCases DEF CompleteCompensation, Goal
<1>19. CASE CheckReturn(w)
  BY <1>1, <1>2, <1>4, <1>19 DEF CheckReturn, Goal
<1>20. CASE ReturnCompleted(w)
  <2>1. status'[o] = status[o] \/ status[o] = "compensating"
    BY <1>0, <1>20, ReleaseStatus, WithdrawalMoves DEF ReturnCompleted
  <2> QED
    BY <1>1, <1>2, <1>20, <2>1 DEF ReturnCompleted, Goal
<1>21. CASE (SignFails(w) \/ Abort(w) \/ Crash(w)) /\ UNCHANGED payoutVars
  BY <1>1, <1>2, <1>3, <1>21 DEF SignFails, Abort, Crash, Goal
<1>22. CASE ChainStep(w)
  BY <1>5, <1>6, <1>7, <1>8, <1>22 DEF ChainStep
<1>23. CASE WorkerFault(w)
  BY <1>13, <1>21, <1>23 DEF WorkerFault
<1> QED
  BY <1>9, <1>10, <1>11, <1>12, <1>14, <1>15, <1>16, <1>17, <1>18, <1>19, <1>20, <1>22, <1>23
  DEF HandlerStep, Goal

LEMMA ClearStep ==
  ASSUME ~UnclearErrors, TypeOK, WithdrawalInv, ClearInv, [Next]_vars
  PROVE  ClearInv'
<1> USE DEF rowVars, chainVars, workerVars
<1>0. /\ StepTypes /\ RowTypes /\ PayoutTypes /\ LeaseInv
      /\ \A w \in Workers : WorkerInv(w)
  BY TypeParts DEF WithdrawalInv
<1>1. CASE UNCHANGED <<status, payout, transferred, workerVars>>
  BY <1>1 DEF ClearInv, ClearRow, ClearWorker
<1>2. ASSUME NEW w \in Workers, HandlerStep(w) \/ WorkerFault(w) PROVE ClearInv'
  <2>0. /\ pc[w] # "idle" /\ op[w] \in Operations /\ ClearRow(op[w]) /\ ClearWorker(w)
        /\ op'[w] = op[w] \/ pc'[w] = "idle"
    BY <1>0, <1>2, WorkerMoves, BusyWorker DEF ClearInv
  <2>1. ASSUME NEW o, o = op[w] PROVE ClearRow(o)' /\ (op'[w] = o => ClearWorker(w)')
    BY <1>0, <1>2, <2>0, <2>1, ClearOwnStep
  <2>2. ASSUME NEW o \in Operations PROVE ClearRow(o)'
    <3>1. CASE o = op[w]
      BY <2>1, <3>1
    <3>2. CASE o # op[w]
      BY <1>2, <3>2, WorkerRows DEF SameRow, ClearInv, ClearRow
    <3> QED
      BY <3>1, <3>2
  <2>3. ASSUME NEW v \in Workers PROVE ClearWorker(v)'
    <3>1. CASE v = w
      <4>1. CASE op'[w] = op[w]
        BY <2>1, <3>1, <4>1
      <4>2. CASE pc'[w] = "idle"
        BY <3>1, <4>2 DEF ClearWorker
      <4> QED
        BY <2>0, <4>1, <4>2
    <3>2. CASE v # w /\ pc[v] = "idle"
      BY <1>0, <1>2, <3>2, WorkerMoves DEF ClearWorker
    <3>3. CASE v # w /\ pc[v] # "idle"
      <4>1. /\ pc'[v] = pc[v] /\ op'[v] = op[v]
            /\ op[v] # op[w] /\ op[v] \in Operations
        BY <1>0, <1>2, <2>0, <3>3, WorkerMoves, Alone, BusyWorker
      <4>2. SameRow(op[v])
        BY <1>2, <4>1, WorkerRows
      <4> QED
        BY <4>1, <4>2 DEF SameRow, ClearInv, ClearWorker
    <3> QED
      BY <3>1, <3>2, <3>3
  <2> QED
    BY <2>2, <2>3 DEF ClearInv
<1>3. ASSUME NEW w \in Workers, NEW o \in Operations, ClaimRow(w, o) PROVE ClearInv'
  <2>1. UNCHANGED <<status, payout, transferred>>
    BY <1>3 DEF ClaimRow, Claim, payoutVars, stripeVars
  <2>2. pc'[w] \notin {"create_payout", "record_payout", "payout_error"}
    BY <1>0, <1>3 DEF ClaimRow, Claim, ResumeAction, StepTypes
  <2>3. \A v \in Workers \ {w} : pc'[v] = pc[v] /\ op'[v] = op[v]
    BY <1>0, <1>3 DEF ClaimRow, Claim, StepTypes
  <2> QED
    BY <2>1, <2>2, <2>3 DEF ClearInv, ClearRow, ClearWorker
<1>4. ASSUME NEW o \in Operations, Begin(o) \/ RequestReserve(o) \/ PayoutWebhook(o)
      PROVE  ClearInv'
  <2>1. UNCHANGED <<payout, transferred, workerVars>>
    BY <1>4 DEF Begin, RequestReserve, PayoutWebhook, payoutVars, stripeVars
  <2>2. \A p \in Operations \ {o} : status'[p] = status[p]
    BY <1>0, <1>4 DEF Begin, InsertRow, RequestReserve, ReserveBalance, PayoutWebhook,
      ApplyPayoutEvent, RowTypes
  <2>3. \/ status'[o] = status[o] \/ status'[o] \notin Compensated
        \/ payout[o] = "failed"
    BY <1>0, <1>4, EventStatus, ReserveStatus
    DEF Begin, InsertRow, RequestReserve, PayoutWebhook, RowTypes, Compensated
  <2> QED
    BY <2>1, <2>2, <2>3 DEF ClearInv, ClearRow, ClearWorker
<1>5. ASSUME NEW o \in Operations, PayoutEnds(o) PROVE ClearInv'
  <2>1. UNCHANGED <<status, transferred, workerVars>>
    BY <1>5 DEF PayoutEnds
  <2>2. /\ payout[o] = "pending" /\ payout'[o] # "none"
        /\ \A p \in Operations \ {o} : payout'[p] = payout[p]
    BY <1>0, <1>5 DEF PayoutEnds, PayoutTypes
  <2>3. \A w \in Workers : pc[w] = "payout_error" => op[w] # o /\ op[w] \in Operations
    BY <1>0, <2>2, BusyWorker DEF ClearInv, ClearWorker
  <2> QED
    BY <2>1, <2>2, <2>3 DEF ClearInv, ClearRow, ClearWorker
<1>6. CASE Next
  BY <1>1, <1>2, <1>3, <1>4, <1>5, <1>6
  DEF Next, LeaseEnds, Lapse, RenewsLease, Heartbeat, Resolve, Land, Die, payoutVars, stripeVars
<1> QED
  BY <1>1, <1>6 DEF vars, payoutVars, stripeVars

\* submitPayout compensates whatever the error was.  On two conditions a withdrawal
\* is still never both paid out and given back: no live worker loses its lease,
\* and submitPayout sees an error only for a call that took no effect.
THEOREM PaidOrReturned ==
  ASSUME ~LeaseMayLapse, ~UnclearErrors
  PROVE  Spec => []NeverPaidAndReturned
<1>1. TypeOK /\ WithdrawalInv /\ ClearInv => NeverPaidAndReturned
  BY DEF WithdrawalInv, RowInv, ClearInv, ClearRow, NeverPaidAndReturned, Returned, Compensated
<1>2. TypeOK /\ WithdrawalInv /\ ClearInv /\ [Next]_vars => ClearInv'
  BY ClearStep
<1> QED
  BY <1>1, <1>2, ClearInit, WithdrawalInductive, PTL DEF Spec

===============================================================================
