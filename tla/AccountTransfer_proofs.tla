------------------------ MODULE AccountTransfer_proofs ------------------------
(***************************************************************************)
(* Proofs about AccountTransfer, for every set of operations, workers and  *)
(* wallets, and any number of faults.                                      *)
(***************************************************************************)
EXTENDS AccountTransfer, Sums_proofs, TLAPS

-------------------------------------------------------------------------------
(* The state machine of a transfer                                         *)

LEMMA TransferKind ==
  ASSUME NEW o \in Operations
  PROVE  /\ Kind[o] \in TransferKinds
         /\ StepSequence(Kind[o]) = TransferSequence
         /\ Source[o] \in Wallets /\ Destination[o] \in Wallets
         /\ Source[o] # Treasury /\ Destination[o] # Treasury
         /\ Source[o] # Destination[o]
         /\ Amount[o] \in Nat /\ Amount[o] > 0
<1>1. Kind[o] \in TransferKinds /\ Source[o] \in Wallets /\ Destination[o] \in Wallets
  BY TransferAssumption
<1>2. Kind[o] \notin FundingKinds
  BY <1>1 DEF TransferKinds, FundingKinds
<1>3. StepSequence(Kind[o]) = TransferSequence
  BY <1>1 DEF StepSequence, TransferKinds, FundingKinds, WithdrawalKinds
<1> QED
  BY <1>1, <1>3, WalletsAssumption, RouteAssumption, AmountAssumption

\* nextStatus on the sequence of a transfer, spelled out.
LEMMA TransferNext ==
  ASSUME NEW o \in Operations, NEW from, NEW to
  PROVE  IsNextStatus(Kind[o], from, to) <=>
           \/ from = "created" /\ to = "reserved"
           \/ from = "reserved" /\ to = "chain_submitted"
           \/ from = "chain_submitted" /\ to = "chain_confirmed"
           \/ from = "chain_confirmed" /\ to = "finalized"
<1>0. Len(TransferSequence) = 5
  BY DEF TransferSequence
<1>a. 1 .. Len(TransferSequence) - 1 = 1 .. 4
  BY <1>0
<1>b. StepSequence(Kind[o]) = TransferSequence
  BY TransferKind
<1>1. IsNextStatus(Kind[o], from, to) <=>
        \E i \in 1 .. 4 : TransferSequence[i] = from /\ TransferSequence[i + 1] = to
  BY <1>a, <1>b, Zenon DEF IsNextStatus
<1>2. /\ TransferSequence[1] = "created" /\ TransferSequence[2] = "reserved"
      /\ TransferSequence[3] = "chain_submitted"
      /\ TransferSequence[4] = "chain_confirmed"
      /\ TransferSequence[5] = "finalized"
  BY DEF TransferSequence
<1>3. 1 .. 4 = {1, 2, 3, 4}
  OBVIOUS
<1>4. IsNextStatus(Kind[o], from, to) <=>
        \/ TransferSequence[1] = from /\ TransferSequence[2] = to
        \/ TransferSequence[2] = from /\ TransferSequence[3] = to
        \/ TransferSequence[3] = from /\ TransferSequence[4] = to
        \/ TransferSequence[4] = from /\ TransferSequence[5] = to
  BY <1>1, <1>3
<1> QED
  BY <1>2, <1>4

\* When a transfer may move to each status its workers move it to.
LEMMA TransferMoves ==
  ASSUME NEW o \in Operations
  PROVE  /\ CanMove(o, "chain_submitted") => status[o] = "reserved"
         /\ CanMove(o, "chain_confirmed") <=> status[o] = "chain_submitted"
         /\ CanMove(o, "finalized") <=> status[o] = "chain_confirmed"
<1>1. ~CollectedFunding(Kind[o], status[o])
  BY TransferKind DEF CollectedFunding, TransferKinds, FundingKinds
<1> QED
  BY <1>1, TransferNext DEF CanMove, CanTransition, Terminal

-------------------------------------------------------------------------------
(* Type correctness                                                        *)

RowTypes  == status \in [Operations -> OperationStatuses \cup {"absent"}]
BookTypes == /\ available \in [Wallets -> Nat]
             /\ pending \in [Wallets -> Nat]
             /\ ledger \subseteq Operations
StepTypes == /\ pc \in [Workers -> TransferSteps]
             /\ op \in [Workers -> Operations \cup {NoOperation}]
             /\ \A w \in Workers : op[w] = NoOperation <=> pc[w] = "idle"
             /\ round \in [Workers -> Rounds]

\* The effects the services share keep the types.
LEMMA MoveTypes ==
  ASSUME RowTypes, NEW o \in Operations, NEW to \in OperationStatuses,
         MoveOrThrow(o, to)
  PROVE  RowTypes'
BY DEF RowTypes, MoveOrThrow

LEMMA ReserveTypes ==
  ASSUME RowTypes, BookTypes, NEW o \in Operations, ReserveBalance(o)
  PROVE  /\ RowTypes'
         /\ available' \in [Wallets -> Nat] /\ pending' \in [Wallets -> Nat]
<1>1. CASE status[o] # "created"
  BY <1>1 DEF RowTypes, BookTypes, ReserveBalance, balanceVars
<1>2. CASE status[o] = "created" /\ available[Source[o]] >= Amount[o]
  BY <1>2, TransferKind DEF RowTypes, BookTypes, ReserveBalance, Less, Shift,
    OperationStatuses, InFlight
<1>3. CASE status[o] = "created" /\ ~(available[Source[o]] >= Amount[o])
  BY <1>3 DEF RowTypes, BookTypes, ReserveBalance, balanceVars,
    OperationStatuses, Terminal
<1> QED
  BY <1>1, <1>2, <1>3

LEMMA ReleaseTypes ==
  ASSUME RowTypes, BookTypes, NEW o \in Operations, NEW end \in OperationStatuses,
         ReleaseBalanceAndEnd(o, end)
  PROVE  /\ RowTypes'
         /\ available' \in [Wallets -> Nat] /\ pending' \in [Wallets -> Nat]
<1>1. CASE CanMove(o, end) /\ pending[Source[o]] >= Amount[o]
  BY <1>1, TransferKind DEF RowTypes, BookTypes, ReleaseBalanceAndEnd, Less, Shift
<1>2. CASE ~(CanMove(o, end) /\ pending[Source[o]] >= Amount[o])
  BY <1>2 DEF RowTypes, BookTypes, ReleaseBalanceAndEnd, balanceVars
<1> QED
  BY <1>1, <1>2

LEMMA RecordTypes ==
  ASSUME BookTypes, NEW o \in Operations, RecordOnce(o)
  PROVE  BookTypes'
<1>1. CASE o \in ledger \/ ~CanRecord(o)
  BY <1>1 DEF BookTypes, RecordOnce, balanceVars
<1>2. CASE o \notin ledger /\ CanRecord(o)
  <2>1. pending[Source[o]] >= Amount[o]
    BY <1>2, TransferKind DEF CanRecord
  <2>2. /\ ledger' = ledger \cup {o}
        /\ pending' = Less(pending, Source[o], Amount[o])
        /\ available' = Shift(available, Destination[o], Amount[o])
    BY <1>2, TransferKind DEF RecordOnce
  <2> QED
    BY <2>1, <2>2, TransferKind DEF BookTypes, Less, Shift
<1> QED
  BY <1>1, <1>2

LEMMA GotoTypes ==
  ASSUME StepTypes, NEW w \in Workers, pc[w] # "idle",
         NEW step \in TransferSteps \ {"idle"}, Goto(w, step)
  PROVE  StepTypes'
BY DEF StepTypes, Goto

LEMMA IdleTypes ==
  ASSUME StepTypes, NEW w \in Workers, Idle(w)
  PROVE  StepTypes'
BY NoOperationAssumption, MaxReturnsAssumption DEF StepTypes, Idle, Rounds,
  TransferSteps, CoreSteps

\* A busy worker has an operation.
LEMMA BusyWorker ==
  ASSUME StepTypes, NEW w \in Workers, pc[w] # "idle"
  PROVE  op[w] \in Operations /\ round[w] = 0
BY TransferAssumption DEF StepTypes, Rounds

LeaseTypes == /\ chainSignature \in [Operations -> BOOLEAN]
              /\ claimedBy \in [Operations -> Workers \cup {NoWorker}]
              /\ claimLive \in [Operations -> BOOLEAN]
ChainTypes == /\ attempt \in [Operations -> [Rounds -> AttemptStates]]
              /\ tokens \in [Wallets -> Nat]
FaultTypes == faults \in 0 .. MaxFaults

LEMMA TypeParts ==
  TypeOK <=> RowTypes /\ BookTypes /\ StepTypes /\ LeaseTypes /\ ChainTypes /\ FaultTypes
BY DEF TypeOK, RowsTypeOK, ChainTypeOK, RowTypes, BookTypes, StepTypes, LeaseTypes,
  ChainTypes, FaultTypes

\* The worker's own attempt, and a new state for it.
LEMMA AttemptTypes ==
  ASSUME ChainTypes, StepTypes, NEW w \in Workers, pc[w] # "idle",
         NEW state \in AttemptStates, SetMine(w, state)
  PROVE  attempt' \in [Operations -> [Rounds -> AttemptStates]]
BY BusyWorker DEF ChainTypes, StepTypes, SetMine

LEMMA InitTypes == Init => TypeOK
BY OpeningAssumption, MaxReturnsAssumption, MaxFaultsAssumption
DEF Init, RowsInit, ChainInit, TypeOK, RowsTypeOK, ChainTypeOK, Rounds,
  AttemptStates, TransferSteps, CoreSteps

LEMMA RequestTypes ==
  ASSUME TypeOK, NEW o \in Operations, Begin(o) \/ RequestReserve(o) \/ Lapse(o)
  PROVE  TypeOK'
<1> USE DEF vars, rowVars, leaseVars, balanceVars, chainVars, workerVars
<1>1. CASE Begin(o)
  BY <1>1 DEF TypeOK, RowsTypeOK, ChainTypeOK, Begin, InsertRow,
    OperationStatuses, InFlight
<1>2. CASE RequestReserve(o)
  <2>1. RowTypes' /\ available' \in [Wallets -> Nat] /\ pending' \in [Wallets -> Nat]
    BY <1>2, TypeParts, ReserveTypes DEF RequestReserve
  <2> QED
    BY <1>2, <2>1 DEF TypeOK, RowsTypeOK, ChainTypeOK, RowTypes, RequestReserve
<1>3. CASE Lapse(o)
  BY <1>3 DEF TypeOK, RowsTypeOK, ChainTypeOK, Lapse
<1> QED
  BY <1>1, <1>2, <1>3

LEMMA ClaimTypes ==
  ASSUME TypeOK, NEW w \in Workers, NEW o \in Operations, Claim(w, o)
  PROVE  TypeOK'
<1>1. ResumeAction(Kind[o], status[o]) \in TransferSteps \ {"idle"}
  BY DEF Claim, ResumeAction, TransferSteps, CoreSteps, ResumeSteps, InFlight
<1> QED
  BY <1>1, NoOperationAssumption
  DEF TypeOK, RowsTypeOK, ChainTypeOK, Claim, TakeLease,
    rowVars, balanceVars, chainVars

\* The steps of the transfer on chain, and of the runner.
LEMMA ChainStepTypes ==
  ASSUME TypeOK, NEW w \in Workers,
         \/ LookUp(w) \/ Sign(w) \/ CheckSaved(w) \/ RecordSignature(w)
         \/ Broadcast(w) \/ Confirm(w) \/ ConfirmTimesOut(w) \/ CheckChain(w)
         \/ RecoverSettled(w) \/ RecoverPending(w)
  PROVE  TypeOK'
<1> USE DEF rowVars, leaseVars, balanceVars, chainVars
<1> DEFINE Quiet == UNCHANGED <<faults, rowVars, leaseVars, balanceVars, ledger, chainVars>>
<1>0. RowTypes /\ BookTypes /\ StepTypes /\ LeaseTypes /\ ChainTypes /\ FaultTypes
  BY TypeParts
<1>a. ASSUME Quiet, StepTypes' PROVE TypeOK'
  BY <1>a DEF TypeOK, RowsTypeOK, ChainTypeOK, StepTypes
<1>b. ASSUME UNCHANGED <<faults, tokens, rowVars, leaseVars, balanceVars, ledger>>,
             attempt' \in [Operations -> [Rounds -> AttemptStates]], StepTypes'
      PROVE  TypeOK'
  BY <1>b DEF TypeOK, RowsTypeOK, ChainTypeOK, StepTypes
<1> USE DEF TransferSteps, CoreSteps, SendSteps
<1>1. CASE LookUp(w)
  BY <1>1, <1>0, <1>a, GotoTypes DEF LookUp
<1>2. CASE Sign(w)
  <2>1. attempt' \in [Operations -> [Rounds -> AttemptStates]]
    BY <1>2, <1>0, AttemptTypes DEF Sign, AttemptStates, ChainTypes
  <2>2. StepTypes'
    BY <1>2, <1>0, GotoTypes DEF Sign
  <2> QED
    BY <1>2, <2>1, <2>2, <1>b DEF Sign
<1>3. CASE CheckSaved(w)
  BY <1>3, <1>0, <1>a, GotoTypes DEF CheckSaved
<1>4. CASE RecordSignature(w)
  <2>1. RowTypes'
    BY <1>4, <1>0, BusyWorker, MoveTypes DEF RecordSignature, OperationStatuses, InFlight
  <2>2. StepTypes'
    BY <1>4, <1>0, GotoTypes DEF RecordSignature
  <2>3. chainSignature' \in [Operations -> BOOLEAN]
    BY <1>4, <1>0, BusyWorker DEF RecordSignature, LeaseTypes
  <2> QED
    BY <1>4, <2>1, <2>2, <2>3
    DEF RecordSignature, TypeOK, RowsTypeOK, ChainTypeOK, RowTypes, StepTypes
<1>5. CASE Broadcast(w)
  <2>1. attempt' \in [Operations -> [Rounds -> AttemptStates]]
    BY <1>5, <1>0, AttemptTypes DEF Broadcast, AttemptStates, ChainTypes
  <2>2. StepTypes'
    BY <1>5, <1>0, GotoTypes DEF Broadcast
  <2> QED
    BY <1>5, <2>1, <2>2, <1>b DEF Broadcast
<1>6. CASE Confirm(w)
  BY <1>6, <1>0, <1>a, GotoTypes DEF Confirm
<1>7. CASE ConfirmTimesOut(w)
  BY <1>7, <1>0, <1>a, GotoTypes DEF ConfirmTimesOut
<1>8. CASE CheckChain(w)
  BY <1>8, <1>0, <1>a, GotoTypes DEF CheckChain
<1>9. CASE RecoverSettled(w)
  BY <1>9, <1>0, <1>a, GotoTypes DEF RecoverSettled
<1>10. CASE RecoverPending(w)
  <2>1. attempt' \in [Operations -> [Rounds -> AttemptStates]]
    BY <1>10, <1>0, AttemptTypes DEF RecoverPending, AttemptStates, ChainTypes
  <2>2. StepTypes'
    BY <1>10, <1>0, GotoTypes DEF RecoverPending
  <2> QED
    BY <1>10, <2>1, <2>2, <1>b DEF RecoverPending
<1> QED
  BY <1>1, <1>2, <1>3, <1>4, <1>5, <1>6, <1>7, <1>8, <1>9, <1>10

\* The steps of AccountTransferService, and the end of a step.
LEMMA ServiceStepTypes ==
  ASSUME TypeOK, NEW w \in Workers,
         \/ Reserve(w) \/ SubmitChainTransfer(w) \/ TransferCompleted(w)
         \/ TransferFailed(w) \/ Finalize(w) \/ MarkFinalized(w) \/ Release(w)
  PROVE  TypeOK'
<1> USE DEF rowVars, leaseVars, balanceVars, chainVars
<1>0. RowTypes /\ BookTypes /\ StepTypes /\ LeaseTypes /\ ChainTypes /\ FaultTypes
  BY TypeParts
<1> USE DEF TransferSteps, CoreSteps, SendSteps
<1>a. ASSUME UNCHANGED <<faults, chainSignature, leaseVars, chainVars>>,
             RowTypes', BookTypes', StepTypes'
      PROVE  TypeOK'
  BY <1>a DEF TypeOK, RowsTypeOK, ChainTypeOK, RowTypes, BookTypes, StepTypes
<1>1. CASE Reserve(w)
  <2>1. StepTypes'
    BY <1>1, <1>0, GotoTypes DEF Reserve
  <2>2. RowTypes' /\ BookTypes'
    BY <1>1, <1>0, BusyWorker, ReserveTypes DEF Reserve, BookTypes
  <2> QED
    BY <1>1, <2>1, <2>2, <1>a DEF Reserve
<1>2. CASE SubmitChainTransfer(w)
  <2>1. StepTypes'
    BY <1>2, <1>0, GotoTypes DEF SubmitChainTransfer
  <2> QED
    BY <1>2, <1>0, <2>1, <1>a DEF SubmitChainTransfer, RowTypes, BookTypes
<1>3. CASE TransferCompleted(w)
  <2>1. StepTypes'
    BY <1>3, <1>0, GotoTypes DEF TransferCompleted
  <2>2. RowTypes'
    BY <1>3, <1>0, BusyWorker, MoveTypes DEF TransferCompleted, OperationStatuses, InFlight
  <2> QED
    BY <1>3, <1>0, <2>1, <2>2, <1>a DEF TransferCompleted, BookTypes
<1>4. CASE TransferFailed(w)
  <2>1. StepTypes'
    BY <1>4, <1>0, GotoTypes DEF TransferFailed
  <2>2. op[w] \in Operations
    BY <1>4, <1>0, BusyWorker DEF TransferFailed
  <2>3. RowTypes' /\ BookTypes'
    <3>1. CASE status[op[w]] = "chain_submitted"
      BY <1>4, <1>0, <2>2, <3>1, ReleaseTypes
      DEF TransferFailed, BookTypes, OperationStatuses, Terminal
    <3>2. CASE status[op[w]] # "chain_submitted"
      BY <1>4, <1>0, <3>2 DEF TransferFailed, RowTypes, BookTypes
    <3> QED
      BY <3>1, <3>2
  <2> QED
    BY <1>4, <2>1, <2>3, <1>a DEF TransferFailed
<1>5. CASE Finalize(w)
  <2>1. StepTypes'
    BY <1>5, <1>0, GotoTypes DEF Finalize
  <2>2. op[w] \in Operations
    BY <1>5, <1>0, BusyWorker DEF Finalize
  <2>3. BookTypes'
    <3>1. CASE status[op[w]] = "chain_confirmed"
      BY <1>5, <1>0, <2>2, <3>1, RecordTypes DEF Finalize
    <3>2. CASE status[op[w]] # "chain_confirmed"
      BY <1>5, <1>0, <3>2 DEF Finalize, BookTypes
    <3> QED
      BY <3>1, <3>2
  <2> QED
    BY <1>5, <1>0, <2>1, <2>3, <1>a DEF Finalize, RowTypes
<1>6. CASE MarkFinalized(w)
  <2>1. StepTypes'
    BY <1>6, <1>0, GotoTypes DEF MarkFinalized
  <2>2. RowTypes'
    BY <1>6, <1>0, BusyWorker, MoveTypes DEF MarkFinalized, OperationStatuses, Terminal
  <2> QED
    BY <1>6, <1>0, <2>1, <2>2, <1>a DEF MarkFinalized, BookTypes
<1>7. CASE Release(w)
  <2>1. StepTypes'
    BY <1>7, <1>0, IdleTypes DEF Release
  <2>2. LeaseTypes'
    BY <1>7, <1>0, BusyWorker, WorkersAssumption DEF Release, DropLease, LeaseTypes
  <2> QED
    BY <1>7, <2>1, <2>2
    DEF Release, TypeOK, RowsTypeOK, ChainTypeOK, StepTypes, LeaseTypes
<1> QED
  BY <1>1, <1>2, <1>3, <1>4, <1>5, <1>6, <1>7

LEMMA FaultStepTypes ==
  ASSUME TypeOK, NEW w \in Workers,
         SignFails(w) \/ Abort(w) \/ Crash(w) \/ Heartbeat(w)
  PROVE  TypeOK'
<1> USE DEF rowVars, leaseVars, balanceVars, chainVars, workerVars
<1>0. RowTypes /\ BookTypes /\ StepTypes /\ LeaseTypes /\ ChainTypes /\ FaultTypes
  BY TypeParts
<1> USE DEF TransferSteps, CoreSteps, SendSteps
<1>a. ASSUME Fault PROVE FaultTypes'
  BY <1>a, <1>0, MaxFaultsAssumption DEF Fault, FaultTypes
<1>1. CASE SignFails(w)
  <2>1. attempt' \in [Operations -> [Rounds -> AttemptStates]]
    BY <1>1, <1>0, AttemptTypes DEF SignFails, AttemptStates, ChainTypes
  <2>2. StepTypes'
    BY <1>1, <1>0, GotoTypes DEF SignFails
  <2> QED
    BY <1>1, <1>a, <2>1, <2>2
    DEF SignFails, TypeOK, RowsTypeOK, ChainTypeOK, StepTypes, FaultTypes
<1>2. CASE Abort(w)
  <2>1. StepTypes'
    BY <1>2, <1>0, GotoTypes DEF Abort
  <2> QED
    BY <1>2, <1>a, <2>1
    DEF Abort, TypeOK, RowsTypeOK, ChainTypeOK, StepTypes, FaultTypes
<1>3. CASE Crash(w)
  <2>1. StepTypes'
    BY <1>3, <1>0, IdleTypes DEF Crash
  <2> QED
    BY <1>3, <1>a, <2>1
    DEF Crash, TypeOK, RowsTypeOK, ChainTypeOK, StepTypes, FaultTypes
<1>4. CASE Heartbeat(w)
  BY <1>4, <1>0, BusyWorker DEF Heartbeat, RenewLease, TypeOK, RowsTypeOK, ChainTypeOK
<1> QED
  BY <1>1, <1>2, <1>3, <1>4

LEMMA ChainTypesKept ==
  ASSUME TypeOK, NEW o \in Operations, NEW r \in Rounds, Resolve(o, r)
  PROVE  TypeOK'
<1> USE DEF rowVars, leaseVars, balanceVars, workerVars, TypeOK, RowsTypeOK, ChainTypeOK
<1>0. r = 0 /\ Sender(o, r) = Source[o] /\ Receiver(o, r) = Destination[o]
  BY TransferAssumption DEF Rounds, Sender, Receiver
<1>1. CASE Land(o, r)
  <2>1. attempt' \in [Operations -> [Rounds -> AttemptStates]]
    BY <1>1 DEF Land, AttemptStates
  <2>2. tokens[Source[o]] >= Amount[o]
    BY <1>0, <1>1, TransferKind DEF Land
  <2>3. tokens' = [x \in Wallets |->
                     CASE x = Source[o]      -> tokens[x] - Amount[o]
                       [] x = Destination[o] -> tokens[x] + Amount[o]
                       [] OTHER              -> tokens[x]]
    BY <1>0, <1>1 DEF Land
  <2>4. tokens' \in [Wallets -> Nat]
    BY <2>2, <2>3, TransferKind
  <2> QED
    BY <1>1, <2>1, <2>4 DEF Land
<1>2. CASE Die(o, r)
  BY <1>2 DEF Die, AttemptStates, chainVars
<1> QED
  BY <1>1, <1>2 DEF Resolve

LEMMA NextTypes == TypeOK /\ [Next]_vars => TypeOK'
<1> SUFFICES ASSUME TypeOK, [Next]_vars PROVE TypeOK'
  OBVIOUS
<1>1. CASE UNCHANGED vars
  BY <1>1 DEF vars, rowVars, leaseVars, balanceVars, chainVars, workerVars,
    TypeOK, RowsTypeOK, ChainTypeOK
<1>2. CASE Next
  BY <1>2, RequestTypes, ClaimTypes, ChainStepTypes, ServiceStepTypes, FaultStepTypes,
    ChainTypesKept
  DEF Next, HandlerStep, WorkerFault
<1> QED
  BY <1>1, <1>2

\* Every variable stays within its type, whatever crashes or overlaps; in
\* particular no available, pending or on-chain balance is ever negative.
THEOREM TypeCorrect == Spec => []TypeOK
<1>1. Init => TypeOK
  BY InitTypes
<1>2. TypeOK /\ [Next]_vars => TypeOK'
  BY NextTypes
<1> QED
  BY <1>1, <1>2, PTL DEF Spec

-------------------------------------------------------------------------------
(* Nothing is recorded before it has landed, leases or no leases           *)

LEMMA RoundZero == Rounds = {0}
BY TransferAssumption DEF Rounds

\* No step takes a landing back.
LEMMA LandedStays ==
  ASSUME TypeOK, [Next]_vars, NEW o \in Operations, attempt[o][0] = "landed"
  PROVE  attempt'[o][0] = "landed"
<1> USE DEF chainVars
<1>0. StepTypes /\ attempt \in [Operations -> [Rounds -> AttemptStates]]
  BY TypeParts DEF ChainTypes
<1>1. CASE UNCHANGED vars
  BY <1>1 DEF vars
<1>2. CASE UNCHANGED attempt
  BY <1>2
<1>3. ASSUME NEW w \in Workers, pc[w] # "idle", NEW state, SetMine(w, state),
             Mine(w) # "landed"
      PROVE  attempt'[o][0] = "landed"
  <2>1. op[w] \in Operations /\ round[w] = 0 /\ o # op[w]
    BY <1>0, <1>3, BusyWorker DEF Mine
  <2> QED
    BY <1>0, <1>3, <2>1, RoundZero DEF SetMine
<1>4. ASSUME NEW w \in Workers, HandlerStep(w) PROVE attempt'[o][0] = "landed"
  <2>1. CASE Sign(w)
    BY <2>1, <1>2, <1>3 DEF Sign
  <2>2. CASE Broadcast(w)
    BY <2>2, <1>2, <1>3 DEF Broadcast
  <2>3. CASE RecoverPending(w)
    BY <2>3, <1>2, <1>3 DEF RecoverPending
  <2>4. CASE ~Sign(w) /\ ~Broadcast(w) /\ ~RecoverPending(w)
    BY <1>4, <1>2, <2>4
    DEF HandlerStep, Reserve, SubmitChainTransfer, LookUp, CheckSaved, RecordSignature,
      Confirm, ConfirmTimesOut, CheckChain, RecoverSettled, TransferCompleted,
      TransferFailed, Finalize, MarkFinalized, Release
  <2> QED
    BY <2>1, <2>2, <2>3, <2>4
<1>5. ASSUME NEW w \in Workers, WorkerFault(w) \/ Heartbeat(w)
      PROVE  attempt'[o][0] = "landed"
  <2>1. CASE SignFails(w)
    BY <2>1, <1>2, <1>3 DEF SignFails
  <2>2. CASE Abort(w) \/ Crash(w) \/ Heartbeat(w)
    BY <2>2, <1>2 DEF Abort, Crash, Heartbeat
  <2> QED
    BY <1>5, <2>1, <2>2 DEF WorkerFault
<1>6. ASSUME NEW p \in Operations, NEW r \in Rounds, Resolve(p, r)
      PROVE  attempt'[o][0] = "landed"
  BY <1>0, <1>6, RoundZero DEF Resolve, Land, Die
<1>7. CASE Next
  BY <1>2, <1>4, <1>5, <1>6, <1>7 DEF Next, Begin, RequestReserve, Lapse, Claim
<1> QED
  BY <1>1, <1>7

\* A row reaches a status beyond the chain, and the ledger an entry, only
\* through the steps that saw the transfer land.
LEMMA StatusSteps ==
  ASSUME TypeOK, [Next]_vars, NEW o \in Operations
  PROVE  \/ status'[o] = status[o]
         \/ status'[o] \in {"created", "reserved", "failed", "chain_submitted"}
         \/ \E w \in Workers :
              /\ op[w] = o
              /\ \/ pc[w] = "completed" /\ status'[o] = "chain_confirmed"
                 \/ status[o] = "chain_confirmed" /\ status'[o] = "finalized"
<1> USE DEF rowVars
<1>0. StepTypes /\ RowTypes
  BY TypeParts
<1>1. CASE UNCHANGED vars
  BY <1>1 DEF vars
<1>2. ASSUME NEW p \in Operations, Begin(p) \/ RequestReserve(p) \/ Lapse(p)
      PROVE  status'[o] = status[o] \/ status'[o] \in {"created", "reserved", "failed"}
  BY <1>0, <1>2
  DEF RowTypes, Begin, InsertRow, RequestReserve, ReserveBalance, Lapse
<1>3. ASSUME NEW w \in Workers, HandlerStep(w)
      PROVE  \/ status'[o] = status[o]
             \/ status'[o] \in {"reserved", "failed", "chain_submitted"}
             \/ /\ op[w] = o
                /\ \/ pc[w] = "completed" /\ status'[o] = "chain_confirmed"
                   \/ status[o] = "chain_confirmed" /\ status'[o] = "finalized"
  <2>1. CASE Reserve(w)
    BY <2>1, <1>0, BusyWorker DEF Reserve, ReserveBalance, RowTypes
  <2>2. CASE RecordSignature(w)
    BY <2>2, <1>0, BusyWorker DEF RecordSignature, MoveOrThrow, RowTypes
  <2>3. CASE TransferCompleted(w)
    BY <2>3, <1>0, BusyWorker DEF TransferCompleted, MoveOrThrow, RowTypes
  <2>4. CASE TransferFailed(w)
    BY <2>4, <1>0, BusyWorker DEF TransferFailed, ReleaseBalanceAndEnd, RowTypes
  <2>5. CASE MarkFinalized(w)
    <3>1. op[w] \in Operations
      BY <2>5, <1>0, BusyWorker DEF MarkFinalized
    <3> QED
      BY <2>5, <1>0, <3>1, TransferMoves DEF MarkFinalized, MoveOrThrow, RowTypes
  <2>6. CASE UNCHANGED status
    BY <2>6
  <2> QED
    BY <1>3, <2>1, <2>2, <2>3, <2>4, <2>5, <2>6
    DEF HandlerStep, SubmitChainTransfer, LookUp, Sign, CheckSaved, Broadcast, Confirm,
      ConfirmTimesOut, CheckChain, RecoverSettled, RecoverPending, Finalize, Release
<1>4. CASE Next
  BY <1>2, <1>3, <1>4
  DEF Next, Claim, WorkerFault, SignFails, Abort, Crash, Heartbeat, Resolve, Land, Die
<1> QED
  BY <1>1, <1>4

\* The ledger gains an entry only for a confirmed transfer.
LEMMA LedgerSteps ==
  ASSUME TypeOK, [Next]_vars, NEW o \in Operations, o \in ledger'
  PROVE  o \in ledger \/ status[o] = "chain_confirmed"
<1>0. StepTypes
  BY TypeParts
<1>1. CASE UNCHANGED vars
  BY <1>1 DEF vars
<1>2. ASSUME NEW w \in Workers, HandlerStep(w)
      PROVE  o \in ledger \/ status[o] = "chain_confirmed"
  <2>1. CASE Finalize(w)
    BY <2>1, <1>0, BusyWorker DEF Finalize, RecordOnce
  <2>2. CASE UNCHANGED ledger
    BY <2>2
  <2> QED
    BY <1>2, <2>1, <2>2
    DEF HandlerStep, Reserve, SubmitChainTransfer, LookUp, Sign, CheckSaved,
      RecordSignature, Broadcast, Confirm, ConfirmTimesOut, CheckChain, RecoverSettled,
      RecoverPending, TransferCompleted, TransferFailed, MarkFinalized, Release
<1>3. CASE Next
  BY <1>2, <1>3
  DEF Next, Begin, RequestReserve, Lapse, Claim, WorkerFault, SignFails, Abort, Crash,
    Heartbeat, Resolve, Land, Die
<1> QED
  BY <1>1, <1>3

\* A worker comes to "completed" only from a step that saw its transfer land.
LEMMA CompletedSteps ==
  ASSUME TypeOK, [Next]_vars, NEW v \in Workers, pc'[v] = "completed"
  PROVE  /\ op'[v] = op[v]
         /\ pc[v] = "completed" \/ attempt[op[v]][0] = "landed"
<1>0. StepTypes
  BY TypeParts
<1>1. CASE UNCHANGED vars
  BY <1>1 DEF vars, workerVars
<1>2. CASE UNCHANGED workerVars
  BY <1>2 DEF workerVars
<1>3. ASSUME NEW w \in Workers, NEW step, Goto(w, step),
             v = w => step # "completed" \/ attempt[op[w]][0] = "landed"
      PROVE  /\ op'[v] = op[v]
             /\ pc[v] = "completed" \/ attempt[op[v]][0] = "landed"
  BY <1>0, <1>3 DEF Goto, StepTypes
<1>4. ASSUME NEW w \in Workers, Idle(w)
      PROVE  /\ op'[v] = op[v]
             /\ pc[v] = "completed" \/ attempt[op[v]][0] = "landed"
  BY <1>0, <1>4 DEF Idle, StepTypes
<1>5. ASSUME NEW w \in Workers, NEW o \in Operations, Claim(w, o)
      PROVE  /\ op'[v] = op[v]
             /\ pc[v] = "completed" \/ attempt[op[v]][0] = "landed"
  <2>1. ResumeAction(Kind[o], status[o]) # "completed"
    BY DEF ResumeAction
  <2> QED
    BY <1>0, <1>5, <2>1 DEF Claim, StepTypes
<1>6. ASSUME NEW w \in Workers, HandlerStep(w)
      PROVE  /\ op'[v] = op[v]
             /\ pc[v] = "completed" \/ attempt[op[v]][0] = "landed"
  <2>1. CASE Confirm(w)
    BY <1>0, <1>3, <2>1, BusyWorker DEF Confirm, Mine
  <2>2. CASE RecoverSettled(w)
    BY <1>0, <1>3, <2>2, BusyWorker DEF RecoverSettled, Mine
  <2>3. CASE Release(w)
    BY <1>4, <2>3 DEF Release
  <2>4. CASE Reserve(w) \/ SubmitChainTransfer(w) \/ LookUp(w) \/ Sign(w)
    BY <1>3, <2>4 DEF Reserve, SubmitChainTransfer, LookUp, Sign
  <2>5. CASE CheckSaved(w) \/ RecordSignature(w) \/ Broadcast(w) \/ ConfirmTimesOut(w)
    BY <1>3, <2>5 DEF CheckSaved, RecordSignature, Broadcast, ConfirmTimesOut
  <2>6. CASE CheckChain(w) \/ RecoverPending(w) \/ TransferCompleted(w) \/ TransferFailed(w)
    BY <1>3, <2>6 DEF CheckChain, RecoverPending, TransferCompleted, TransferFailed
  <2>7. CASE Finalize(w) \/ MarkFinalized(w)
    BY <1>3, <2>7 DEF Finalize, MarkFinalized
  <2> QED
    BY <1>6, <2>1, <2>2, <2>3, <2>4, <2>5, <2>6, <2>7 DEF HandlerStep
<1>7. ASSUME NEW w \in Workers, WorkerFault(w)
      PROVE  /\ op'[v] = op[v]
             /\ pc[v] = "completed" \/ attempt[op[v]][0] = "landed"
  BY <1>3, <1>4, <1>7 DEF WorkerFault, SignFails, Abort, Crash
<1>8. CASE Next
  BY <1>2, <1>5, <1>6, <1>7, <1>8
  DEF Next, Begin, RequestReserve, Lapse, Heartbeat, Resolve, Land, Die
<1> QED
  BY <1>1, <1>8

LEMMA LandingStep == TypeOK /\ LandingInv /\ [Next]_vars => LandingInv'
<1> SUFFICES ASSUME TypeOK, LandingInv, [Next]_vars PROVE LandingInv'
  OBVIOUS
<1>0. StepTypes'
  BY NextTypes DEF TypeOK, ChainTypeOK, StepTypes
<1>1. ASSUME NEW o \in Operations, status'[o] \in {"chain_confirmed", "finalized"}
      PROVE  attempt'[o][0] = "landed"
  <2>1. \/ status'[o] = status[o]
        \/ \E w \in Workers :
              op[w] = o /\ (pc[w] = "completed" \/ status[o] = "chain_confirmed")
    BY <1>1, StatusSteps
  <2>2. attempt[o][0] = "landed"
    BY <1>1, <2>1 DEF LandingInv
  <2> QED
    BY <2>2, LandedStays
<1>2. ASSUME NEW o \in Operations, o \in ledger' PROVE attempt'[o][0] = "landed"
  <2>1. attempt[o][0] = "landed"
    BY <1>2, LedgerSteps DEF LandingInv
  <2> QED
    BY <2>1, LandedStays
<1>3. ASSUME NEW w \in Workers, pc'[w] = "completed" PROVE attempt'[op'[w]][0] = "landed"
  <2>1. op'[w] = op[w] /\ attempt[op[w]][0] = "landed"
    BY <1>3, CompletedSteps DEF LandingInv
  <2>2. op[w] \in Operations
    BY <1>0, <1>3, <2>1 DEF StepTypes
  <2> QED
    BY <2>1, <2>2, LandedStays
<1> QED
  BY <1>1, <1>2, <1>3 DEF LandingInv

LEMMA LandingInit == Init => LandingInv
BY RoundZero DEF Init, RowsInit, ChainInit, LandingInv

\* The books record a transfer only after its tokens have landed, for any
\* number of workers, whatever crashes, and even when leases lapse under live
\* workers so that several step one transfer at a time.
THEOREM RecordedAfterLanding == Spec => []RecordedOnlyAfterLanding
<1>1. Init => TypeOK /\ LandingInv
  BY InitTypes, LandingInit
<1>2. TypeOK /\ LandingInv /\ [Next]_vars => TypeOK' /\ LandingInv'
  BY NextTypes, LandingStep
<1>3. TypeOK /\ LandingInv => RecordedOnlyAfterLanding
  BY DEF TypeOK, RowsTypeOK, LandingInv, RecordedOnlyAfterLanding
<1> QED
  BY <1>1, <1>2, <1>3, PTL DEF Spec

-------------------------------------------------------------------------------
(* Reservations move one by one, leases or no leases                       *)

\* A confirmed transfer stays confirmed or is finalized.
LEMMA ConfirmedStays ==
  ASSUME TypeOK, [Next]_vars, NEW o \in Operations,
         status[o] \in {"chain_confirmed", "finalized"}
  PROVE  status'[o] \in {"chain_confirmed", "finalized"}
<1> USE DEF rowVars
<1>0. StepTypes /\ RowTypes
  BY TypeParts
<1>1. CASE UNCHANGED vars
  BY <1>1 DEF vars
<1>2. ASSUME NEW p \in Operations, Begin(p) \/ RequestReserve(p) \/ Lapse(p)
      PROVE  status'[o] = status[o]
  BY <1>0, <1>2
  DEF RowTypes, Begin, InsertRow, RequestReserve, ReserveBalance, Lapse
<1>3. ASSUME NEW w \in Workers, HandlerStep(w)
      PROVE  status'[o] = status[o] \/ status'[o] = "finalized"
  <2>1. CASE Reserve(w)
    BY <2>1, <1>0, BusyWorker DEF Reserve, ReserveBalance, RowTypes
  <2>2. CASE RecordSignature(w)
    BY <2>2, <1>0, BusyWorker, TransferMoves DEF RecordSignature, MoveOrThrow, RowTypes
  <2>3. CASE TransferCompleted(w)
    BY <2>3, <1>0, BusyWorker, TransferMoves DEF TransferCompleted, MoveOrThrow, RowTypes
  <2>4. CASE TransferFailed(w)
    BY <2>4, <1>0, BusyWorker DEF TransferFailed, ReleaseBalanceAndEnd, RowTypes
  <2>5. CASE MarkFinalized(w)
    BY <2>5, <1>0, BusyWorker DEF MarkFinalized, MoveOrThrow, RowTypes
  <2>6. CASE UNCHANGED status
    BY <2>6
  <2> QED
    BY <1>3, <2>1, <2>2, <2>3, <2>4, <2>5, <2>6
    DEF HandlerStep, SubmitChainTransfer, LookUp, Sign, CheckSaved, Broadcast, Confirm,
      ConfirmTimesOut, CheckChain, RecoverSettled, RecoverPending, Finalize, Release
<1>4. CASE Next
  BY <1>2, <1>3, <1>4
  DEF Next, Claim, WorkerFault, SignFails, Abort, Crash, Heartbeat, Resolve, Land, Die
<1> QED
  BY <1>1, <1>4

\* No step takes an entry out of the ledger.
LEMMA LedgerGrows == [Next]_vars => ledger \subseteq ledger'
<1> SUFFICES ASSUME [Next]_vars PROVE ledger \subseteq ledger'
  OBVIOUS
<1>1. CASE UNCHANGED vars
  BY <1>1 DEF vars
<1>2. ASSUME NEW w \in Workers, HandlerStep(w) PROVE ledger \subseteq ledger'
  <2>1. CASE Finalize(w)
    BY <2>1 DEF Finalize, RecordOnce
  <2>2. CASE UNCHANGED ledger
    BY <2>2
  <2> QED
    BY <1>2, <2>1, <2>2
    DEF HandlerStep, Reserve, SubmitChainTransfer, LookUp, Sign, CheckSaved,
      RecordSignature, Broadcast, Confirm, ConfirmTimesOut, CheckChain, RecoverSettled,
      RecoverPending, TransferCompleted, TransferFailed, MarkFinalized, Release
<1>3. CASE Next
  BY <1>2, <1>3
  DEF Next, Begin, RequestReserve, Lapse, Claim, WorkerFault, SignFails, Abort, Crash,
    Heartbeat, Resolve, Land, Die
<1> QED
  BY <1>1, <1>3

\* A worker comes to "recorded" only with the entry of its operation.
LEMMA RecordedSteps ==
  ASSUME TypeOK, [Next]_vars, NEW v \in Workers, pc'[v] = "recorded"
  PROVE  op'[v] = op[v] /\ (pc[v] = "recorded" \/ op[v] \in ledger')
<1>0. StepTypes
  BY TypeParts
<1>1. CASE UNCHANGED vars
  BY <1>1 DEF vars, workerVars
<1>2. CASE UNCHANGED workerVars
  BY <1>2 DEF workerVars
<1>3. ASSUME NEW w \in Workers, NEW step, Goto(w, step),
             v = w => step # "recorded" \/ op[w] \in ledger'
      PROVE  op'[v] = op[v] /\ (pc[v] = "recorded" \/ op[v] \in ledger')
  BY <1>0, <1>3 DEF Goto, StepTypes
<1>4. ASSUME NEW w \in Workers, Idle(w)
      PROVE  op'[v] = op[v] /\ (pc[v] = "recorded" \/ op[v] \in ledger')
  BY <1>0, <1>4 DEF Idle, StepTypes
<1>5. ASSUME NEW w \in Workers, NEW o \in Operations, Claim(w, o)
      PROVE  op'[v] = op[v] /\ (pc[v] = "recorded" \/ op[v] \in ledger')
  <2>1. ResumeAction(Kind[o], status[o]) # "recorded"
    BY DEF ResumeAction
  <2> QED
    BY <1>0, <1>5, <2>1 DEF Claim, StepTypes
<1>6. ASSUME NEW w \in Workers, HandlerStep(w)
      PROVE  op'[v] = op[v] /\ (pc[v] = "recorded" \/ op[v] \in ledger')
  <2>1. CASE Finalize(w)
    <3>1. CASE status[op[w]] = "chain_confirmed" /\ CanRecord(op[w])
      BY <1>3, <2>1, <3>1 DEF Finalize, RecordOnce
    <3>2. CASE ~(status[op[w]] = "chain_confirmed" /\ CanRecord(op[w]))
      BY <1>3, <2>1, <3>2 DEF Finalize
    <3> QED
      BY <3>1, <3>2
  <2>2. CASE Release(w)
    BY <1>4, <2>2 DEF Release
  <2>3. CASE Reserve(w) \/ SubmitChainTransfer(w) \/ LookUp(w) \/ Sign(w)
    BY <1>3, <2>3 DEF Reserve, SubmitChainTransfer, LookUp, Sign
  <2>4. CASE CheckSaved(w) \/ RecordSignature(w) \/ Broadcast(w) \/ ConfirmTimesOut(w)
    BY <1>3, <2>4 DEF CheckSaved, RecordSignature, Broadcast, ConfirmTimesOut
  <2>5. CASE CheckChain(w) \/ RecoverPending(w) \/ TransferCompleted(w) \/ TransferFailed(w)
    BY <1>3, <2>5 DEF CheckChain, RecoverPending, TransferCompleted, TransferFailed
  <2>6. CASE Confirm(w) \/ RecoverSettled(w) \/ MarkFinalized(w)
    BY <1>3, <2>6 DEF Confirm, RecoverSettled, MarkFinalized
  <2> QED
    BY <1>6, <2>1, <2>2, <2>3, <2>4, <2>5, <2>6 DEF HandlerStep
<1>7. ASSUME NEW w \in Workers, WorkerFault(w)
      PROVE  op'[v] = op[v] /\ (pc[v] = "recorded" \/ op[v] \in ledger')
  BY <1>3, <1>4, <1>7 DEF WorkerFault, SignFails, Abort, Crash
<1>8. CASE Next
  BY <1>2, <1>5, <1>6, <1>7, <1>8
  DEF Next, Begin, RequestReserve, Lapse, Heartbeat, Resolve, Land, Die
<1> QED
  BY <1>1, <1>8

LEMMA LedgerInit == Init => LedgerInv
BY DEF Init, RowsInit, ChainInit, LedgerInv

LEMMA LedgerStep == TypeOK /\ LedgerInv /\ [Next]_vars => LedgerInv'
<1> SUFFICES ASSUME TypeOK, LedgerInv, [Next]_vars PROVE LedgerInv'
  OBVIOUS
<1>1. ASSUME NEW o \in ledger' PROVE status'[o] \in {"chain_confirmed", "finalized"}
  <2>1. o \in Operations
    BY NextTypes DEF TypeOK, RowsTypeOK
  <2>2. status[o] \in {"chain_confirmed", "finalized"}
    BY <2>1, LedgerSteps DEF LedgerInv
  <2> QED
    BY <2>1, <2>2, ConfirmedStays
<1>2. ASSUME NEW w \in Workers, pc'[w] = "recorded" PROVE op'[w] \in ledger'
  BY <1>2, RecordedSteps, LedgerGrows DEF LedgerInv
<1> QED
  BY <1>1, <1>2 DEF LedgerInv

SetsAside(o) ==
  /\ ~HoldsReservation(o) /\ HoldsReservation(o)'
  /\ pending' = Shift(pending, Source[o], Amount[o])

GivesUp(o) ==
  /\ HoldsReservation(o) /\ ~HoldsReservation(o)'
  /\ pending' = Less(pending, Source[o], Amount[o])

\* What is pending in a wallet changes only by the amount of one transfer, as
\* that transfer begins or ceases to hold a reservation.
ReservationStep ==
  \/ pending' = pending /\ \A o \in Operations : HoldsReservation(o)' = HoldsReservation(o)
  \/ \E o \in Operations :
       /\ SetsAside(o) \/ GivesUp(o)
       /\ \A p \in Operations \ {o} : HoldsReservation(p)' = HoldsReservation(p)

\* A status that changes on its own keeps what the row holds.
LEMMA QuietMove ==
  ASSUME RowTypes, UNCHANGED <<pending, ledger>>, NEW o \in Operations,
         \A p \in Operations \ {o} : status'[p] = status[p],
         \/ status'[o] = status[o]
         \/ status[o] \in InFlight \ {"created"} /\ status'[o] \in InFlight \ {"created"}
         \/ status[o] \notin InFlight \ {"created"} /\ status'[o] \notin InFlight \ {"created"}
         \/ o \in ledger
  PROVE  ReservationStep
BY DEF ReservationStep, HoldsReservation

LEMMA ReserveMoves ==
  ASSUME TypeOK, LedgerInv, NEW o \in Operations, ReserveBalance(o), UNCHANGED ledger
  PROVE  ReservationStep
<1>0. RowTypes /\ Source[o] # Treasury
  BY TypeParts, TransferKind
<1>1. CASE status[o] # "created"
  BY <1>0, <1>1, QuietMove DEF ReserveBalance, balanceVars
<1>2. CASE status[o] = "created" /\ ~(available[Source[o]] >= Amount[o])
  BY <1>0, <1>2, QuietMove DEF ReserveBalance, balanceVars, RowTypes, InFlight
<1>3. CASE status[o] = "created" /\ available[Source[o]] >= Amount[o]
  <2>1. o \notin ledger
    BY <1>3 DEF LedgerInv
  <2>2. /\ status' = [status EXCEPT ![o] = "reserved"]
        /\ pending' = Shift(pending, Source[o], Amount[o])
    BY <1>3 DEF ReserveBalance
  <2>3. SetsAside(o)
    BY <1>0, <1>3, <2>1, <2>2 DEF SetsAside, HoldsReservation, RowTypes, InFlight
  <2>4. \A p \in Operations \ {o} : HoldsReservation(p)' = HoldsReservation(p)
    BY <1>0, <2>2 DEF HoldsReservation, RowTypes
  <2> QED
    BY <2>3, <2>4 DEF ReservationStep
<1> QED
  BY <1>1, <1>2, <1>3

LEMMA FailureMoves ==
  ASSUME TypeOK, LedgerInv, NEW o \in Operations, status[o] = "chain_submitted",
         ReleaseBalanceAndEnd(o, "failed"), UNCHANGED ledger
  PROVE  ReservationStep
<1>0. RowTypes /\ Source[o] # Treasury
  BY TypeParts, TransferKind
<1>1. CASE UNCHANGED <<status, balanceVars>>
  BY <1>0, <1>1, QuietMove DEF balanceVars
<1>2. CASE ~UNCHANGED <<status, balanceVars>>
  <2>1. o \notin ledger
    BY DEF LedgerInv
  <2>2. /\ status' = [status EXCEPT ![o] = "failed"]
        /\ pending' = Less(pending, Source[o], Amount[o])
    BY <1>2 DEF ReleaseBalanceAndEnd
  <2>3. GivesUp(o)
    BY <1>0, <2>1, <2>2 DEF GivesUp, HoldsReservation, RowTypes, InFlight
  <2>4. \A p \in Operations \ {o} : HoldsReservation(p)' = HoldsReservation(p)
    BY <1>0, <2>2 DEF HoldsReservation, RowTypes
  <2> QED
    BY <2>3, <2>4 DEF ReservationStep
<1> QED
  BY <1>1, <1>2

LEMMA RecordMoves ==
  ASSUME TypeOK, NEW o \in Operations, status[o] = "chain_confirmed",
         RecordOnce(o), UNCHANGED status
  PROVE  ReservationStep
<1>0. RowTypes /\ Source[o] # Treasury
  BY TypeParts, TransferKind
<1>1. CASE UNCHANGED <<ledger, balanceVars>>
  BY <1>0, <1>1, QuietMove DEF balanceVars
<1>2. CASE ~UNCHANGED <<ledger, balanceVars>>
  <2>1. /\ o \notin ledger
        /\ ledger' = ledger \cup {o}
        /\ pending' = Less(pending, Source[o], Amount[o])
    BY <1>0, <1>2 DEF RecordOnce
  <2>2. GivesUp(o)
    BY <1>0, <2>1 DEF GivesUp, HoldsReservation, RowTypes, InFlight
  <2>3. \A p \in Operations \ {o} : HoldsReservation(p)' = HoldsReservation(p)
    BY <2>1 DEF HoldsReservation
  <2> QED
    BY <2>2, <2>3 DEF ReservationStep
<1> QED
  BY <1>1, <1>2

LEMMA OneMoves == TypeOK /\ LedgerInv /\ [Next]_vars => ReservationStep
<1> SUFFICES ASSUME TypeOK, LedgerInv, [Next]_vars PROVE ReservationStep
  OBVIOUS
<1> USE DEF rowVars, balanceVars
<1>0. RowTypes /\ StepTypes
  BY TypeParts
<1>1. ASSUME UNCHANGED <<status, pending, ledger>> PROVE ReservationStep
  BY <1>1 DEF ReservationStep, HoldsReservation
<1>2. CASE UNCHANGED vars
  BY <1>1, <1>2 DEF vars
<1>3. ASSUME NEW o \in Operations, Begin(o) \/ RequestReserve(o) \/ Lapse(o)
      PROVE  ReservationStep
  <2>1. CASE Begin(o)
    BY <1>0, <2>1, QuietMove DEF Begin, InsertRow, RowTypes, InFlight
  <2>2. CASE RequestReserve(o)
    BY <2>2, ReserveMoves DEF RequestReserve
  <2>3. CASE Lapse(o)
    BY <1>1, <2>3 DEF Lapse
  <2> QED
    BY <1>3, <2>1, <2>2, <2>3
<1>4. ASSUME NEW w \in Workers, HandlerStep(w) PROVE ReservationStep
  <2>1. CASE Reserve(w)
    BY <1>0, <2>1, BusyWorker, ReserveMoves DEF Reserve
  <2>2. CASE RecordSignature(w)
    BY <1>0, <2>2, BusyWorker, TransferMoves, QuietMove
    DEF RecordSignature, MoveOrThrow, RowTypes, InFlight
  <2>3. CASE TransferCompleted(w)
    BY <1>0, <2>3, BusyWorker, TransferMoves, QuietMove
    DEF TransferCompleted, MoveOrThrow, RowTypes, InFlight
  <2>4. CASE TransferFailed(w)
    BY <1>0, <1>1, <2>4, BusyWorker, FailureMoves DEF TransferFailed
  <2>5. CASE Finalize(w)
    BY <1>0, <1>1, <2>5, BusyWorker, RecordMoves DEF Finalize
  <2>6. CASE MarkFinalized(w)
    <3>1. op[w] \in Operations /\ op[w] \in ledger
      BY <1>0, <2>6, BusyWorker DEF MarkFinalized, LedgerInv
    <3> QED
      BY <1>0, <2>6, <3>1, QuietMove DEF MarkFinalized, MoveOrThrow, RowTypes
  <2>7. CASE UNCHANGED <<status, pending, ledger>>
    BY <1>1, <2>7
  <2> QED
    BY <1>4, <2>1, <2>2, <2>3, <2>4, <2>5, <2>6, <2>7
    DEF HandlerStep, SubmitChainTransfer, LookUp, Sign, CheckSaved, Broadcast, Confirm,
      ConfirmTimesOut, CheckChain, RecoverSettled, RecoverPending, Release
<1>5. CASE Next
  BY <1>1, <1>3, <1>4, <1>5
  DEF Next, Claim, WorkerFault, SignFails, Abort, Crash, Heartbeat, Resolve, Land, Die
<1> QED
  BY <1>2, <1>5

-------------------------------------------------------------------------------
(* The balances add up, leases or no leases                                *)

\* Amounts of operations can be added.
LEMMA Amounts ==
  ASSUME NEW S \in SUBSET Operations
  PROVE  /\ IsFiniteSet(S)
         /\ \A o \in S : Amount[o] \in Int
         /\ SumFunctionOnSet(Amount, S) \in Int
<1>1. IsFiniteSet(S)
  BY OperationsAssumption, FS_Subset
<1>2. \A o \in S : Amount[o] \in Int
  BY AmountAssumption
<1> QED
  BY <1>1, <1>2, SumIsInt

\* One operation more, and one less.
LEMMA AmountsWith ==
  ASSUME NEW S \in SUBSET Operations, NEW o \in Operations \ S
  PROVE  SumFunctionOnSet(Amount, S \cup {o}) = SumFunctionOnSet(Amount, S) + Amount[o]
<1>1. /\ IsFiniteSet(S) /\ \A x \in S : Amount[x] \in Int
      /\ SumFunctionOnSet(Amount, S) \in Int /\ Amount[o] \in Int
  BY Amounts, AmountAssumption
<1>2. SumFunctionOnSet(Amount, S \cup {o}) = Amount[o] + SumFunctionOnSet(Amount, S)
  BY <1>1, SumWith
<1> QED
  BY <1>1, <1>2

LEMMA AmountsWithout ==
  ASSUME NEW S \in SUBSET Operations, NEW o \in S
  PROVE  SumFunctionOnSet(Amount, S \ {o}) = SumFunctionOnSet(Amount, S) - Amount[o]
<1>1. o \in Operations \ (S \ {o}) /\ (S \ {o}) \cup {o} = S
  OBVIOUS
<1>2. SumFunctionOnSet(Amount, S) = SumFunctionOnSet(Amount, S \ {o}) + Amount[o]
  BY <1>1, AmountsWith, S \ {o} \in SUBSET Operations
<1>3. SumFunctionOnSet(Amount, S \ {o}) \in Int /\ Amount[o] \in Int
  BY Amounts, AmountAssumption, S \ {o} \in SUBSET Operations
<1> QED
  BY <1>2, <1>3

Holders(x) == {o \in Operations : Source[o] = x /\ HoldsReservation(o)}

\* What a step moves between reserved and not, it moves between the balances.
LEMMA BackedStep ==
  ASSUME TypeOK, ReservationsAreBacked, ReservationStep
  PROVE  ReservationsAreBacked'
<1> SUFFICES ASSUME NEW x \in Wallets
             PROVE  pending'[x] = SumFunctionOnSet(Amount, Holders(x)')
  BY DEF ReservationsAreBacked, Holders
<1>0. pending \in [Wallets -> Nat]
  BY DEF TypeOK, RowsTypeOK
<1>1. pending[x] = SumFunctionOnSet(Amount, Holders(x)) /\ Holders(x) \in SUBSET Operations
  BY DEF ReservationsAreBacked, Holders
<1>2. CASE pending' = pending /\ \A o \in Operations : HoldsReservation(o)' = HoldsReservation(o)
  <2>1. Holders(x)' = Holders(x)
    BY <1>2, Zenon DEF Holders
  <2> QED
    BY <1>1, <1>2, <2>1
<1>3. ASSUME NEW o \in Operations, SetsAside(o) \/ GivesUp(o),
             \A p \in Operations \ {o} : HoldsReservation(p)' = HoldsReservation(p)
      PROVE  pending'[x] = SumFunctionOnSet(Amount, Holders(x)')
  <2>0. Amount[o] \in Nat
    BY AmountAssumption
  <2>1. CASE Source[o] # x
    <3>1. pending'[x] = pending[x]
      BY <1>0, <1>3, <2>1 DEF SetsAside, GivesUp, Shift, Less
    <3>2. \A p \in Operations : Source[p] = x =>
                 HoldsReservation(p)' = HoldsReservation(p)
      BY <1>3, <2>1, Zenon
    <3>3. Holders(x)' = Holders(x)
      BY <3>2, Zenon DEF Holders
    <3> QED
      BY <1>1, <3>1, <3>3
  <2>2. CASE Source[o] = x /\ SetsAside(o)
    <3>1. pending'[x] = pending[x] + Amount[o]
      BY <1>0, <2>2 DEF SetsAside, Shift
    <3>2. o \notin Holders(x) /\ Holders(x)' = Holders(x) \cup {o}
      BY <1>3, <2>2, Zenon DEF Holders, SetsAside
    <3> QED
      BY <1>1, <3>1, <3>2, AmountsWith
  <2>3. CASE Source[o] = x /\ GivesUp(o)
    <3>1. pending'[x] = pending[x] - Amount[o]
      BY <1>0, <2>3 DEF GivesUp, Less
    <3>2. o \in Holders(x) /\ o \notin Holders(x)'
      BY <2>3, Zenon DEF Holders, GivesUp
    <3>3. \A p \in Operations \ {o} : p \in Holders(x)' <=> p \in Holders(x)
      BY <1>3, Zenon DEF Holders
    <3>4. Holders(x)' = Holders(x) \ {o}
      <4>1. Holders(x) \in SUBSET Operations /\ Holders(x)' \in SUBSET Operations
        BY DEF Holders
      <4> HIDE DEF Holders
      <4> QED
        BY <3>2, <3>3, <4>1
    <3> QED
      BY <1>1, <3>1, <3>2, <3>4, AmountsWithout
  <2> QED
    BY <1>3, <2>1, <2>2, <2>3
<1> QED
  BY <1>2, <1>3 DEF ReservationStep

LEMMA BackedInit == Init => ReservationsAreBacked
<1> SUFFICES ASSUME Init, NEW x \in Wallets
             PROVE  pending[x] = SumFunctionOnSet(Amount, Holders(x))
  BY DEF ReservationsAreBacked, Holders
<1>1. Holders(x) = {}
  BY DEF Init, RowsInit, Holders, HoldsReservation, InFlight
<1>2. pending[x] = 0
  BY DEF Init, RowsInit
<1> QED
  BY <1>1, <1>2, SumOfNone

\* What a wallet holds as pending is exactly what the unfinished transfers out
\* of it have set aside, for any number of transfers and workers, and even
\* when leases lapse under live workers.
THEOREM ReservationsBacked == Spec => []ReservationsAreBacked
<1>1. Init => TypeOK /\ LedgerInv /\ ReservationsAreBacked
  BY InitTypes, LedgerInit, BackedInit
<1>2. ASSUME TypeOK, LedgerInv, ReservationsAreBacked, [Next]_vars
      PROVE  TypeOK' /\ LedgerInv' /\ ReservationsAreBacked'
  BY <1>2, NextTypes, LedgerStep, OneMoves, BackedStep
<1> QED
  BY <1>1, <1>2, PTL DEF Spec

-------------------------------------------------------------------------------
(* Leases keep workers apart                                               *)

\* Two busy workers step different operations.
LEMMA Alone ==
  ASSUME StepTypes, LeaseInv, NEW v \in Workers, NEW w \in Workers, v # w,
         pc[v] # "idle", pc[w] # "idle"
  PROVE  op[v] # op[w]
BY DEF LeaseInv

\* A step of a worker that is not the release of its lease.
LEMMA WorkerKeepsLeases ==
  ASSUME NEW w \in Workers, HandlerStep(w) \/ WorkerFault(w)
  PROVE  UNCHANGED leaseVars \/ Release(w)
BY DEF HandlerStep, WorkerFault, Reserve, SubmitChainTransfer, LookUp, Sign, CheckSaved,
  RecordSignature, Broadcast, Confirm, ConfirmTimesOut, CheckChain, RecoverSettled,
  RecoverPending, TransferCompleted, TransferFailed, Finalize, MarkFinalized,
  SignFails, Abort, Crash

\* A worker's step changes no other worker, and leaves it where its operation
\* is the same or it is idle.
LEMMA WorkerMoves ==
  ASSUME StepTypes, NEW w \in Workers, HandlerStep(w) \/ WorkerFault(w)
  PROVE  /\ pc[w] # "idle"
         /\ \A v \in Workers \ {w} : pc'[v] = pc[v] /\ op'[v] = op[v]
         /\ op'[w] = op[w] \/ pc'[w] = "idle"
<1>1. ASSUME NEW step, Goto(w, step)
      PROVE  /\ \A v \in Workers \ {w} : pc'[v] = pc[v] /\ op'[v] = op[v]
             /\ op'[w] = op[w] \/ pc'[w] = "idle"
  BY <1>1 DEF Goto, StepTypes
<1>2. ASSUME Idle(w)
      PROVE  /\ \A v \in Workers \ {w} : pc'[v] = pc[v] /\ op'[v] = op[v]
             /\ op'[w] = op[w] \/ pc'[w] = "idle"
  BY <1>2 DEF Idle, StepTypes
<1>3. CASE Reserve(w) \/ SubmitChainTransfer(w) \/ LookUp(w) \/ Sign(w) \/ CheckSaved(w)
  BY <1>1, <1>3 DEF Reserve, SubmitChainTransfer, LookUp, Sign, CheckSaved
<1>4. CASE RecordSignature(w) \/ Broadcast(w) \/ Confirm(w) \/ ConfirmTimesOut(w)
  BY <1>1, <1>4 DEF RecordSignature, Broadcast, Confirm, ConfirmTimesOut
<1>5. CASE CheckChain(w) \/ RecoverSettled(w) \/ RecoverPending(w)
  BY <1>1, <1>5 DEF CheckChain, RecoverSettled, RecoverPending
<1>6. CASE TransferCompleted(w) \/ TransferFailed(w) \/ Finalize(w) \/ MarkFinalized(w)
  BY <1>1, <1>6 DEF TransferCompleted, TransferFailed, Finalize, MarkFinalized
<1>7. CASE Release(w)
  BY <1>2, <1>7 DEF Release
<1>8. CASE SignFails(w) \/ Abort(w) \/ Crash(w)
  BY <1>1, <1>2, <1>8 DEF SignFails, Abort, Crash
<1> QED
  BY <1>3, <1>4, <1>5, <1>6, <1>7, <1>8 DEF HandlerStep, WorkerFault

LEMMA LeaseStep ==
  ASSUME ~LeaseMayLapse, TypeOK, LeaseInv, [Next]_vars
  PROVE  LeaseInv'
<1>0. StepTypes /\ LeaseTypes
  BY TypeParts
<1>1. CASE UNCHANGED <<leaseVars, workerVars>>
  BY <1>1 DEF leaseVars, workerVars, LeaseInv
<1>2. ASSUME NEW o \in Operations, Lapse(o) PROVE LeaseInv'
  <2> SUFFICES ASSUME NEW v \in Workers, pc'[v] # "idle"
               PROVE  claimedBy'[op'[v]] = v /\ claimLive'[op'[v]]
    BY DEF LeaseInv
  <2>1. pc[v] # "idle" /\ op'[v] = op[v]
    BY <1>2 DEF Lapse, workerVars
  <2>2. claimedBy[op[v]] = v /\ claimLive[op[v]]
    BY <2>1 DEF LeaseInv
  <2>3. op[v] # o
    BY <1>2, <2>2 DEF Lapse
  <2> QED
    BY <1>0, <1>2, <2>1, <2>2, <2>3, BusyWorker DEF Lapse, LeaseTypes
<1>3. ASSUME NEW w \in Workers, NEW o \in Operations, Claim(w, o) PROVE LeaseInv'
  <2> SUFFICES ASSUME NEW v \in Workers, pc'[v] # "idle"
               PROVE  claimedBy'[op'[v]] = v /\ claimLive'[op'[v]]
    BY DEF LeaseInv
  <2>1. CASE v = w
    BY <1>0, <1>3, <2>1 DEF Claim, TakeLease, StepTypes, LeaseTypes
  <2>2. CASE v # w
    <3>1. pc[v] # "idle" /\ op'[v] = op[v]
      BY <1>0, <1>3, <2>2 DEF Claim, StepTypes
    <3>2. claimedBy[op[v]] = v /\ claimLive[op[v]] /\ op[v] # o
      BY <1>3, <3>1 DEF LeaseInv, Claim, TakeLease
    <3> QED
      BY <1>0, <1>3, <3>1, <3>2, BusyWorker DEF Claim, TakeLease, LeaseTypes
  <2> QED
    BY <2>1, <2>2
<1>4. ASSUME NEW w \in Workers, HandlerStep(w) \/ WorkerFault(w) PROVE LeaseInv'
  <2> SUFFICES ASSUME NEW v \in Workers, pc'[v] # "idle"
               PROVE  claimedBy'[op'[v]] = v /\ claimLive'[op'[v]]
    BY DEF LeaseInv
  <2>1. pc[v] # "idle" /\ op'[v] = op[v]
    BY <1>0, <1>4, WorkerMoves
  <2>2. claimedBy[op[v]] = v /\ claimLive[op[v]]
    BY <2>1 DEF LeaseInv
  <2>3. CASE UNCHANGED leaseVars
    BY <2>1, <2>2, <2>3 DEF leaseVars
  <2>4. CASE Release(w)
    <3>1. v # w
      BY <1>0, <2>4 DEF Release, Idle, StepTypes
    <3>2. op[v] # op[w]
      BY <1>0, <1>4, <2>1, <3>1, Alone, WorkerMoves
    <3> QED
      BY <1>0, <2>1, <2>2, <2>4, <3>2, BusyWorker
      DEF Release, DropLease, leaseVars, LeaseTypes
  <2> QED
    BY <1>4, <2>3, <2>4, WorkerKeepsLeases
<1>5. ASSUME NEW w \in Workers, Heartbeat(w) PROVE LeaseInv'
  <2>1. op[w] \in Operations
    BY <1>0, <1>5, BusyWorker DEF Heartbeat
  <2> QED
    BY <1>0, <1>5, <2>1, BusyWorker
    DEF Heartbeat, RenewLease, LeaseInv, LeaseTypes, workerVars
<1>6. CASE Next
  BY <1>1, <1>2, <1>3, <1>4, <1>5, <1>6
  DEF Next, Begin, RequestReserve, Resolve, Land, Die
<1> QED
  BY <1>1, <1>6 DEF vars, leaseVars, workerVars

-------------------------------------------------------------------------------
(* A transfer that failed has moved nothing                                *)

\* What a step of a worker does to the rows: only those of its operation.
LEMMA WorkerRows ==
  ASSUME TypeOK, NEW w \in Workers, HandlerStep(w) \/ WorkerFault(w),
         NEW o \in Operations, o # op[w]
  PROVE  status'[o] = status[o] /\ attempt'[o] = attempt[o]
<1> USE DEF rowVars, chainVars
<1>0. StepTypes /\ RowTypes /\ ChainTypes
  BY TypeParts
<1>1. ASSUME NEW state, SetMine(w, state) PROVE attempt'[o] = attempt[o]
  BY <1>0, <1>1 DEF SetMine, ChainTypes
<1>2. CASE Reserve(w) \/ RecordSignature(w) \/ TransferCompleted(w)
           \/ TransferFailed(w) \/ MarkFinalized(w)
  BY <1>0, <1>2
  DEF Reserve, RecordSignature, TransferCompleted, TransferFailed, MarkFinalized,
    ReserveBalance, MoveOrThrow, ReleaseBalanceAndEnd, RowTypes
<1>3. CASE Sign(w) \/ Broadcast(w) \/ RecoverPending(w) \/ SignFails(w)
  BY <1>1, <1>3 DEF Sign, Broadcast, RecoverPending, SignFails
<1>4. CASE SubmitChainTransfer(w) \/ LookUp(w) \/ CheckSaved(w) \/ Confirm(w)
           \/ ConfirmTimesOut(w) \/ CheckChain(w) \/ RecoverSettled(w) \/ Finalize(w)
           \/ Release(w) \/ Abort(w) \/ Crash(w)
  BY <1>4
  DEF SubmitChainTransfer, LookUp, CheckSaved, Confirm, ConfirmTimesOut, CheckChain,
    RecoverSettled, Finalize, Release, Abort, Crash
<1> QED
  BY <1>2, <1>3, <1>4 DEF HandlerStep, WorkerFault

\* The worker's own part of WorkerInv.
LEMMA OwnStep ==
  ASSUME TypeOK, WorkerInv, NEW w \in Workers, HandlerStep(w) \/ WorkerFault(w)
  PROVE  /\ pc'[w] \in {"look_up", "sign", "unsaved"} => status'[op'[w]] = "reserved"
         /\ pc'[w] = "failed" =>
              status'[op'[w]] = "reserved" \/ attempt'[op'[w]][0] = "dead"
<1> USE DEF rowVars, chainVars
<1>0. StepTypes /\ RowTypes /\ ChainTypes
  BY TypeParts
<1>1. ASSUME NEW step, Goto(w, step) PROVE pc'[w] = step /\ op'[w] = op[w]
  BY <1>0, <1>1 DEF Goto, StepTypes
<1>2. ASSUME Idle(w) PROVE pc'[w] = "idle"
  BY <1>0, <1>2 DEF Idle, StepTypes
<1>3. CASE SubmitChainTransfer(w)
  BY <1>1, <1>3 DEF SubmitChainTransfer
<1>4. CASE LookUp(w)
  BY <1>1, <1>4 DEF LookUp, WorkerInv
<1>5. CASE Sign(w)
  BY <1>1, <1>5 DEF Sign, WorkerInv
<1>6. CASE SignFails(w)
  BY <1>1, <1>6 DEF SignFails, WorkerInv
<1>7. CASE CheckSaved(w)
  BY <1>1, <1>7 DEF CheckSaved, WorkerInv
<1>8. CASE RecoverSettled(w)
  BY <1>0, <1>1, <1>8, BusyWorker DEF RecoverSettled, Mine
<1>9. CASE Reserve(w) \/ RecordSignature(w) \/ Broadcast(w) \/ Confirm(w)
           \/ ConfirmTimesOut(w) \/ CheckChain(w) \/ RecoverPending(w)
  BY <1>1, <1>9
  DEF Reserve, RecordSignature, Broadcast, Confirm, ConfirmTimesOut, CheckChain,
    RecoverPending
<1>10. CASE TransferCompleted(w) \/ TransferFailed(w) \/ Finalize(w) \/ MarkFinalized(w)
            \/ Abort(w)
  BY <1>1, <1>10 DEF TransferCompleted, TransferFailed, Finalize, MarkFinalized, Abort
<1>11. CASE Release(w) \/ Crash(w)
  BY <1>2, <1>11 DEF Release, Crash
<1> QED
  BY <1>3, <1>4, <1>5, <1>6, <1>7, <1>8, <1>9, <1>10, <1>11 DEF HandlerStep, WorkerFault

LEMMA WorkerInvStep ==
  ASSUME TypeOK, LeaseInv, WorkerInv, [Next]_vars
  PROVE  WorkerInv'
<1> USE DEF rowVars, chainVars, workerVars
<1>0. StepTypes /\ RowTypes /\ ChainTypes
  BY TypeParts
<1>1. CASE UNCHANGED <<status, attempt, workerVars>>
  BY <1>1 DEF WorkerInv
<1>2. ASSUME NEW o \in Operations, Begin(o) \/ RequestReserve(o) PROVE WorkerInv'
  <2>1. /\ status[o] \in {"absent", "created"}
        /\ \A p \in Operations \ {o} : status'[p] = status[p]
        /\ UNCHANGED <<attempt, workerVars>>
    BY <1>0, <1>2 DEF Begin, InsertRow, RequestReserve, ReserveBalance, RowTypes
  <2> QED
    BY <1>0, <2>1, BusyWorker DEF WorkerInv
<1>3. ASSUME NEW w \in Workers, NEW o \in Operations, Claim(w, o) PROVE WorkerInv'
  <2>1. ResumeAction(Kind[o], status[o])
          \notin {"look_up", "sign", "unsaved", "failed"}
    BY DEF ResumeAction
  <2> QED
    BY <1>0, <1>3, <2>1 DEF Claim, WorkerInv, StepTypes
<1>4. ASSUME NEW w \in Workers, HandlerStep(w) \/ WorkerFault(w) PROVE WorkerInv'
  <2> SUFFICES ASSUME NEW v \in Workers
               PROVE  /\ pc'[v] \in {"look_up", "sign", "unsaved"} =>
                           status'[op'[v]] = "reserved"
                      /\ pc'[v] = "failed" =>
                           status'[op'[v]] = "reserved" \/ attempt'[op'[v]][0] = "dead"
    BY DEF WorkerInv
  <2>1. CASE v = w
    BY <1>4, <2>1, OwnStep
  <2>2. CASE v # w /\ pc[v] # "idle"
    <3>1. pc'[v] = pc[v] /\ op'[v] = op[v] /\ op[v] # op[w] /\ op[v] \in Operations
      BY <1>0, <1>4, <2>2, WorkerMoves, Alone, BusyWorker
    <3>2. status'[op[v]] = status[op[v]] /\ attempt'[op[v]] = attempt[op[v]]
      BY <1>4, <3>1, WorkerRows
    <3> QED
      BY <3>1, <3>2 DEF WorkerInv
  <2>3. CASE v # w /\ pc[v] = "idle"
    BY <1>0, <1>4, <2>3, WorkerMoves
  <2> QED
    BY <2>1, <2>2, <2>3
<1>5. ASSUME NEW o \in Operations, NEW r \in Rounds, Resolve(o, r) PROVE WorkerInv'
  <2>1. UNCHANGED <<status, workerVars>>
    BY <1>5 DEF Resolve, Land, Die
  <2>2. \A p \in Operations : attempt[p][0] = "dead" => attempt'[p][0] = "dead"
    BY <1>0, <1>5, RoundZero DEF Resolve, Land, Die, ChainTypes
  <2> QED
    BY <1>0, <2>1, <2>2, BusyWorker DEF WorkerInv
<1>6. CASE Next
  BY <1>1, <1>2, <1>3, <1>4, <1>5, <1>6 DEF Next, Lapse, Heartbeat
<1> QED
  BY <1>1, <1>6 DEF vars

\* FailureMovedNothing, and that nothing is signed for a fresh row, for one
\* operation and the state of its row and attempt.
Clean(s, a) ==
  /\ s = "failed" => a \in {"none", "dead"}
  /\ s \in {"absent", "created"} => a = "none"

LEMMA CleanStep ==
  ASSUME TypeOK, TransferInv, [Next]_vars, NEW o \in Operations
  PROVE  Clean(status'[o], attempt'[o][0])
<1> USE DEF rowVars, chainVars, Clean
<1>0. /\ StepTypes /\ RowTypes /\ ChainTypes
      /\ Clean(status[o], attempt[o][0])
      /\ WorkerInv
  BY TypeParts DEF TransferInv, FailureMovedNothing
<1>1. CASE UNCHANGED <<status, attempt>>
  BY <1>0, <1>1
<1>2. ASSUME NEW p \in Operations, Begin(p) \/ RequestReserve(p)
      PROVE  Clean(status'[o], attempt'[o][0])
  BY <1>0, <1>2 DEF Begin, InsertRow, RequestReserve, ReserveBalance, RowTypes
<1>3. ASSUME NEW w \in Workers, HandlerStep(w) \/ WorkerFault(w), op[w] = o
      PROVE  Clean(status'[o], attempt'[o][0])
  <2>0. round[w] = 0
    BY <1>0, <1>3, WorkerMoves, BusyWorker
  <2>a. ASSUME NEW state, SetMine(w, state) PROVE attempt'[o][0] = state
    BY <1>0, <1>3, <2>0, <2>a, RoundZero DEF SetMine, ChainTypes
  <2>1. CASE Reserve(w)
    BY <1>0, <1>3, <2>1 DEF Reserve, ReserveBalance, RowTypes
  <2>2. CASE RecordSignature(w)
    BY <1>0, <1>3, <2>2 DEF RecordSignature, MoveOrThrow, RowTypes
  <2>3. CASE TransferCompleted(w)
    BY <1>0, <1>3, <2>3 DEF TransferCompleted, MoveOrThrow, RowTypes
  <2>4. CASE TransferFailed(w)
    <3>1. CASE status[o] = "chain_submitted"
      <4>1. attempt[o][0] = "dead"
        BY <1>0, <1>3, <2>4, <3>1 DEF TransferFailed, WorkerInv
      <4> QED
        BY <1>0, <1>3, <2>4, <3>1, <4>1 DEF TransferFailed, ReleaseBalanceAndEnd, RowTypes
    <3>2. CASE status[o] # "chain_submitted"
      BY <1>0, <1>3, <2>4, <3>2 DEF TransferFailed
    <3> QED
      BY <3>1, <3>2
  <2>5. CASE MarkFinalized(w)
    BY <1>0, <1>3, <2>5 DEF MarkFinalized, MoveOrThrow, RowTypes
  <2>6. CASE Sign(w) \/ SignFails(w)
    <3>1. status[o] = "reserved" /\ status' = status
      BY <1>0, <1>3, <2>6 DEF Sign, SignFails, WorkerInv
    <3> QED
      BY <3>1
  <2>7. CASE Broadcast(w) \/ RecoverPending(w)
    <3>1. CASE UNCHANGED attempt
      BY <1>0, <2>7, <3>1 DEF Broadcast, RecoverPending
    <3>2. CASE Mine(w) = "prepared"
      <4>1. status[o] \notin {"failed", "absent", "created"} /\ status' = status
        BY <1>0, <1>3, <2>0, <2>7, <3>2 DEF Broadcast, RecoverPending, Mine
      <4> QED
        BY <4>1
    <3> QED
      BY <2>7, <3>1, <3>2 DEF Broadcast, RecoverPending
  <2>8. CASE UNCHANGED <<status, attempt>>
    BY <1>0, <2>8
  <2> QED
    BY <1>3, <2>1, <2>2, <2>3, <2>4, <2>5, <2>6, <2>7, <2>8
    DEF HandlerStep, WorkerFault, SubmitChainTransfer, LookUp, CheckSaved, Confirm,
      ConfirmTimesOut, CheckChain, RecoverSettled, Finalize, Release, Abort, Crash
<1>4. ASSUME NEW w \in Workers, HandlerStep(w) \/ WorkerFault(w), op[w] # o
      PROVE  Clean(status'[o], attempt'[o][0])
  BY <1>0, <1>4, WorkerRows
<1>5. ASSUME NEW p \in Operations, NEW r \in Rounds, Resolve(p, r)
      PROVE  Clean(status'[o], attempt'[o][0])
  <2>1. UNCHANGED status
    BY <1>5 DEF Resolve, Land, Die
  <2>2. attempt'[o][0] = attempt[o][0] \/ attempt[o][0] \in {"prepared", "broadcast"}
    BY <1>0, <1>5, RoundZero DEF Resolve, Land, Die, ChainTypes
  <2> QED
    BY <1>0, <2>1, <2>2
<1>6. CASE Next
  BY <1>1, <1>2, <1>3, <1>4, <1>5, <1>6 DEF Next, Claim, Lapse, Heartbeat
<1> QED
  BY <1>1, <1>6 DEF vars

LEMMA TransferInvStep ==
  ASSUME ~LeaseMayLapse, TypeOK, TransferInv, [Next]_vars
  PROVE  TransferInv'
<1>1. LandingInv'
  BY LandingStep DEF TransferInv
<1>2. LeaseInv'
  BY LeaseStep DEF TransferInv
<1>3. WorkerInv'
  BY WorkerInvStep DEF TransferInv
<1>4. \A o \in Operations : Clean(status'[o], attempt'[o][0])
  BY CleanStep
<1> QED
  BY <1>1, <1>2, <1>3, <1>4 DEF TransferInv, FailureMovedNothing, Clean

LEMMA TransferInvInit == Init => TransferInv
<1> SUFFICES ASSUME Init PROVE TransferInv
  OBVIOUS
<1>1. LandingInv
  BY LandingInit
<1>2. LeaseInv /\ WorkerInv
  BY DEF Init, ChainInit, LeaseInv, WorkerInv
<1>3. \A o \in Operations : status[o] = "absent" /\ attempt[o][0] = "none"
  BY RoundZero DEF Init, RowsInit, ChainInit
<1> QED
  BY <1>1, <1>2, <1>3 DEF TransferInv, FailureMovedNothing

\* While no live worker loses its lease, a transfer that is reported as failed
\* has moved nothing and never will, whatever crashes, raises or is lost.
THEOREM FailedMovedNothing ==
  ASSUME ~LeaseMayLapse
  PROVE  Spec => []FailureMovedNothing
<1>1. Init => TypeOK /\ TransferInv
  BY InitTypes, TransferInvInit
<1>2. TypeOK /\ TransferInv /\ [Next]_vars => TypeOK' /\ TransferInv'
  BY NextTypes, TransferInvStep
<1>3. TransferInv => FailureMovedNothing
  BY DEF TransferInv
<1> QED
  BY <1>1, <1>2, <1>3, PTL DEF Spec

-------------------------------------------------------------------------------
(* A transfer implements MoneyMovement                                     *)

Moved   == {o \in Operations : attempt[o][0] = "landed"}
Refused == {o \in Operations : status[o] = "failed"}

\* A status change that the state machine allows neither enters nor leaves failure.
LEMMA MoveKeepsRefused ==
  ASSUME RowTypes, NEW o \in Operations, NEW to, to # "failed", MoveOrThrow(o, to)
  PROVE  Refused' = Refused
<1>1. CanMove(o, to) => status[o] # "failed"
  BY DEF CanMove, CanTransition, Terminal
<1> QED
  BY <1>1 DEF MoveOrThrow, Refused, RowTypes

\* A reservation fails only a fresh operation, which has moved nothing.
LEMMA ReserveRefuses ==
  ASSUME TypeOK, TransferInv, NEW o \in Operations, ReserveBalance(o)
  PROVE  \/ Refused' = Refused
         \/ o \notin Moved \cup Refused /\ Refused' = Refused \cup {o}
<1>0. RowTypes /\ (status[o] = "created" => attempt[o][0] = "none")
  BY TypeParts DEF TransferInv
<1>1. CASE status' = status
  BY <1>1 DEF Refused
<1>2. CASE status[o] = "created" /\ status' = [status EXCEPT ![o] = "reserved"]
  BY <1>0, <1>2 DEF Refused, RowTypes
<1>3. CASE status[o] = "created" /\ status' = [status EXCEPT ![o] = "failed"]
  BY <1>0, <1>3 DEF Refused, Moved, RowTypes
<1> QED
  BY <1>1, <1>2, <1>3 DEF ReserveBalance

\* Saving or sending a transaction is not a landing.
LEMMA SendKeepsMoved ==
  ASSUME TypeOK, NEW w \in Workers, pc[w] # "idle", NEW state \in {"prepared", "broadcast"},
         Mine(w) \in {"none", "prepared"}, SetMine(w, state)
  PROVE  Moved' = Moved
<1>1. StepTypes /\ ChainTypes
  BY TypeParts
<1>2. op[w] \in Operations /\ round[w] = 0
  BY <1>1, BusyWorker
<1>3. attempt[op[w]][0] # "landed" /\ attempt'[op[w]][0] = state
  BY <1>1, <1>2, RoundZero DEF Mine, SetMine, ChainTypes
<1>4. \A o \in Operations \ {op[w]} : attempt'[o] = attempt[o]
  BY <1>1 DEF SetMine, ChainTypes
<1> QED
  BY <1>2, <1>3, <1>4 DEF Moved

\* What one step does to the three sets of MoneyMovement.
LEMMA PromiseStep ==
  ASSUME TypeOK, TransferInv, [Next]_vars
  PROVE  \/ Moved' = Moved /\ ledger' = ledger /\ Refused' = Refused
         \/ \E o \in Operations :
              \/ /\ o \notin Moved \cup Refused
                 /\ Moved' = Moved \cup {o} /\ ledger' = ledger /\ Refused' = Refused
              \/ /\ o \in Moved \ ledger
                 /\ ledger' = ledger \cup {o} /\ Moved' = Moved /\ Refused' = Refused
              \/ /\ o \notin Moved \cup Refused
                 /\ Refused' = Refused \cup {o} /\ Moved' = Moved /\ ledger' = ledger
<1> DEFINE Promised ==
      \/ Moved' = Moved /\ ledger' = ledger /\ Refused' = Refused
      \/ \E o \in Operations :
           \/ /\ o \notin Moved \cup Refused
              /\ Moved' = Moved \cup {o} /\ ledger' = ledger /\ Refused' = Refused
           \/ /\ o \in Moved \ ledger
              /\ ledger' = ledger \cup {o} /\ Moved' = Moved /\ Refused' = Refused
           \/ /\ o \notin Moved \cup Refused
              /\ Refused' = Refused \cup {o} /\ Moved' = Moved /\ ledger' = ledger
<1> USE DEF chainVars
<1>0. StepTypes /\ RowTypes /\ ChainTypes
  BY TypeParts
<1>1. CASE UNCHANGED <<status, attempt, ledger>>
  BY <1>1 DEF Moved, Refused
<1>2. ASSUME NEW o \in Operations, Begin(o) PROVE Promised
  BY <1>0, <1>2 DEF Begin, InsertRow, Moved, Refused, RowTypes
<1>3. ASSUME NEW o \in Operations, ReserveBalance(o), UNCHANGED <<attempt, ledger>>
      PROVE  Promised
  <2>1. Moved' = Moved
    BY <1>3 DEF Moved
  <2>2. \/ Refused' = Refused
        \/ o \notin Moved \cup Refused /\ Refused' = Refused \cup {o}
    BY <1>3, ReserveRefuses
  <2> QED
    BY <1>3, <2>1, <2>2
<1>4. ASSUME NEW w \in Workers, HandlerStep(w) \/ WorkerFault(w) PROVE Promised
  <2>0. op[w] \in Operations /\ round[w] = 0
    BY <1>0, <1>4, WorkerMoves, BusyWorker
  <2>1. CASE Reserve(w)
    BY <1>3, <2>0, <2>1 DEF Reserve
  <2>2. CASE RecordSignature(w) \/ TransferCompleted(w) \/ MarkFinalized(w)
    <3>1. Refused' = Refused
      BY <1>0, <2>0, <2>2, MoveKeepsRefused
      DEF RecordSignature, TransferCompleted, MarkFinalized
    <3> QED
      BY <2>2, <3>1 DEF RecordSignature, TransferCompleted, MarkFinalized, Moved
  <2>3. CASE TransferFailed(w)
    <3>1. Moved' = Moved /\ ledger' = ledger
      BY <2>3 DEF TransferFailed, Moved
    <3>2. CASE status' = status
      BY <3>1, <3>2 DEF Refused
    <3>3. CASE status' # status
      <4>1. /\ status[op[w]] = "chain_submitted"
            /\ status' = [status EXCEPT ![op[w]] = "failed"]
        BY <2>3, <3>3 DEF TransferFailed, ReleaseBalanceAndEnd
      <4>2. attempt[op[w]][0] = "dead"
        BY <2>3, <4>1 DEF TransferFailed, TransferInv, WorkerInv
      <4>3. op[w] \notin Moved \cup Refused /\ Refused' = Refused \cup {op[w]}
        BY <1>0, <2>0, <4>1, <4>2 DEF Moved, Refused, RowTypes
      <4> QED
        BY <2>0, <3>1, <4>3
    <3> QED
      BY <3>2, <3>3
  <2>4. CASE Finalize(w)
    <3>1. Moved' = Moved /\ Refused' = Refused
      BY <2>4 DEF Finalize, Moved, Refused, rowVars
    <3>2. CASE ledger' = ledger
      BY <3>1, <3>2
    <3>3. CASE ledger' # ledger
      <4>1. status[op[w]] = "chain_confirmed" /\ ledger' = ledger \cup {op[w]}
            /\ op[w] \notin ledger
        BY <2>4, <3>3 DEF Finalize, RecordOnce
      <4>2. op[w] \in Moved
        BY <2>0, <4>1 DEF TransferInv, LandingInv, Moved
      <4> QED
        BY <2>0, <3>1, <4>1, <4>2
    <3> QED
      BY <3>2, <3>3
  <2>5. CASE Sign(w) \/ SignFails(w) \/ Broadcast(w) \/ RecoverPending(w)
    <3>1. UNCHANGED <<status, ledger>>
      BY <2>5 DEF Sign, SignFails, Broadcast, RecoverPending, rowVars
    <3>2. Moved' = Moved
      <4>1. CASE UNCHANGED attempt
        BY <4>1 DEF Moved
      <4>2. CASE attempt' # attempt
        BY <2>5, <4>2, SendKeepsMoved DEF Sign, SignFails, Broadcast, RecoverPending
      <4> QED
        BY <4>1, <4>2
    <3> QED
      BY <3>1, <3>2 DEF Refused
  <2>6. CASE UNCHANGED <<status, attempt, ledger>>
    BY <1>1, <2>6
  <2> QED
    BY <1>4, <2>1, <2>2, <2>3, <2>4, <2>5, <2>6
    DEF HandlerStep, WorkerFault, SubmitChainTransfer, LookUp, CheckSaved, Confirm,
      ConfirmTimesOut, CheckChain, RecoverSettled, Release, Abort, Crash, rowVars
<1>5. ASSUME NEW o \in Operations, NEW r \in Rounds, Resolve(o, r) PROVE Promised
  <2>1. r = 0 /\ ledger' = ledger /\ Refused' = Refused
    BY <1>5, RoundZero DEF Resolve, Land, Die, Refused, rowVars
  <2>2. CASE Land(o, r)
    <3>1. attempt[o][0] = "broadcast" /\ attempt'[o][0] = "landed"
      BY <1>0, <2>1, <2>2 DEF Land, ChainTypes
    <3>2. \A p \in Operations \ {o} : attempt'[p] = attempt[p]
      BY <1>0, <2>2 DEF Land, ChainTypes
    <3>3. o \notin Moved \cup Refused
      BY <3>1 DEF TransferInv, FailureMovedNothing, Moved, Refused
    <3>4. Moved' = Moved \cup {o}
      BY <3>1, <3>2 DEF Moved
    <3> QED
      BY <2>1, <3>3, <3>4
  <2>3. CASE Die(o, r)
    <3>1. attempt[o][0] # "landed" /\ attempt'[o][0] # "landed"
      BY <1>0, <2>1, <2>3, RoundZero DEF Die, ChainTypes
    <3>2. \A p \in Operations \ {o} : attempt'[p] = attempt[p]
      BY <1>0, <2>3 DEF Die, ChainTypes
    <3> QED
      BY <2>1, <3>1, <3>2 DEF Moved
  <2> QED
    BY <1>5, <2>2, <2>3 DEF Resolve
<1>6. CASE UNCHANGED vars
  BY <1>1, <1>6 DEF vars, rowVars
<1>7. CASE Next
  BY <1>1, <1>2, <1>3, <1>4, <1>5, <1>7
  DEF Next, RequestReserve, Claim, Lapse, Heartbeat, rowVars
<1> QED
  BY <1>6, <1>7

\* Whatever the workers do, what the customer sees of a transfer is a run of
\* MoneyMovement: it moves at most once, is recorded only then, and is refused
\* only if it never moves.
THEOREM ImplementsPromise ==
  ASSUME ~LeaseMayLapse
  PROVE  Spec => KeepsPromise
<1>1. Init => TypeOK /\ TransferInv
  BY InitTypes, TransferInvInit
<1>2. TypeOK /\ TransferInv /\ [Next]_vars => TypeOK' /\ TransferInv'
  BY NextTypes, TransferInvStep
<1>3. Init => Promise!Init
  BY RoundZero DEF Init, RowsInit, ChainInit, Promise!Init
<1>4. TypeOK /\ TransferInv /\ [Next]_vars => [Promise!Next]_(Promise!vars)
  BY PromiseStep
  DEF Promise!Next, Promise!vars, Promise!Move, Promise!Record, Promise!Refuse,
    Moved, Refused
<1> QED
  BY <1>1, <1>2, <1>3, <1>4, PTL DEF Spec, KeepsPromise, Promise!Spec

-------------------------------------------------------------------------------
(* Chain and books agree, leases or no leases                              *)

\* Transfers that have landed and are not recorded yet.
Unrecorded == Moved \ ledger

Leaving(x)  == {o \in Unrecorded : Source[o] = x}
Arriving(x) == {o \in Unrecorded : Destination[o] = x}

KeepsTotals ==
  /\ Unrecorded' = Unrecorded /\ tokens' = tokens
  /\ available' \in [Wallets -> Nat] /\ pending' \in [Wallets -> Nat]
  /\ \A x \in Wallets : available'[x] + pending'[x] = available[x] + pending[x]

TokensMove(o) ==
  /\ o \notin Unrecorded /\ Unrecorded' = Unrecorded \cup {o}
  /\ tokens' = [x \in Wallets |->
                  CASE x = Source[o]      -> tokens[x] - Amount[o]
                    [] x = Destination[o] -> tokens[x] + Amount[o]
                    [] OTHER              -> tokens[x]]
  /\ UNCHANGED balanceVars

BooksMove(o) ==
  /\ o \in Unrecorded /\ Unrecorded' = Unrecorded \ {o}
  /\ tokens' = tokens
  /\ pending' = Less(pending, Source[o], Amount[o])
  /\ available' = Shift(available, Destination[o], Amount[o])

BooksStep == KeepsTotals \/ \E o \in Operations : TokensMove(o) \/ BooksMove(o)

\* Setting aside and giving back move an amount between the two balances.
LEMMA ReserveKeepsTotals ==
  ASSUME TypeOK, NEW o \in Operations, ReserveBalance(o), UNCHANGED <<attempt, tokens, ledger>>
  PROVE  KeepsTotals
<1>0. RowTypes /\ BookTypes
  BY TypeParts
<1>1. available' \in [Wallets -> Nat] /\ pending' \in [Wallets -> Nat]
  BY <1>0, ReserveTypes
<1>2. Unrecorded' = Unrecorded
  BY DEF Unrecorded, Moved
<1>3. \A x \in Wallets : available'[x] + pending'[x] = available[x] + pending[x]
  <2>1. CASE UNCHANGED balanceVars
    BY <2>1 DEF balanceVars
  <2>2. CASE ~UNCHANGED balanceVars
    <3>1. /\ available' = Less(available, Source[o], Amount[o])
          /\ pending' = Shift(pending, Source[o], Amount[o])
      BY <2>2 DEF ReserveBalance, balanceVars
    <3> QED
      BY <1>0, <3>1, TransferKind DEF BookTypes, Less, Shift
  <2> QED
    BY <2>1, <2>2
<1> QED
  BY <1>1, <1>2, <1>3 DEF KeepsTotals

LEMMA ReleaseKeepsTotals ==
  ASSUME TypeOK, NEW o \in Operations, ReleaseBalanceAndEnd(o, "failed"),
         UNCHANGED <<attempt, tokens, ledger>>
  PROVE  KeepsTotals
<1>0. RowTypes /\ BookTypes
  BY TypeParts
<1>1. available' \in [Wallets -> Nat] /\ pending' \in [Wallets -> Nat]
  BY <1>0, ReleaseTypes DEF OperationStatuses, Terminal
<1>2. Unrecorded' = Unrecorded
  BY DEF Unrecorded, Moved
<1>3. \A x \in Wallets : available'[x] + pending'[x] = available[x] + pending[x]
  <2>1. CASE UNCHANGED balanceVars
    BY <2>1 DEF balanceVars
  <2>2. CASE ~UNCHANGED balanceVars
    <3>1. /\ available' = Shift(available, Source[o], Amount[o])
          /\ pending' = Less(pending, Source[o], Amount[o])
      BY <2>2 DEF ReleaseBalanceAndEnd, balanceVars
    <3> QED
      BY <1>0, <3>1, TransferKind DEF BookTypes, Less, Shift
  <2> QED
    BY <2>1, <2>2
<1> QED
  BY <1>1, <1>2, <1>3 DEF KeepsTotals

LEMMA RecordMovesBooks ==
  ASSUME TypeOK, LandingInv, NEW o \in Operations, status[o] = "chain_confirmed",
         RecordOnce(o), UNCHANGED <<attempt, tokens>>
  PROVE  KeepsTotals \/ BooksMove(o)
<1>0. BookTypes /\ Source[o] # Treasury /\ Destination[o] # Treasury /\ o \in Moved
  BY TypeParts, TransferKind DEF LandingInv, Moved
<1>1. CASE UNCHANGED <<ledger, balanceVars>>
  BY <1>0, <1>1 DEF balanceVars, KeepsTotals, BookTypes, Unrecorded, Moved
<1>2. CASE ~UNCHANGED <<ledger, balanceVars>>
  <2>1. /\ o \notin ledger /\ ledger' = ledger \cup {o}
        /\ pending' = Less(pending, Source[o], Amount[o])
        /\ available' = Shift(available, Destination[o], Amount[o])
    BY <1>0, <1>2 DEF RecordOnce
  <2> QED
    BY <1>0, <2>1 DEF BooksMove, Unrecorded, Moved
<1> QED
  BY <1>1, <1>2

LEMMA LandMovesTokens ==
  ASSUME TypeOK, LandingInv, NEW o \in Operations, NEW r \in Rounds, Land(o, r)
  PROVE  TokensMove(o)
<1>0. ChainTypes /\ r = 0 /\ Sender(o, r) = Source[o] /\ Receiver(o, r) = Destination[o]
  BY TypeParts, RoundZero DEF Sender, Receiver
<1>1. attempt[o][0] = "broadcast" /\ attempt'[o][0] = "landed"
  BY <1>0 DEF Land, ChainTypes
<1>2. \A p \in Operations \ {o} : attempt'[p] = attempt[p]
  BY <1>0 DEF Land, ChainTypes
<1>3. o \notin ledger /\ o \notin Moved /\ Moved' = Moved \cup {o}
  BY <1>1, <1>2 DEF LandingInv, Moved
<1>4. Unrecorded' = Unrecorded \cup {o} /\ o \notin Unrecorded
  BY <1>3 DEF Land, Unrecorded
<1> QED
  BY <1>0, <1>4 DEF Land, TokensMove

\* Every step keeps the totals, or moves one transfer's tokens, or records it.
LEMMA EveryBooksStep == TypeOK /\ LandingInv /\ [Next]_vars => BooksStep
<1> SUFFICES ASSUME TypeOK, LandingInv, [Next]_vars PROVE BooksStep
  OBVIOUS
<1> USE DEF balanceVars, chainVars
<1>0. StepTypes /\ BookTypes /\ ChainTypes
  BY TypeParts
<1>1. ASSUME UNCHANGED <<balanceVars, ledger, tokens>>, Moved' = Moved PROVE BooksStep
  BY <1>0, <1>1 DEF BooksStep, KeepsTotals, Unrecorded, BookTypes
<1>2. ASSUME UNCHANGED <<balanceVars, ledger, chainVars>> PROVE BooksStep
  BY <1>1, <1>2 DEF Moved
<1>3. ASSUME NEW w \in Workers, HandlerStep(w) \/ WorkerFault(w) PROVE BooksStep
  <2>0. op[w] \in Operations
    BY <1>0, <1>3, WorkerMoves, BusyWorker
  <2>1. CASE Reserve(w)
    BY <2>0, <2>1, ReserveKeepsTotals DEF Reserve, BooksStep
  <2>2. CASE TransferFailed(w)
    <3>1. CASE status[op[w]] = "chain_submitted"
      BY <2>0, <2>2, <3>1, ReleaseKeepsTotals DEF TransferFailed, BooksStep
    <3>2. CASE status[op[w]] # "chain_submitted"
      BY <1>2, <2>2, <3>2 DEF TransferFailed
    <3> QED
      BY <3>1, <3>2
  <2>3. CASE Finalize(w)
    <3>1. CASE status[op[w]] = "chain_confirmed"
      BY <2>0, <2>3, <3>1, RecordMovesBooks DEF Finalize, BooksStep
    <3>2. CASE status[op[w]] # "chain_confirmed"
      BY <1>2, <2>3, <3>2 DEF Finalize
    <3> QED
      BY <3>1, <3>2
  <2>4. CASE Sign(w) \/ SignFails(w) \/ Broadcast(w) \/ RecoverPending(w)
    <3>1. CASE UNCHANGED attempt
      BY <1>2, <2>4, <3>1 DEF Sign, SignFails, Broadcast, RecoverPending
    <3>2. CASE ~UNCHANGED attempt
      <4>1. Moved' = Moved
        BY <2>4, <3>2, SendKeepsMoved DEF Sign, SignFails, Broadcast, RecoverPending
      <4> QED
        BY <1>1, <2>4, <4>1 DEF Sign, SignFails, Broadcast, RecoverPending
    <3> QED
      BY <3>1, <3>2
  <2>5. CASE UNCHANGED <<balanceVars, ledger, chainVars>>
    BY <1>2, <2>5
  <2> QED
    BY <1>3, <2>1, <2>2, <2>3, <2>4, <2>5
    DEF HandlerStep, WorkerFault, SubmitChainTransfer, LookUp, CheckSaved, RecordSignature,
      Confirm, ConfirmTimesOut, CheckChain, RecoverSettled, TransferCompleted,
      MarkFinalized, Release, Abort, Crash
<1>4. ASSUME NEW o \in Operations, NEW r \in Rounds, Resolve(o, r) PROVE BooksStep
  <2>1. CASE Land(o, r)
    BY <2>1, LandMovesTokens DEF BooksStep
  <2>2. CASE Die(o, r)
    <3>1. r = 0
      BY RoundZero
    <3>2. attempt[o][0] # "landed" /\ attempt'[o][0] # "landed"
      BY <1>0, <2>2, <3>1 DEF Die, ChainTypes
    <3>3. \A p \in Operations \ {o} : attempt'[p] = attempt[p]
      BY <1>0, <2>2 DEF Die, ChainTypes
    <3>4. Moved' = Moved
      BY <3>2, <3>3 DEF Moved
    <3> QED
      BY <1>1, <2>2, <3>4 DEF Die
  <2> QED
    BY <1>4, <2>1, <2>2 DEF Resolve
<1>5. CASE UNCHANGED vars
  BY <1>2, <1>5 DEF vars
<1>6. ASSUME NEW o \in Operations, RequestReserve(o) PROVE BooksStep
  BY <1>6, ReserveKeepsTotals DEF RequestReserve, BooksStep
<1>7. CASE Next
  BY <1>2, <1>3, <1>4, <1>6, <1>7 DEF Next, Begin, Claim, Lapse, Heartbeat
<1> QED
  BY <1>5, <1>7

Agrees(x) ==
  tokens[x] + SumFunctionOnSet(Amount, Leaving(x))
    = available[x] + pending[x] + SumFunctionOnSet(Amount, Arriving(x))

LEMMA AgreementUnfolds == BooksMatchChain <=> \A x \in Wallets : Agrees(x)
<1>1. Unrecorded = {o \in Operations \ ledger : attempt[o][0] = "landed"}
  BY DEF Unrecorded, Moved
<1> QED
  BY <1>1 DEF BooksMatchChain, Agrees, Leaving, Arriving

\* A wallet's part of the agreement: the sums gain or lose the term that moves.
LEMMA AgreementStep ==
  ASSUME TypeOK, BooksStep, NEW x \in Wallets, Agrees(x)
  PROVE  Agrees(x)'
<1> DEFINE Out == SumFunctionOnSet(Amount, Leaving(x))
           In  == SumFunctionOnSet(Amount, Arriving(x))
<1>0. /\ available \in [Wallets -> Nat] /\ pending \in [Wallets -> Nat]
      /\ tokens \in [Wallets -> Nat]
      /\ Leaving(x) \in SUBSET Operations /\ Arriving(x) \in SUBSET Operations
  BY DEF TypeOK, RowsTypeOK, ChainTypeOK, Leaving, Arriving, Unrecorded, Moved
<1>1. Out \in Int /\ In \in Int
  BY <1>0, Amounts
<1>2. tokens[x] + Out = available[x] + pending[x] + In
  BY DEF Agrees
<1> SUFFICES tokens'[x] + Out' = available'[x] + pending'[x] + In'
  BY DEF Agrees
<1>3. CASE KeepsTotals
  <2>1. Leaving(x)' = Leaving(x) /\ Arriving(x)' = Arriving(x)
    BY <1>3 DEF KeepsTotals, Leaving, Arriving
  <2>2. Out' = Out /\ In' = In
    BY <2>1
  <2>3. tokens'[x] = tokens[x] /\ available'[x] + pending'[x] = available[x] + pending[x]
    BY <1>3 DEF KeepsTotals
  <2> HIDE DEF Out, In
  <2> QED
    BY <1>2, <2>2, <2>3
<1>4. ASSUME NEW o \in Operations, TokensMove(o)
      PROVE  tokens'[x] + Out' = available'[x] + pending'[x] + In'
  <2>0. Amount[o] \in Nat /\ Source[o] # Destination[o]
    BY TransferKind
  <2>1. o \notin Leaving(x) /\ o \notin Arriving(x)
    BY <1>4 DEF TokensMove, Leaving, Arriving
  <2>2. available'[x] = available[x] /\ pending'[x] = pending[x]
    BY <1>4 DEF TokensMove, balanceVars
  <2>3. Out' = IF Source[o] = x THEN Out + Amount[o] ELSE Out
    <3>1. Leaving(x)' = IF Source[o] = x THEN Leaving(x) \cup {o} ELSE Leaving(x)
      BY <1>4 DEF TokensMove, Leaving
    <3> QED
      BY <1>0, <2>1, <3>1, AmountsWith
  <2>4. In' = IF Destination[o] = x THEN In + Amount[o] ELSE In
    <3>1. Arriving(x)' = IF Destination[o] = x THEN Arriving(x) \cup {o} ELSE Arriving(x)
      BY <1>4 DEF TokensMove, Arriving
    <3> QED
      BY <1>0, <2>1, <3>1, AmountsWith
  <2>5. tokens'[x] = CASE x = Source[o]      -> tokens[x] - Amount[o]
                       [] x = Destination[o] -> tokens[x] + Amount[o]
                       [] OTHER              -> tokens[x]
    BY <1>4 DEF TokensMove
  <2> HIDE DEF Out, In
  <2> QED
    BY <1>0, <1>1, <1>2, <2>0, <2>2, <2>3, <2>4, <2>5
<1>5. ASSUME NEW o \in Operations, BooksMove(o)
      PROVE  tokens'[x] + Out' = available'[x] + pending'[x] + In'
  <2>0. Amount[o] \in Nat /\ Source[o] # Destination[o]
    BY TransferKind
  <2>1. /\ Source[o] = x => o \in Leaving(x)
        /\ Destination[o] = x => o \in Arriving(x)
    BY <1>5 DEF BooksMove, Leaving, Arriving
  <2>2. tokens'[x] = tokens[x]
    BY <1>5 DEF BooksMove
  <2>3. Out' = IF Source[o] = x THEN Out - Amount[o] ELSE Out
    <3>1. Leaving(x)' = IF Source[o] = x THEN Leaving(x) \ {o} ELSE Leaving(x)
      BY <1>5 DEF BooksMove, Leaving
    <3> QED
      BY <1>0, <2>1, <3>1, AmountsWithout
  <2>4. In' = IF Destination[o] = x THEN In - Amount[o] ELSE In
    <3>1. Arriving(x)' = IF Destination[o] = x THEN Arriving(x) \ {o} ELSE Arriving(x)
      BY <1>5 DEF BooksMove, Arriving
    <3> QED
      BY <1>0, <2>1, <3>1, AmountsWithout
  <2>5. /\ pending'[x] = IF Source[o] = x THEN pending[x] - Amount[o] ELSE pending[x]
        /\ available'[x] = IF Destination[o] = x THEN available[x] + Amount[o]
                                                 ELSE available[x]
    BY <1>0, <1>5 DEF BooksMove, Less, Shift
  <2> HIDE DEF Out, In
  <2> QED
    BY <1>0, <1>1, <1>2, <2>0, <2>2, <2>3, <2>4, <2>5
<1> QED
  BY <1>3, <1>4, <1>5 DEF BooksStep

LEMMA AgreementInit == Init => BooksMatchChain
<1> SUFFICES ASSUME Init, NEW x \in Wallets PROVE Agrees(x)
  BY AgreementUnfolds
<1>1. Leaving(x) = {} /\ Arriving(x) = {}
  BY RoundZero DEF Init, ChainInit, Leaving, Arriving, Unrecorded, Moved
<1>2. tokens[x] = Opening[x] /\ available[x] = Opening[x] /\ pending[x] = 0
  BY DEF Init, RowsInit, ChainInit
<1> QED
  BY <1>1, <1>2, SumOfNone, OpeningAssumption DEF Agrees

\* What a wallet holds on chain is what its books say, up to the transfers that
\* have landed and are not recorded yet, at every moment, for any number of
\* transfers and workers, and even when leases lapse under live workers.
THEOREM BooksFollowChain == Spec => []BooksMatchChain
<1>1. Init => TypeOK /\ LandingInv /\ BooksMatchChain
  BY InitTypes, LandingInit, AgreementInit
<1>2. ASSUME TypeOK, LandingInv, BooksMatchChain, [Next]_vars
      PROVE  TypeOK' /\ LandingInv' /\ BooksMatchChain'
  <2>1. TypeOK' /\ LandingInv'
    BY <1>2, NextTypes, LandingStep
  <2>2. BooksStep
    BY <1>2, EveryBooksStep
  <2>3. \A x \in Wallets : Agrees(x)'
    BY <1>2, <2>2, AgreementUnfolds, AgreementStep
  <2>4. BooksMatchChain'
    <3>1. Unrecorded' = {o \in Operations \ ledger' : attempt'[o][0] = "landed"}
      BY DEF Unrecorded, Moved
    <3> QED
      BY <2>3, <3>1 DEF BooksMatchChain, Agrees, Leaving, Arriving
  <2> QED
    BY <2>1, <2>4
<1> QED
  BY <1>1, <1>2, PTL DEF Spec

-------------------------------------------------------------------------------
(* Spendable balance rises only on evidence                                *)

Evidence(x) ==
  \E o \in Operations :
    \/ Destination[o] = x /\ attempt[o][0] = "landed" /\ o \in ledger' \ ledger
    \/ Source[o] = x /\ attempt[o][0] = "dead"
                     /\ status'[o] = "failed" /\ status[o] # "failed"

LEMMA ReserveRaisesNothing ==
  ASSUME TypeOK, NEW o \in Operations, ReserveBalance(o), NEW x \in Wallets
  PROVE  ~(available'[x] > available[x])
<1>0. BookTypes
  BY TypeParts
<1>1. available'[x] \in {available[x], available[x] - Amount[o]}
  BY <1>0 DEF ReserveBalance, Less, balanceVars, BookTypes
<1> QED
  BY <1>0, <1>1, TransferKind DEF BookTypes

LEMMA RiseStep ==
  ASSUME TypeOK, TransferInv, [Next]_vars, NEW x \in Wallets, available'[x] > available[x]
  PROVE  Evidence(x)
<1> USE DEF balanceVars
<1>0. StepTypes /\ RowTypes /\ BookTypes
  BY TypeParts
<1>1. ~UNCHANGED available
  BY <1>0 DEF BookTypes
<1>2. ASSUME NEW w \in Workers, HandlerStep(w) \/ WorkerFault(w) PROVE Evidence(x)
  <2>0. op[w] \in Operations
    BY <1>0, <1>2, WorkerMoves, BusyWorker
  <2>1. CASE Reserve(w)
    BY <2>0, <2>1, ReserveRaisesNothing DEF Reserve
  <2>2. CASE TransferFailed(w)
    <3>1. status[op[w]] = "chain_submitted" /\ ReleaseBalanceAndEnd(op[w], "failed")
      BY <1>1, <2>2 DEF TransferFailed
    <3>2. attempt[op[w]][0] = "dead"
      BY <2>2, <3>1 DEF TransferFailed, TransferInv, WorkerInv
    <3>3. /\ status' = [status EXCEPT ![op[w]] = "failed"]
          /\ available' = Shift(available, Source[op[w]], Amount[op[w]])
      BY <1>1, <3>1 DEF ReleaseBalanceAndEnd
    <3>4. x = Source[op[w]]
      BY <1>0, <3>3 DEF Shift, BookTypes
    <3> QED
      BY <1>0, <2>0, <3>1, <3>2, <3>3, <3>4 DEF Evidence, RowTypes
  <2>3. CASE Finalize(w)
    <3>1. status[op[w]] = "chain_confirmed" /\ RecordOnce(op[w])
      BY <1>1, <2>3 DEF Finalize
    <3>2. attempt[op[w]][0] = "landed"
      BY <2>0, <3>1 DEF TransferInv, LandingInv
    <3>3. /\ op[w] \notin ledger /\ ledger' = ledger \cup {op[w]}
          /\ available' = Shift(available, Destination[op[w]], Amount[op[w]])
      BY <1>1, <2>0, <3>1, TransferKind DEF RecordOnce
    <3>4. x = Destination[op[w]]
      BY <1>0, <3>3 DEF Shift, BookTypes
    <3> QED
      BY <2>0, <3>2, <3>3, <3>4 DEF Evidence
  <2> QED
    BY <1>1, <1>2, <2>1, <2>2, <2>3
    DEF HandlerStep, WorkerFault, SubmitChainTransfer, LookUp, Sign, CheckSaved,
      RecordSignature, Broadcast, Confirm, ConfirmTimesOut, CheckChain, RecoverSettled,
      RecoverPending, TransferCompleted, MarkFinalized, Release, SignFails, Abort, Crash
<1>3. ASSUME NEW o \in Operations, RequestReserve(o) PROVE FALSE
  BY <1>3, ReserveRaisesNothing DEF RequestReserve
<1>4. CASE Next
  BY <1>1, <1>2, <1>3, <1>4
  DEF Next, Begin, Lapse, Claim, Heartbeat, Resolve, Land, Die
<1> QED
  BY <1>1, <1>4 DEF vars

\* While no live worker loses its lease, a wallet can spend more only after a
\* transfer to it has landed, or one out of it can never land any more.
THEOREM RisesOnEvidence ==
  ASSUME ~LeaseMayLapse
  PROVE  Spec => RiseOnlyOnEvidence
<1>1. Init => TypeOK /\ TransferInv
  BY InitTypes, TransferInvInit
<1>2. TypeOK /\ TransferInv /\ [Next]_vars => TypeOK' /\ TransferInv'
  BY NextTypes, TransferInvStep
<1>3. TypeOK /\ TransferInv /\ [Next]_vars =>
        [\A x \in Wallets : available'[x] > available[x] => Evidence(x)]_vars
  BY RiseStep
<1>4. Spec => [][\A x \in Wallets : available'[x] > available[x] => Evidence(x)]_vars
  BY <1>1, <1>2, <1>3, PTL DEF Spec
<1> QED
  BY <1>4 DEF RiseOnlyOnEvidence, Evidence

===============================================================================
