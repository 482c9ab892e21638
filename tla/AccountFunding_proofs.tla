------------------------ MODULE AccountFunding_proofs ------------------------
(***************************************************************************)
(* Proofs about AccountFunding, for every set of fundings, workers and     *)
(* wallets, any number of faults, polls and webhooks in any order, and     *)
(* workers that overlap because leases lapse.                              *)
(***************************************************************************)
EXTENDS AccountFunding, Sums_proofs, TLAPS

-------------------------------------------------------------------------------
(* Type correctness                                                        *)

LEMMA FundingKind ==
  ASSUME NEW o \in Operations
  PROVE  /\ Kind[o] \in FundingKinds
         /\ Source[o] = Treasury /\ Destination[o] \in Wallets
         /\ Treasury \notin Wallets
         /\ Amount[o] \in Nat
BY FundingAssumption, WalletsAssumption, AmountAssumption

LEMMA OneRound == Rounds = {0}
BY FundingAssumption DEF Rounds

RowTypes  == status \in [Operations -> OperationStatuses \cup {"absent"}]
BookTypes == /\ available \in [Wallets -> Nat]
             /\ pending \in [Wallets -> Nat]
             /\ ledger \subseteq Operations
StepTypes == /\ pc \in [Workers -> FundingSteps]
             /\ op \in [Workers -> Operations \cup {NoOperation}]
             /\ \A w \in Workers : op[w] = NoOperation <=> pc[w] = "idle"
             /\ round \in [Workers -> Rounds]
LeaseTypes == /\ chainSignature \in [Operations -> BOOLEAN]
              /\ claimedBy \in [Operations -> Workers \cup {NoWorker}]
              /\ claimLive \in [Operations -> BOOLEAN]
ChainTypes == /\ attempt \in [Operations -> [Rounds -> AttemptStates]]
              /\ tokens \in [Wallets -> Nat]
FaultTypes == faults \in 0 .. MaxFaults
StripeTypes ==
  /\ checkout \in [Operations -> CheckoutStates]
  /\ refund \in [Operations -> {"none", "pending", "succeeded", "failed", "manual"}]
  /\ disputed \in [Operations -> BOOLEAN]
ColumnTypes ==
  /\ providerRef \in [Operations -> BOOLEAN]
  /\ paymentIntent \in [Operations -> BOOLEAN]
  /\ refundId \in [Operations -> BOOLEAN]
  /\ stale \in [Operations -> BOOLEAN]
  /\ heard \in [Workers -> CheckoutStates]

LEMMA TypeParts ==
  TypeOK <=> /\ RowTypes /\ BookTypes /\ StepTypes /\ LeaseTypes /\ ChainTypes
             /\ FaultTypes /\ StripeTypes /\ ColumnTypes
BY DEF TypeOK, RowsTypeOK, ChainTypeOK, RowTypes, BookTypes, StepTypes, LeaseTypes,
  ChainTypes, FaultTypes, StripeTypes, ColumnTypes

LEMMA TypePartsNext ==
  TypeOK' <=> /\ RowTypes' /\ BookTypes' /\ StepTypes' /\ LeaseTypes' /\ ChainTypes'
              /\ FaultTypes' /\ StripeTypes' /\ ColumnTypes'
BY DEF TypeOK, RowsTypeOK, ChainTypeOK, RowTypes, BookTypes, StepTypes, LeaseTypes,
  ChainTypes, FaultTypes, StripeTypes, ColumnTypes

LEMMA BusyWorker ==
  ASSUME StepTypes, NEW w \in Workers, pc[w] # "idle"
  PROVE  op[w] \in Operations /\ round[w] = 0
BY OneRound DEF StepTypes

\* The effects the services share keep the types.
LEMMA MoveTypes ==
  ASSUME RowTypes, NEW o \in Operations, NEW to \in OperationStatuses,
         MoveOrThrow(o, to)
  PROVE  RowTypes'
BY DEF RowTypes, MoveOrThrow

LEMMA RecordTypes ==
  ASSUME BookTypes, NEW o \in Operations, RecordOnce(o)
  PROVE  BookTypes'
<1>1. CASE o \in ledger \/ ~CanRecord(o)
  BY <1>1 DEF BookTypes, RecordOnce, balanceVars
<1>2. CASE o \notin ledger /\ CanRecord(o)
  <2>1. /\ ledger' = ledger \cup {o}
        /\ pending' = pending
        /\ available' = Shift(available, Destination[o], Amount[o])
    BY <1>2, FundingKind DEF RecordOnce
  <2> QED
    BY <2>1, FundingKind DEF BookTypes, Shift
<1> QED
  BY <1>1, <1>2

LEMMA GotoTypes ==
  ASSUME StepTypes, NEW w \in Workers, pc[w] # "idle",
         NEW step \in FundingSteps \ {"idle"}, Goto(w, step)
  PROVE  StepTypes'
BY DEF StepTypes, Goto

LEMMA IdleTypes ==
  ASSUME StepTypes, NEW w \in Workers, Idle(w)
  PROVE  StepTypes'
BY NoOperationAssumption, OneRound DEF StepTypes, Idle, FundingSteps, CoreSteps

LEMMA AttemptTypes ==
  ASSUME ChainTypes, StepTypes, NEW w \in Workers, pc[w] # "idle",
         NEW state \in AttemptStates, SetMine(w, state)
  PROVE  attempt' \in [Operations -> [Rounds -> AttemptStates]]
BY BusyWorker, OneRound DEF ChainTypes, SetMine

\* The steps of a worker by what they change.
LEMMA QuietTypes ==
  ASSUME TypeOK, UNCHANGED <<faults, rowVars, leaseVars, balanceVars, ledger, chainVars,
                             fundingVars>>,
         StepTypes'
  PROVE  TypeOK'
BY TypeParts, TypePartsNext DEF rowVars, leaseVars, balanceVars, chainVars, fundingVars, stripeVars, columnVars,
  RowTypes, BookTypes, LeaseTypes, ChainTypes, FaultTypes, StripeTypes, ColumnTypes

LEMMA SendTypes ==
  ASSUME TypeOK, UNCHANGED <<faults, tokens, rowVars, leaseVars, balanceVars, ledger,
                             fundingVars>>,
         StepTypes', attempt' \in [Operations -> [Rounds -> AttemptStates]]
  PROVE  TypeOK'
BY TypeParts, TypePartsNext DEF rowVars, leaseVars, balanceVars, fundingVars, stripeVars, columnVars,
  RowTypes, BookTypes, LeaseTypes, ChainTypes, FaultTypes, StripeTypes, ColumnTypes

LEMMA BookingTypes ==
  ASSUME TypeOK, UNCHANGED <<faults, chainSignature, leaseVars, chainVars, fundingVars>>,
         StepTypes', RowTypes', BookTypes'
  PROVE  TypeOK'
BY TypeParts, TypePartsNext DEF leaseVars, chainVars, fundingVars, stripeVars, columnVars,
  LeaseTypes, ChainTypes, FaultTypes, StripeTypes, ColumnTypes

LEMMA CollectionTypes ==
  ASSUME TypeOK, UNCHANGED <<faults, chainSignature, leaseVars, balanceVars, ledger, chainVars>>,
         StepTypes', RowTypes', StripeTypes', ColumnTypes'
  PROVE  TypeOK'
BY TypeParts, TypePartsNext DEF leaseVars, balanceVars, chainVars, BookTypes, LeaseTypes, ChainTypes, FaultTypes

LEMMA InitTypes == Init => TypeOK
BY OpeningAssumption, OneRound, MaxFaultsAssumption
DEF Init, RowsInit, ChainInit, TypeOK, RowsTypeOK, ChainTypeOK,
  AttemptStates, CheckoutStates, FundingSteps, CoreSteps

LEMMA ClaimTypes ==
  ASSUME TypeOK, NEW w \in Workers, NEW o \in Operations,
         ClaimRow(w, o) \/ RequestCheckout(w, o) \/ CheckoutWebhook(w, o)
  PROVE  TypeOK'
<1> USE DEF TypeOK, RowsTypeOK, ChainTypeOK, TakeLease, FundingSteps, CoreSteps,
      rowVars, leaseVars, balanceVars, chainVars, fundingVars, stripeVars, columnVars
<1>1. CASE ClaimRow(w, o)
  <2>1. ResumeAction(Kind[o], status[o]) \in FundingSteps \ {"idle"}
    BY <1>1 DEF ClaimRow, Claim, ResumeAction, ResumeSteps, InFlight
  <2> QED
    BY <1>1, <2>1, NoOperationAssumption DEF ClaimRow, Claim
<1>2. CASE RequestCheckout(w, o)
  BY <1>2, NoOperationAssumption DEF RequestCheckout, ResumeSteps
<1>3. CASE CheckoutWebhook(w, o)
  BY <1>3, NoOperationAssumption DEF CheckoutWebhook, CollectionSteps
<1> QED
  BY <1>1, <1>2, <1>3

\* sendTransfer, recoverTransfer, and what the runner makes of their answers.
LEMMA ChainStepTypes ==
  ASSUME TypeOK, NEW w \in Workers, ChainStep(w)
  PROVE  TypeOK'
<1>0. RowTypes /\ BookTypes /\ StepTypes /\ LeaseTypes /\ ChainTypes /\ FaultTypes
      /\ StripeTypes /\ ColumnTypes
  BY TypeParts
<1>p. UNCHANGED fundingVars
  BY DEF ChainStep
<1> USE DEF FundingSteps, CoreSteps, SendSteps
<1>1. CASE LookUp(w) \/ CheckSaved(w) \/ Confirm(w) \/ ConfirmTimesOut(w) \/ CheckChain(w)
  <2>1. StepTypes'
    BY <1>0, <1>1, GotoTypes DEF LookUp, CheckSaved, Confirm, ConfirmTimesOut, CheckChain
  <2> QED
    BY <1>1, <1>p, <2>1, QuietTypes DEF LookUp, CheckSaved, Confirm, ConfirmTimesOut, CheckChain
<1>2. CASE RecoverSettled(w)
  <2>1. StepTypes'
    BY <1>0, <1>2, GotoTypes DEF RecoverSettled
  <2> QED
    BY <1>2, <1>p, <2>1, QuietTypes DEF RecoverSettled
<1>3. CASE Sign(w) \/ Broadcast(w) \/ RecoverPending(w)
  <2>1. attempt' \in [Operations -> [Rounds -> AttemptStates]]
    BY <1>0, <1>3, AttemptTypes DEF Sign, Broadcast, RecoverPending, AttemptStates, ChainTypes
  <2>2. StepTypes'
    BY <1>0, <1>3, GotoTypes DEF Sign, Broadcast, RecoverPending
  <2> QED
    BY <1>3, <1>p, <2>1, <2>2, SendTypes DEF Sign, Broadcast, RecoverPending
<1>4. CASE RecordSignature(w)
  <2>1. RowTypes'
    BY <1>4, <1>0, BusyWorker, MoveTypes DEF RecordSignature, OperationStatuses, InFlight
  <2>2. StepTypes'
    BY <1>4, <1>0, GotoTypes DEF RecordSignature
  <2>3. LeaseTypes'
    BY <1>4, <1>0, BusyWorker DEF RecordSignature, LeaseTypes, leaseVars
  <2> QED
    BY <1>0, <1>4, <1>p, <2>1, <2>2, <2>3, TypePartsNext
    DEF RecordSignature, BookTypes, ChainTypes, FaultTypes, StripeTypes, ColumnTypes,
      balanceVars, chainVars, fundingVars, stripeVars, columnVars
<1>5. CASE TransferCompleted(w)
  <2>1. StepTypes'
    BY <1>5, <1>0, GotoTypes DEF TransferCompleted
  <2>2. RowTypes'
    BY <1>5, <1>0, BusyWorker, MoveTypes DEF TransferCompleted, OperationStatuses, InFlight
  <2> QED
    BY <1>5, <1>0, <1>p, <2>1, <2>2, BookingTypes DEF TransferCompleted, BookTypes, balanceVars
<1>6. CASE Release(w)
  <2>1. StepTypes'
    BY <1>6, <1>0, IdleTypes DEF Release
  <2>2. LeaseTypes'
    BY <1>6, <1>0, BusyWorker, WorkersAssumption
    DEF Release, DropLease, LeaseTypes, rowVars, leaseVars
  <2> QED
    BY <1>0, <1>6, <1>p, <2>1, <2>2, TypePartsNext
    DEF Release, RowTypes, BookTypes, ChainTypes, FaultTypes, StripeTypes, ColumnTypes,
      rowVars, balanceVars, chainVars, fundingVars, stripeVars, columnVars
<1> QED
  BY <1>1, <1>2, <1>3, <1>4, <1>5, <1>6 DEF ChainStep

\* The Checkout and what Stripe decided of it.
LEMMA CollectionStepTypes ==
  ASSUME TypeOK, NEW w \in Workers,
         \/ EnsureCheckout(w) \/ CreateCheckout(w) \/ RecordCheckout(w)
         \/ PollCollection(w) \/ ApplySession(w) \/ AdoptSession(w)
         \/ PatchIntent(w) \/ SettleCollection(w)
  PROVE  TypeOK'
<1>0. RowTypes /\ BookTypes /\ StepTypes /\ StripeTypes /\ ColumnTypes
  BY TypeParts
<1> USE DEF FundingSteps, CoreSteps, CollectionSteps, stripeVars, columnVars
<1>1. CASE EnsureCheckout(w) \/ ApplySession(w)
  <2>1. StepTypes'
    BY <1>0, <1>1, GotoTypes DEF EnsureCheckout, ApplySession
  <2> QED
    BY <1>1, <2>1, QuietTypes DEF EnsureCheckout, ApplySession
<1>2. CASE CreateCheckout(w)
  <2>1. StepTypes' /\ op[w] \in Operations
    BY <1>0, <1>2, GotoTypes, BusyWorker DEF CreateCheckout
  <2> QED
    BY <1>0, <1>2, <2>1, CollectionTypes
    DEF CreateCheckout, RowTypes, StripeTypes, ColumnTypes, CheckoutStates, rowVars
<1>3. CASE RecordCheckout(w)
  <2>1. StepTypes' /\ op[w] \in Operations
    BY <1>0, <1>3, GotoTypes, BusyWorker DEF RecordCheckout
  <2>2. RowTypes'
    BY <1>0, <1>3, <2>1, MoveTypes DEF RecordCheckout, MoveToPending, OperationStatuses, InFlight
  <2>3. StripeTypes' /\ ColumnTypes'
    BY <1>0, <1>3, <2>1 DEF RecordCheckout, MoveToPending, StripeTypes, ColumnTypes, CanMove,
      CanTransition, IsNextStatus, CollectedFunding
  <2> QED
    BY <1>3, <2>1, <2>2, <2>3, CollectionTypes DEF RecordCheckout
<1>4. CASE PollCollection(w)
  <2>1. StepTypes' /\ op[w] \in Operations
    BY <1>0, <1>4, GotoTypes, BusyWorker DEF PollCollection
  <2>2. ColumnTypes'
    BY <1>0, <1>4, <2>1 DEF PollCollection, Polled, ColumnTypes, StripeTypes, CheckoutStates
  <2> QED
    BY <1>0, <1>4, <2>1, <2>2, CollectionTypes DEF PollCollection, RowTypes, StripeTypes, rowVars
<1>5. CASE AdoptSession(w)
  <2>1. StepTypes' /\ op[w] \in Operations
    BY <1>0, <1>5, GotoTypes, BusyWorker DEF AdoptSession
  <2>2. RowTypes'
    BY <1>0, <1>5, <2>1, MoveTypes DEF AdoptSession, MoveToPending, OperationStatuses, InFlight
  <2>3. StripeTypes' /\ ColumnTypes'
    BY <1>0, <1>5, <2>1 DEF AdoptSession, MoveToPending, Forget, StripeTypes, ColumnTypes,
      CheckoutStates, CanMove, CanTransition, IsNextStatus, CollectedFunding
  <2> QED
    BY <1>5, <2>1, <2>2, <2>3, CollectionTypes DEF AdoptSession
<1>6. CASE PatchIntent(w)
  <2>1. StepTypes' /\ op[w] \in Operations
    BY <1>0, <1>6, GotoTypes, BusyWorker DEF PatchIntent
  <2> QED
    BY <1>0, <1>6, <2>1, CollectionTypes
    DEF PatchIntent, RowTypes, StripeTypes, ColumnTypes, rowVars
<1>7. CASE SettleCollection(w)
  <2>1. StepTypes' /\ op[w] \in Operations
    BY <1>0, <1>7, GotoTypes, BusyWorker DEF SettleCollection
  <2>2. RowTypes'
    BY <1>0, <1>7, <2>1, MoveTypes
    DEF SettleCollection, RowTypes, OperationStatuses, InFlight, Terminal
  <2>3. StripeTypes' /\ ColumnTypes'
    BY <1>0, <1>7 DEF SettleCollection, Forget, StripeTypes, ColumnTypes, CheckoutStates
  <2> QED
    BY <1>7, <2>1, <2>2, <2>3, CollectionTypes DEF SettleCollection
<1> QED
  BY <1>1, <1>2, <1>3, <1>4, <1>5, <1>6, <1>7

\* The delivery and the refund.
LEMMA ServiceStepTypes ==
  ASSUME TypeOK, NEW w \in Workers,
         \/ DeliverTokens(w) \/ DeliveryFailed(w) \/ Finalize(w) \/ MarkFinalized(w)
         \/ RefundFunding(w) \/ DeliveryIsDead(w) \/ DeliveryMayLand(w) \/ ReadCharge(w)
         \/ FindRefund(w) \/ CreateRefund(w) \/ NoteRefund(w) \/ Refunded(w)
  PROVE  TypeOK'
<1>0. RowTypes /\ BookTypes /\ StepTypes /\ ChainTypes /\ StripeTypes /\ ColumnTypes
  BY TypeParts
<1> USE DEF FundingSteps, CoreSteps, SendSteps, ResumeSteps, RefundSteps, stripeVars, columnVars
<1>1. CASE DeliverTokens(w) \/ RefundFunding(w) \/ DeliveryIsDead(w) \/ ReadCharge(w)
  <2>1. StepTypes'
    BY <1>0, <1>1, GotoTypes DEF DeliverTokens, RefundFunding, DeliveryIsDead, ReadCharge
  <2> QED
    BY <1>1, <2>1, QuietTypes DEF DeliverTokens, RefundFunding, DeliveryIsDead, ReadCharge
<1>2. CASE FindRefund(w)
  <2>1. StepTypes'
    BY <1>0, <1>2, GotoTypes DEF FindRefund, AfterRefund
  <2> QED
    BY <1>2, <2>1, QuietTypes DEF FindRefund
<1>3. CASE DeliveryFailed(w) \/ MarkFinalized(w) \/ Refunded(w)
  <2>1. StepTypes' /\ op[w] \in Operations
    BY <1>0, <1>3, GotoTypes, BusyWorker DEF DeliveryFailed, MarkFinalized, Refunded
  <2>2. RowTypes'
    BY <1>0, <1>3, <2>1, MoveTypes
    DEF DeliveryFailed, MarkFinalized, Refunded, RowTypes, OperationStatuses, InFlight, Terminal
  <2> QED
    BY <1>0, <1>3, <2>1, <2>2, BookingTypes
    DEF DeliveryFailed, MarkFinalized, Refunded, BookTypes, balanceVars
<1>4. CASE Finalize(w)
  <2>1. StepTypes' /\ op[w] \in Operations
    BY <1>0, <1>4, GotoTypes, BusyWorker DEF Finalize
  <2>2. BookTypes'
    <3>1. CASE status[op[w]] = "chain_confirmed"
      BY <1>0, <1>4, <2>1, <3>1, RecordTypes DEF Finalize
    <3>2. CASE status[op[w]] # "chain_confirmed"
      BY <1>0, <1>4, <3>2 DEF Finalize, BookTypes, balanceVars
    <3> QED
      BY <3>1, <3>2
  <2> QED
    BY <1>0, <1>4, <2>1, <2>2, BookingTypes DEF Finalize, RowTypes, rowVars
<1>5. CASE DeliveryMayLand(w)
  <2>1. StepTypes'
    BY <1>0, <1>5, GotoTypes DEF DeliveryMayLand
  <2>2. attempt' \in [Operations -> [Rounds -> AttemptStates]]
    BY <1>0, <1>5, AttemptTypes DEF DeliveryMayLand, AttemptStates, ChainTypes
  <2> QED
    BY <1>5, <2>1, <2>2, SendTypes DEF DeliveryMayLand
<1>6. CASE CreateRefund(w)
  <2>1. op[w] \in Operations
    BY <1>0, <1>6, BusyWorker DEF CreateRefund
  <2>2. PICK state \in IF refund[op[w]] = "none" THEN {"pending", "succeeded"}
                                                 ELSE {refund[op[w]]} :
          refund' = [refund EXCEPT ![op[w]] = state] /\ Goto(w, AfterRefund(state))
    BY <1>6 DEF CreateRefund
  <2>3. state \in {"none", "pending", "succeeded", "failed", "manual"}
    BY <1>0, <2>1, <2>2 DEF StripeTypes
  <2>4. StepTypes'
    BY <1>0, <1>6, <2>2, GotoTypes DEF CreateRefund, AfterRefund
  <2> QED
    BY <1>0, <1>6, <2>1, <2>2, <2>3, <2>4, CollectionTypes
    DEF CreateRefund, RowTypes, StripeTypes, ColumnTypes, rowVars
<1>7. CASE NoteRefund(w)
  <2>1. StepTypes' /\ op[w] \in Operations
    BY <1>0, <1>7, GotoTypes, BusyWorker DEF NoteRefund
  <2> QED
    BY <1>0, <1>7, <2>1, CollectionTypes
    DEF NoteRefund, RowTypes, StripeTypes, ColumnTypes, rowVars
<1> QED
  BY <1>1, <1>2, <1>3, <1>4, <1>5, <1>6, <1>7

LEMMA FaultStepTypes ==
  ASSUME TypeOK, NEW w \in Workers, WorkerFault(w) \/ RenewsLease(w)
  PROVE  TypeOK'
<1>0. RowTypes /\ BookTypes /\ StepTypes /\ LeaseTypes /\ ChainTypes /\ FaultTypes
      /\ StripeTypes /\ ColumnTypes
  BY TypeParts
<1> USE DEF rowVars, leaseVars, balanceVars, chainVars, workerVars, fundingVars, stripeVars, columnVars,
      RowTypes, BookTypes, FaultTypes, StripeTypes, ColumnTypes
<1>1. CASE WorkerFault(w)
  <2>1. ColumnTypes' /\ StripeTypes'
    BY <1>0, <1>1 DEF WorkerFault, Forget, CheckoutStates
  <2>2. CASE SignFails(w)
    <3>1. StepTypes'
      BY <1>0, <2>2, GotoTypes DEF SignFails, FundingSteps, CoreSteps, SendSteps
    <3>2. attempt' \in [Operations -> [Rounds -> AttemptStates]]
      BY <1>0, <2>2, AttemptTypes DEF SignFails, AttemptStates, ChainTypes
    <3> QED
      BY <1>0, <2>1, <2>2, <3>1, <3>2, TypePartsNext, MaxFaultsAssumption
      DEF SignFails, Fault, LeaseTypes, ChainTypes
  <2>3. CASE Abort(w) \/ Crash(w)
    <3>1. StepTypes'
      BY <1>0, <2>3, GotoTypes, IdleTypes DEF Abort, Crash, FundingSteps, CoreSteps
    <3> QED
      BY <1>0, <2>1, <2>3, <3>1, TypePartsNext, MaxFaultsAssumption
      DEF Abort, Crash, Fault, LeaseTypes, ChainTypes
  <2> QED
    BY <1>1, <2>2, <2>3 DEF WorkerFault
<1>2. CASE RenewsLease(w)
  <2>1. LeaseTypes'
    BY <1>0, <1>2, BusyWorker DEF RenewsLease, Heartbeat, RenewLease, LeaseTypes
  <2> QED
    BY <1>0, <1>2, <2>1, TypePartsNext DEF RenewsLease, Heartbeat, StepTypes, ChainTypes
<1> QED
  BY <1>1, <1>2

\* The chain, Stripe, the customer and time.
LEMMA WorldTypes ==
  ASSUME TypeOK, NEW o \in Operations,
         \/ Begin(o) \/ Ages(o) \/ LeaseEnds(o) \/ StripeDecides(o)
         \/ Customer(o) \/ Resolve(o)
  PROVE  TypeOK'
<1>0. RowTypes /\ BookTypes /\ StepTypes /\ LeaseTypes /\ ChainTypes /\ FaultTypes
      /\ StripeTypes /\ ColumnTypes
  BY TypeParts
<1> USE DEF rowVars, leaseVars, balanceVars, chainVars, workerVars, fundingVars, stripeVars, columnVars
<1>1. CASE Begin(o)
  BY <1>1 DEF TypeOK, RowsTypeOK, ChainTypeOK, Begin, InsertRow, OperationStatuses, InFlight
<1>2. CASE Ages(o) \/ LeaseEnds(o)
  BY <1>2 DEF TypeOK, RowsTypeOK, ChainTypeOK, Ages, LeaseEnds, Lapse
<1>3. CASE StripeDecides(o)
  <2>1. StripeTypes'
    BY <1>0, <1>3 DEF StripeDecides, DebitEnds, RefundEnds, SetCheckout, SetRefund,
      StripeTypes, CheckoutStates
  <2> QED
    BY <1>3, <2>1 DEF TypeOK, RowsTypeOK, ChainTypeOK, StripeTypes, StripeDecides, DebitEnds,
      RefundEnds, SetCheckout, SetRefund
<1>4. CASE Customer(o)
  BY <1>4 DEF TypeOK, RowsTypeOK, ChainTypeOK, Customer, CustomerPays, SessionExpires, Dispute,
    ManualRefund, SetCheckout, SetRefund, CheckoutStates
<1>5. CASE Land(o, 0) /\ UNCHANGED fundingVars
  <2>1. tokens' \in [Wallets -> Nat]
    <3>1. \A x \in Wallets :
            (CASE x = Sender(o, 0)   -> tokens[x] - Amount[o]
               [] x = Receiver(o, 0) -> tokens[x] + Amount[o]
               [] OTHER              -> tokens[x]) \in Nat
      BY <1>0, FundingKind DEF Sender, Receiver, ChainTypes
    <3> QED
      BY <1>5, <3>1 DEF Land
  <2>2. attempt' \in [Operations -> [Rounds -> AttemptStates]]
    BY <1>0, <1>5, OneRound DEF Land, ChainTypes, AttemptStates
  <2> QED
    BY <1>5, <2>1, <2>2 DEF TypeOK, RowsTypeOK, ChainTypeOK, Land
<1>6. CASE Die(o, 0) /\ UNCHANGED fundingVars
  <2>1. attempt' \in [Operations -> [Rounds -> AttemptStates]]
    BY <1>0, <1>6, OneRound DEF Die, ChainTypes, AttemptStates
  <2> QED
    BY <1>6, <2>1 DEF TypeOK, RowsTypeOK, ChainTypeOK, Die
<1> QED
  BY <1>1, <1>2, <1>3, <1>4, <1>5, <1>6 DEF Resolve

LEMMA NextTypes ==
  ASSUME TypeOK, [Next]_vars
  PROVE  TypeOK'
<1>1. CASE Next
  BY <1>1, FundingAssumption, WorldTypes, ClaimTypes, ChainStepTypes, CollectionStepTypes,
    ServiceStepTypes, FaultStepTypes DEF Next, HandlerStep
<1>2. CASE UNCHANGED vars
  BY <1>2 DEF TypeOK, RowsTypeOK, ChainTypeOK, vars, rowVars, leaseVars, balanceVars,
    chainVars, workerVars, fundingVars, stripeVars, columnVars
<1> QED
  BY <1>1, <1>2

\* Every variable of a funding keeps its type.
THEOREM TypeCorrect == Spec => []TypeOK
BY InitTypes, NextTypes, PTL DEF Spec

-------------------------------------------------------------------------------
(* What was collected, delivered and refunded                              *)

Ordered == {"pending", "succeeded", "failed"}
Ended   == {"paid", "failed", "expired"}
Hearing == {"apply_session", "adopt_session", "patch_intent", "settle"}

\* The customer's money is there before anything is signed, the transaction
\* is in the row before the row counts on it, and a refund is ordered only for
\* a delivery that never will land.
RowInv(o) ==
  /\ (attempt[o][0] # "none" \/ chainSignature[o] \/ status[o] = "collection_settled")
     => checkout[o] = "paid"
  /\ status[o] \in {"chain_submitted", "chain_confirmed", "finalized", "compensating", "reversed"}
     => chainSignature[o]
  /\ status[o] \in {"chain_confirmed", "finalized"} => attempt[o][0] = "landed"
  /\ status[o] = "failed" => checkout[o] \in {"failed", "expired"}
  /\ status[o] = "reversed" => refund[o] = "succeeded"
  /\ refund[o] \in Ordered => attempt[o][0] = "dead"

\* What a worker has seen stays true while it acts on it, because only final
\* outcomes are acted on.
WorkerInv(w) ==
  /\ heard[w] \in Ended => pc[w] \in Hearing /\ checkout[op[w]] = heard[w]
  /\ pc[w] \in SendSteps => checkout[op[w]] = "paid"
  /\ pc[w] = "completed" => attempt[op[w]][0] = "landed"
  /\ pc[w] \in RefundSteps \ {"check_delivery"} => attempt[op[w]][0] = "dead"
  /\ pc[w] \in {"note_refunded", "refunded"} => refund[op[w]] = "succeeded"

FundingInv ==
  /\ \A o \in Operations : RowInv(o)
  /\ \A w \in Workers : WorkerInv(w)

LEMMA FundingMoves ==
  ASSUME NEW o \in Operations
  PROVE  /\ CanMove(o, "collection_pending") => status[o] = "created"
         /\ CanMove(o, "collection_settled") => status[o] = "collection_pending"
         /\ CanMove(o, "chain_submitted") => status[o] = "collection_settled"
         /\ CanMove(o, "chain_confirmed") => status[o] = "chain_submitted"
         /\ CanMove(o, "finalized") => status[o] = "chain_confirmed"
         /\ CanMove(o, "reversed") => status[o] = "compensating"
<1>1. StepSequence(Kind[o]) = FundingSequence
  BY FundingKind DEF StepSequence, FundingKinds, TransferKinds, WithdrawalKinds
<1>2. Len(FundingSequence) = 6
  BY DEF FundingSequence
<1>3. 1 .. Len(FundingSequence) - 1 = {1, 2, 3, 4, 5}
  BY <1>2
<1>4. /\ FundingSequence[1] = "created" /\ FundingSequence[2] = "collection_pending"
      /\ FundingSequence[3] = "collection_settled" /\ FundingSequence[4] = "chain_submitted"
      /\ FundingSequence[5] = "chain_confirmed" /\ FundingSequence[6] = "finalized"
  BY DEF FundingSequence
<1>5. ASSUME NEW to, IsNextStatus(Kind[o], status[o], to)
      PROVE  \E i \in {1, 2, 3, 4, 5} :
               FundingSequence[i] = status[o] /\ FundingSequence[i + 1] = to
  BY <1>1, <1>3, <1>5, Zenon DEF IsNextStatus
<1>6. ASSUME NEW to, IsNextStatus(Kind[o], status[o], to)
      PROVE  \/ FundingSequence[1] = status[o] /\ FundingSequence[2] = to
             \/ FundingSequence[2] = status[o] /\ FundingSequence[3] = to
             \/ FundingSequence[3] = status[o] /\ FundingSequence[4] = to
             \/ FundingSequence[4] = status[o] /\ FundingSequence[5] = to
             \/ FundingSequence[5] = status[o] /\ FundingSequence[6] = to
  BY <1>5, <1>6
<1>7. ASSUME NEW to \in {"collection_pending", "collection_settled", "chain_submitted",
                         "chain_confirmed", "finalized"},
             CanMove(o, to)
      PROVE  IsNextStatus(Kind[o], status[o], to)
  BY <1>7 DEF CanMove, CanTransition
<1>8. CanMove(o, "reversed") => status[o] = "compensating"
  BY DEF CanMove, CanTransition
<1> QED
  BY <1>4, <1>6, <1>7, <1>8

\* What a guarded update makes of the statuses.
LEMMA MovedRow ==
  ASSUME RowTypes, NEW o \in Operations, NEW to, MoveOrThrow(o, to)
  PROVE  /\ status'[o] = IF CanMove(o, to) THEN to ELSE status[o]
         /\ \A p \in Operations \ {o} : status'[p] = status[p]
BY DEF RowTypes, MoveOrThrow

\* The outcomes that are final.
FinalStays ==
  \A o \in Operations :
    /\ checkout[o] \in Ended => checkout'[o] = checkout[o]
    /\ attempt[o][0] \in {"landed", "dead"} => attempt'[o][0] = attempt[o][0]
    /\ refund[o] = "succeeded" => refund'[o] = "succeeded"

RowStays(o) ==
  /\ status'[o] = status[o] /\ chainSignature'[o] = chainSignature[o]
  /\ attempt'[o][0] = attempt[o][0]
  /\ checkout'[o] = checkout[o] /\ refund'[o] = refund[o]

WorkerStays(w) == pc'[w] = pc[w] /\ op'[w] = op[w] /\ heard'[w] = heard[w]

\* It is enough to look at the row and at the worker a step changes.
LEMMA RowFrame ==
  ASSUME NEW o \in Operations, RowInv(o), RowStays(o)
  PROVE  RowInv(o)'
BY DEF RowInv, RowStays

LEMMA WorkerFrame ==
  ASSUME StepTypes, NEW w \in Workers, WorkerInv(w), WorkerStays(w), FinalStays
  PROVE  WorkerInv(w)'
<1>1. CASE pc[w] = "idle"
  BY <1>1 DEF WorkerInv, WorkerStays, Hearing, SendSteps, RefundSteps
<1>2. CASE pc[w] # "idle"
  <2>1. op[w] \in Operations
    BY <1>2, BusyWorker
  <2> QED
    BY <2>1 DEF WorkerInv, WorkerStays, FinalStays, Ended
<1> QED
  BY <1>1, <1>2

LEMMA StepFrame ==
  ASSUME StepTypes, FundingInv, FinalStays, NEW w \in Workers, WorkerInv(w)',
         \A v \in Workers \ {w} : WorkerStays(v),
         \A o \in Operations : RowInv(o)'
  PROVE  FundingInv'
BY WorkerFrame DEF FundingInv

\* A step that only moves its worker on.
LEMMA QuietFrame ==
  ASSUME StepTypes, FundingInv, NEW w \in Workers, WorkerInv(w)',
         \A v \in Workers \ {w} : WorkerStays(v),
         UNCHANGED <<status, chainSignature, attempt, checkout, refund>>
  PROVE  FundingInv'
<1>1. FinalStays
  BY DEF FinalStays
<1>2. \A o \in Operations : RowInv(o)'
  BY RowFrame DEF FundingInv, RowStays
<1> QED
  BY <1>1, <1>2, StepFrame

\* A step of one worker leaves the others where they are.
LEMMA OthersStay ==
  ASSUME StepTypes, NEW w \in Workers, UNCHANGED heard,
         (\E step : Goto(w, step)) \/ Idle(w)
  PROVE  \A v \in Workers \ {w} : WorkerStays(v)
BY DEF StepTypes, Goto, Idle, WorkerStays

LEMMA ClaimKeeps ==
  ASSUME TypeOK, FundingInv, NEW w \in Workers, NEW o \in Operations,
         ClaimRow(w, o) \/ RequestCheckout(w, o) \/ CheckoutWebhook(w, o)
  PROVE  FundingInv'
<1>0. StepTypes /\ ColumnTypes /\ WorkerInv(w) /\ pc[w] = "idle"
  BY TypeParts DEF FundingInv, ClaimRow, Claim, RequestCheckout, CheckoutWebhook
<1>1. \A v \in Workers \ {w} : WorkerStays(v)
  BY <1>0 DEF StepTypes, ColumnTypes, WorkerStays, ClaimRow, Claim, RequestCheckout, CheckoutWebhook,
    fundingVars
<1>2. UNCHANGED <<status, chainSignature, attempt, checkout, refund>>
  BY DEF ClaimRow, Claim, RequestCheckout, CheckoutWebhook, rowVars, chainVars, fundingVars, stripeVars
<1>3. WorkerInv(w)'
  <2> USE DEF WorkerInv, SendSteps, RefundSteps, Hearing
  <2>1. CASE ClaimRow(w, o)
    <3>1. pc'[w] \in ResumeSteps /\ heard'[w] = heard[w]
      BY <1>0, <2>1 DEF ClaimRow, Claim, ResumeAction, ResumeSteps, InFlight, StepTypes, fundingVars
    <3> QED
      BY <1>0, <3>1 DEF ResumeSteps
  <2>2. CASE RequestCheckout(w, o)
    BY <1>0, <2>2 DEF RequestCheckout, StepTypes, fundingVars
  <2>3. CASE CheckoutWebhook(w, o)
    BY <1>0, <1>2, <2>3 DEF CheckoutWebhook, StepTypes, ColumnTypes
  <2> QED
    BY <2>1, <2>2, <2>3
<1> QED
  BY <1>0, <1>1, <1>2, <1>3, QuietFrame

\* A transaction changes its state on the way to a final one.
LEMMA AttemptFrame ==
  ASSUME TypeOK, FundingInv, NEW w \in Workers, pc[w] \in {"sign", "broadcast", "recover", "check_delivery"},
         NEW state \in AttemptStates \ {"none", "landed", "dead"},
         \/ Mine(w) = "prepared"
         \/ Mine(w) = "none" /\ pc[w] = "sign",
         SetMine(w, state), WorkerInv(w)',
         UNCHANGED <<status, chainSignature, checkout, refund>>,
         \A v \in Workers \ {w} : WorkerStays(v)
  PROVE  FundingInv'
<1>1. StepTypes /\ ChainTypes /\ WorkerInv(w) /\ op[w] \in Operations /\ round[w] = 0
  BY TypeParts, BusyWorker DEF FundingInv
<1>2. /\ attempt'[op[w]][0] = state
      /\ \A o \in Operations \ {op[w]} : attempt'[o] = attempt[o]
  BY <1>1, OneRound DEF SetMine, ChainTypes
<1>3. FinalStays
  BY <1>1, <1>2 DEF FinalStays, Mine
<1>4. attempt[op[w]][0] # "none" => checkout[op[w]] = "paid"
  BY <1>1 DEF FundingInv, RowInv
<1>5. checkout[op[w]] = "paid"
  BY <1>1, <1>4 DEF WorkerInv, SendSteps, Mine
<1>6. ASSUME NEW o \in Operations PROVE RowInv(o)'
  <2>0. RowInv(o)
    BY DEF FundingInv
  <2>1. CASE o # op[w]
    BY <1>2, <2>0, <2>1, RowFrame DEF RowStays
  <2>2. CASE o = op[w]
    <3>1. attempt[o][0] \in {"none", "prepared"} /\ attempt'[o][0] = state /\ checkout[o] = "paid"
      BY <1>1, <1>2, <1>5, <2>2 DEF Mine
    <3>2. status[o] \notin {"chain_confirmed", "finalized"} /\ refund[o] \notin Ordered
      BY <2>0, <3>1 DEF RowInv
    <3> QED
      BY <2>0, <3>1, <3>2 DEF RowInv
  <2> QED
    BY <2>1, <2>2
<1>7. \A o \in Operations : RowInv(o)'
  BY <1>6
<1> QED
  BY <1>1, <1>3, <1>7, StepFrame

LEMMA ChainStepKeeps ==
  ASSUME TypeOK, FundingInv, NEW w \in Workers, ChainStep(w)
  PROVE  FundingInv'
<1>0. RowTypes /\ StepTypes /\ LeaseTypes /\ ChainTypes /\ ColumnTypes /\ WorkerInv(w)
  BY TypeParts DEF FundingInv
<1>p. UNCHANGED <<checkout, refund, heard>>
  BY DEF ChainStep, fundingVars, stripeVars
<1>1. \A v \in Workers \ {w} : WorkerStays(v)
  BY <1>0, <1>p, OthersStay DEF ChainStep, LookUp, Sign, CheckSaved, RecordSignature, Broadcast, Confirm,
    ConfirmTimesOut, CheckChain, RecoverSettled, RecoverPending, TransferCompleted, Release
<1>2. op[w] \in Operations /\ round[w] = 0
  BY <1>0, BusyWorker DEF ChainStep, LookUp, Sign, CheckSaved, RecordSignature, Broadcast, Confirm,
    ConfirmTimesOut, CheckChain, RecoverSettled, RecoverPending, TransferCompleted, Release
<1>3. RowInv(op[w])
  BY <1>2 DEF FundingInv
<1> USE DEF SendSteps, RefundSteps, Hearing, Goto
<1>4. CASE \/ LookUp(w) \/ CheckSaved(w) \/ Confirm(w) \/ ConfirmTimesOut(w) \/ CheckChain(w)
           \/ RecoverSettled(w) \/ Release(w)
  <2>1. UNCHANGED <<status, chainSignature, attempt>>
    BY <1>4 DEF LookUp, CheckSaved, Confirm, ConfirmTimesOut, CheckChain, RecoverSettled, Release,
      rowVars, chainVars
  <2>2. CASE LookUp(w) \/ CheckSaved(w) \/ Confirm(w) \/ ConfirmTimesOut(w)
    <3>1. WorkerInv(w)'
      BY <1>0, <1>p, <1>2, <2>1, <2>2
      DEF WorkerInv, StepTypes, LookUp, CheckSaved, Confirm, ConfirmTimesOut, Mine
    <3> QED
      BY <1>0, <1>p, <1>1, <2>1, <3>1, QuietFrame
  <2>3. CASE CheckChain(w)
    <3>1. WorkerInv(w)'
      BY <1>0, <1>p, <1>2, <1>3, <2>1, <2>3 DEF WorkerInv, RowInv, StepTypes, CheckChain
    <3> QED
      BY <1>0, <1>p, <1>1, <2>1, <3>1, QuietFrame
  <2>4. CASE RecoverSettled(w)
    <3>1. WorkerInv(w)'
      BY <1>0, <1>p, <1>2, <2>1, <2>4 DEF WorkerInv, StepTypes, RecoverSettled, Mine
    <3> QED
      BY <1>0, <1>p, <1>1, <2>1, <3>1, QuietFrame
  <2>5. CASE Release(w)
    <3>1. WorkerInv(w)'
      BY <1>0, <1>p, <2>1, <2>5 DEF WorkerInv, StepTypes, Release, Idle
    <3> QED
      BY <1>0, <1>p, <1>1, <2>1, <3>1, QuietFrame
  <2> QED
    BY <1>4, <2>2, <2>3, <2>4, <2>5
<1>5. CASE Sign(w) \/ Broadcast(w) \/ RecoverPending(w)
  <2>1. UNCHANGED <<status, chainSignature>>
    BY <1>5 DEF Sign, Broadcast, RecoverPending, rowVars
  <2>2. WorkerInv(w)'
    BY <1>0, <1>p, <1>2, <1>5 DEF WorkerInv, StepTypes, Sign, Broadcast, RecoverPending
  <2>3. CASE UNCHANGED attempt
    BY <1>0, <1>p, <1>1, <2>1, <2>2, <2>3, QuietFrame
  <2>4. CASE ~UNCHANGED attempt
    <3>1. PICK state \in {"prepared", "broadcast"} :
            /\ SetMine(w, state)
            /\ \/ Mine(w) = "prepared"
               \/ Mine(w) = "none" /\ pc[w] = "sign"
      <4>1. CASE Sign(w)
        BY <2>4, <4>1 DEF Sign
      <4>2. CASE Broadcast(w) \/ RecoverPending(w)
        <5>1. SetMine(w, "broadcast") /\ Mine(w) = "prepared"
          BY <2>4, <4>2 DEF Broadcast, RecoverPending
        <5> QED
          BY <5>1
      <4> QED
        BY <1>5, <4>1, <4>2
    <3>2. pc[w] \in {"sign", "broadcast", "recover"}
      BY <1>5 DEF Sign, Broadcast, RecoverPending
    <3> QED
      BY <1>p, <1>1, <2>1, <2>2, <3>1, <3>2, AttemptFrame DEF AttemptStates
  <2> QED
    BY <2>3, <2>4
<1>6. CASE RecordSignature(w) \/ TransferCompleted(w)
  <2>1. UNCHANGED attempt
    BY <1>6 DEF RecordSignature, TransferCompleted, chainVars
  <2>2. FinalStays
    BY <1>p, <2>1 DEF FinalStays
  <2>3. WorkerInv(w)'
    BY <1>0, <1>p, <1>2, <1>6, <2>1 DEF WorkerInv, StepTypes, RecordSignature, TransferCompleted
  <2>4. \A o \in Operations \ {op[w]} : RowStays(o)
    BY <1>0, <1>p, <1>2, <1>6, <2>1, MovedRow
    DEF RowStays, RecordSignature, TransferCompleted, LeaseTypes
  <2>5. ASSUME NEW o \in Operations, o = op[w] PROVE RowInv(o)'
    <3>1. CASE RecordSignature(w)
      <4>1. checkout[o] = "paid"
        BY <1>0, <2>5, <3>1 DEF RecordSignature, WorkerInv
      <4>2. CASE CanMove(o, "chain_submitted")
        <5>1. status'[o] = "chain_submitted" /\ chainSignature'[o]
          BY <1>0, <1>2, <2>5, <3>1, <4>2, MovedRow DEF RecordSignature, LeaseTypes
        <5> QED
          BY <1>3, <2>5, <1>p, <2>1, <4>1, <5>1 DEF RowInv
      <4>3. CASE ~CanMove(o, "chain_submitted")
        BY <1>0, <1>p, <1>2, <1>3, <2>5, <2>1, <3>1, <4>3, MovedRow, RowFrame
        DEF RecordSignature, RowStays
      <4> QED
        BY <4>2, <4>3
    <3>2. CASE TransferCompleted(w)
      <4>1. attempt[o][0] = "landed" /\ chainSignature' = chainSignature
        BY <1>0, <2>5, <3>2 DEF TransferCompleted, WorkerInv
      <4>2. CASE CanMove(o, "chain_confirmed")
        <5>1. status[o] = "chain_submitted" /\ status'[o] = "chain_confirmed"
          BY <1>0, <1>2, <2>5, <3>2, <4>2, MovedRow, FundingMoves DEF TransferCompleted
        <5> QED
          BY <1>3, <2>5, <1>p, <2>1, <4>1, <5>1 DEF RowInv
      <4>3. CASE ~CanMove(o, "chain_confirmed")
        BY <1>0, <1>p, <1>2, <1>3, <2>5, <2>1, <3>2, <4>1, <4>3, MovedRow, RowFrame
        DEF TransferCompleted, RowStays
      <4> QED
        BY <4>2, <4>3
    <3> QED
      BY <1>6, <3>1, <3>2
  <2>6. \A o \in Operations : RowInv(o)'
    BY <2>4, <2>5, RowFrame DEF FundingInv
  <2> QED
    BY <1>0, <1>1, <2>2, <2>3, <2>6, StepFrame
<1> QED
  BY <1>4, <1>5, <1>6 DEF ChainStep

\* A step that moves one row on by a guarded update.
LEMMA MoveFrame ==
  ASSUME TypeOK, FundingInv, NEW w \in Workers, NEW o \in Operations, o = op[w], NEW to,
         MoveOrThrow(o, to),
         UNCHANGED <<chainSignature, attempt, checkout, refund>>,
         CanMove(o, to) /\ status'[o] = to => RowInv(o)',
         WorkerInv(w)', \A v \in Workers \ {w} : WorkerStays(v)
  PROVE  FundingInv'
<1>1. StepTypes /\ RowTypes
  BY TypeParts
<1>2. FinalStays
  BY DEF FinalStays
<1>3. \A p \in Operations \ {o} : RowStays(p)
  BY <1>1, MovedRow DEF RowStays
<1>4. RowInv(o)'
  <2>1. CASE CanMove(o, to)
    BY <1>1, <2>1, MovedRow
  <2>2. CASE ~CanMove(o, to)
    <3>1. RowStays(o)
      BY <1>1, <2>2, MovedRow DEF RowStays
    <3> QED
      BY <3>1, RowFrame DEF FundingInv
  <2> QED
    BY <2>1, <2>2
<1>5. \A p \in Operations : RowInv(p)'
  BY <1>3, <1>4, RowFrame DEF FundingInv
<1> QED
  BY <1>1, <1>2, <1>5, StepFrame

LEMMA CollectionKeeps ==
  ASSUME TypeOK, FundingInv, NEW w \in Workers,
         \/ EnsureCheckout(w) \/ CreateCheckout(w) \/ RecordCheckout(w)
         \/ PollCollection(w) \/ ApplySession(w) \/ AdoptSession(w)
         \/ PatchIntent(w) \/ SettleCollection(w)
  PROVE  FundingInv'
<1>0. RowTypes /\ StepTypes /\ StripeTypes /\ ColumnTypes /\ WorkerInv(w)
  BY TypeParts DEF FundingInv
<1>1. PICK o \in Operations : o = op[w]
  BY <1>0, BusyWorker DEF EnsureCheckout, CreateCheckout, RecordCheckout, PollCollection, ApplySession,
    AdoptSession, PatchIntent, SettleCollection
<1>2. \A v \in Workers \ {w} : WorkerStays(v)
  BY <1>0 DEF StepTypes, ColumnTypes, WorkerStays, Goto, Forget, EnsureCheckout, CreateCheckout,
    RecordCheckout, PollCollection, ApplySession, AdoptSession, PatchIntent, SettleCollection, fundingVars
<1> USE DEF SendSteps, RefundSteps, Hearing, Goto
<1>3. CASE EnsureCheckout(w) \/ ApplySession(w)
  <2>1. UNCHANGED <<status, chainSignature, attempt, checkout, refund, heard>>
    BY <1>3 DEF EnsureCheckout, ApplySession, rowVars, chainVars, fundingVars, stripeVars
  <2>2. WorkerInv(w)'
    BY <1>0, <1>1, <1>3, <2>1 DEF WorkerInv, StepTypes, EnsureCheckout, ApplySession
  <2> QED
    BY <1>0, <1>2, <2>1, <2>2, QuietFrame
<1>4. CASE CreateCheckout(w)
  <2>1. UNCHANGED <<status, chainSignature, attempt, refund, heard>>
    BY <1>4 DEF CreateCheckout, rowVars, chainVars
  <2>2. FinalStays
    BY <1>0, <1>1, <1>4, <2>1 DEF FinalStays, CreateCheckout, StripeTypes, Ended
  <2>3. WorkerInv(w)'
    BY <1>0, <1>1, <1>4, <2>1 DEF WorkerInv, StepTypes, CreateCheckout
  <2>4. ASSUME NEW q \in Operations PROVE RowInv(q)'
    <3>1. checkout'[q] = checkout[q] \/ checkout[q] = "none"
      BY <1>0, <1>1, <1>4 DEF CreateCheckout, StripeTypes
    <3> QED
      BY <2>1, <3>1 DEF FundingInv, RowInv
  <2> QED
    BY <1>0, <1>2, <2>2, <2>3, <2>4, StepFrame
<1>5. CASE PollCollection(w)
  <2>1. UNCHANGED <<status, chainSignature, attempt, checkout, refund>>
    BY <1>5 DEF PollCollection, rowVars, chainVars, stripeVars
  <2>2. WorkerInv(w)'
    BY <1>0, <1>1, <1>5, <2>1 DEF WorkerInv, StepTypes, ColumnTypes, PollCollection, Polled, Ended
  <2> QED
    BY <1>0, <1>2, <2>1, <2>2, QuietFrame
<1>6. CASE PatchIntent(w)
  <2>1. UNCHANGED <<status, chainSignature, attempt, checkout, refund, heard>>
    BY <1>6 DEF PatchIntent, rowVars, chainVars, stripeVars
  <2>2. WorkerInv(w)'
    BY <1>0, <1>1, <1>6, <2>1 DEF WorkerInv, StepTypes, PatchIntent
  <2> QED
    BY <1>0, <1>2, <2>1, <2>2, QuietFrame
<1>7. CASE RecordCheckout(w) \/ AdoptSession(w)
  <2>1. UNCHANGED <<chainSignature, attempt, checkout, refund>>
    BY <1>7 DEF RecordCheckout, AdoptSession, chainVars, stripeVars
  <2>2. WorkerInv(w)'
    BY <1>0, <1>1, <1>7, <2>1
    DEF WorkerInv, StepTypes, ColumnTypes, RecordCheckout, AdoptSession, Forget, Ended
  <2>3. MoveOrThrow(o, "collection_pending")
    BY <1>1, <1>7 DEF RecordCheckout, AdoptSession, MoveToPending
  <2>4. ASSUME status'[o] = "collection_pending" PROVE RowInv(o)'
    BY <2>1, <2>4 DEF FundingInv, RowInv
  <2> QED
    BY <1>1, <1>2, <2>1, <2>2, <2>3, <2>4, MoveFrame
<1>8. CASE SettleCollection(w)
  <2>1. UNCHANGED <<chainSignature, attempt, checkout, refund>>
    BY <1>8 DEF SettleCollection, chainVars, stripeVars
  <2>2. WorkerInv(w)'
    BY <1>0, <1>1, <1>8, <2>1 DEF WorkerInv, StepTypes, ColumnTypes, SettleCollection, Forget, Ended
  <2>3. CASE UNCHANGED status
    BY <1>0, <1>2, <2>1, <2>2, <2>3, QuietFrame
  <2>4. CASE heard[w] = "paid" /\ MoveOrThrow(o, "collection_settled")
    <3>1. checkout[o] = "paid"
      BY <1>0, <1>1, <2>4 DEF WorkerInv, Ended
    <3>2. ASSUME status'[o] = "collection_settled" PROVE RowInv(o)'
      BY <2>1, <3>1, <3>2 DEF FundingInv, RowInv
    <3> QED
      BY <1>1, <1>2, <2>1, <2>2, <2>4, <3>2, MoveFrame
  <2>5. CASE heard[w] \in {"failed", "expired"} /\ MoveOrThrow(o, "failed")
    <3>1. checkout[o] \in {"failed", "expired"}
      BY <1>0, <1>1, <2>5 DEF WorkerInv, Ended
    <3>2. ASSUME status'[o] = "failed" PROVE RowInv(o)'
      BY <2>1, <3>1, <3>2 DEF FundingInv, RowInv
    <3> QED
      BY <1>1, <1>2, <2>1, <2>2, <2>5, <3>2, MoveFrame
  <2> QED
    BY <1>1, <1>8, <2>3, <2>4, <2>5 DEF SettleCollection
<1> QED
  BY <1>3, <1>4, <1>5, <1>6, <1>7, <1>8

LEMMA ServiceKeeps ==
  ASSUME TypeOK, FundingInv, NEW w \in Workers,
         \/ DeliverTokens(w) \/ DeliveryFailed(w) \/ Finalize(w) \/ MarkFinalized(w)
         \/ RefundFunding(w) \/ DeliveryIsDead(w) \/ DeliveryMayLand(w) \/ ReadCharge(w)
         \/ FindRefund(w) \/ CreateRefund(w) \/ NoteRefund(w) \/ Refunded(w)
  PROVE  FundingInv'
<1>0. RowTypes /\ StepTypes /\ ChainTypes /\ StripeTypes /\ ColumnTypes /\ WorkerInv(w)
  BY TypeParts DEF FundingInv
<1>1. PICK o \in Operations : o = op[w]
  BY <1>0, BusyWorker DEF DeliverTokens, DeliveryFailed, Finalize, MarkFinalized, RefundFunding,
    DeliveryIsDead, DeliveryMayLand, ReadCharge, FindRefund, CreateRefund, NoteRefund, Refunded
<1>r. RowInv(o)
  BY DEF FundingInv
<1>2. UNCHANGED <<chainSignature, checkout, heard>>
  BY DEF DeliverTokens, DeliveryFailed, Finalize, MarkFinalized, RefundFunding,
    DeliveryIsDead, DeliveryMayLand, ReadCharge, FindRefund, CreateRefund, NoteRefund, Refunded,
    rowVars, fundingVars, stripeVars
<1>3. \A v \in Workers \ {w} : WorkerStays(v)
  BY <1>0, <1>2, OthersStay DEF DeliverTokens, DeliveryFailed, Finalize, MarkFinalized, RefundFunding,
    DeliveryIsDead, DeliveryMayLand, ReadCharge, FindRefund, CreateRefund, NoteRefund, Refunded
<1> USE DEF SendSteps, RefundSteps, Hearing, Goto
<1>4. CASE DeliverTokens(w) \/ RefundFunding(w) \/ DeliveryIsDead(w) \/ ReadCharge(w)
           \/ FindRefund(w) \/ Finalize(w) \/ NoteRefund(w)
  <2>1. UNCHANGED <<status, attempt, refund>>
    BY <1>4 DEF DeliverTokens, RefundFunding, DeliveryIsDead, ReadCharge, FindRefund, Finalize,
      NoteRefund, rowVars, chainVars, fundingVars, stripeVars
  <2>2. CASE DeliverTokens(w) \/ RefundFunding(w)
    <3>1. WorkerInv(w)'
      BY <1>0, <1>1, <1>r, <1>2, <2>1, <2>2
      DEF WorkerInv, RowInv, StepTypes, DeliverTokens, RefundFunding
    <3> QED
      BY <1>0, <1>2, <1>3, <2>1, <3>1, QuietFrame
  <2>3. CASE DeliveryIsDead(w) \/ ReadCharge(w) \/ Finalize(w) \/ NoteRefund(w)
    <3>1. WorkerInv(w)'
      BY <1>0, <1>1, <1>2, <2>1, <2>3
      DEF WorkerInv, StepTypes, DeliveryIsDead, ReadCharge, Finalize, NoteRefund
    <3> QED
      BY <1>0, <1>2, <1>3, <2>1, <3>1, QuietFrame
  <2>4. CASE FindRefund(w)
    <3>1. WorkerInv(w)'
      BY <1>0, <1>1, <1>2, <2>1, <2>4 DEF WorkerInv, StepTypes, FindRefund, AfterRefund
    <3> QED
      BY <1>0, <1>2, <1>3, <2>1, <3>1, QuietFrame
  <2> QED
    BY <1>4, <2>2, <2>3, <2>4
<1>5. CASE DeliveryMayLand(w)
  <2>1. UNCHANGED <<status, refund>>
    BY <1>5 DEF DeliveryMayLand, rowVars, fundingVars, stripeVars
  <2>2. WorkerInv(w)'
    BY <1>0, <1>1, <1>2, <1>5 DEF WorkerInv, StepTypes, DeliveryMayLand
  <2>3. CASE UNCHANGED attempt
    BY <1>0, <1>2, <1>3, <2>1, <2>2, <2>3, QuietFrame
  <2>4. CASE ~UNCHANGED attempt
    <3>1. SetMine(w, "broadcast") /\ Mine(w) = "prepared" /\ pc[w] = "check_delivery"
      BY <1>0, <1>5, <2>4, BusyWorker DEF DeliveryMayLand, Mine
    <3> QED
      BY <1>2, <1>3, <2>1, <2>2, <3>1, AttemptFrame DEF AttemptStates
  <2> QED
    BY <2>3, <2>4
<1>6. CASE DeliveryFailed(w)
  <2>1. UNCHANGED <<attempt, refund>>
    BY <1>6 DEF DeliveryFailed, chainVars, fundingVars, stripeVars
  <2>2. WorkerInv(w)'
    BY <1>0, <1>1, <1>2, <1>6, <2>1 DEF WorkerInv, StepTypes, DeliveryFailed
  <2>3. CASE UNCHANGED status
    BY <1>0, <1>2, <1>3, <2>1, <2>2, <2>3, QuietFrame
  <2>4. CASE ~UNCHANGED status
    <3>1. status[o] = "chain_submitted" /\ MoveOrThrow(o, "compensating")
      BY <1>1, <1>6, <2>4 DEF DeliveryFailed
    <3>2. ASSUME status'[o] = "compensating" PROVE RowInv(o)'
      BY <1>r, <1>2, <2>1, <3>1, <3>2 DEF RowInv
    <3> QED
      BY <1>1, <1>2, <1>3, <2>1, <2>2, <3>1, <3>2, MoveFrame
  <2> QED
    BY <2>3, <2>4
<1>7. CASE MarkFinalized(w) \/ Refunded(w)
  <2>1. UNCHANGED <<attempt, refund>>
    BY <1>7 DEF MarkFinalized, Refunded, chainVars, fundingVars, stripeVars
  <2>2. WorkerInv(w)'
    BY <1>0, <1>1, <1>2, <1>7, <2>1 DEF WorkerInv, StepTypes, MarkFinalized, Refunded
  <2>3. CASE MarkFinalized(w)
    <3>1. ASSUME CanMove(o, "finalized"), status'[o] = "finalized" PROVE RowInv(o)'
      BY <1>r, <1>2, <2>1, <3>1, FundingMoves DEF RowInv
    <3> QED
      BY <1>1, <1>2, <1>3, <2>1, <2>2, <2>3, <3>1, MoveFrame DEF MarkFinalized
  <2>4. CASE Refunded(w)
    <3>1. refund[o] = "succeeded"
      BY <1>0, <1>1, <2>4 DEF Refunded, WorkerInv
    <3>2. ASSUME CanMove(o, "reversed"), status'[o] = "reversed" PROVE RowInv(o)'
      BY <1>r, <1>2, <2>1, <3>1, <3>2, FundingMoves DEF RowInv
    <3> QED
      BY <1>1, <1>2, <1>3, <2>1, <2>2, <2>4, <3>2, MoveFrame DEF Refunded
  <2> QED
    BY <1>7, <2>3, <2>4
<1>8. CASE CreateRefund(w)
  <2>1. UNCHANGED <<status, attempt>> /\ pc[w] = "create_refund" /\ attempt[o][0] = "dead"
    BY <1>0, <1>1, <1>8 DEF CreateRefund, rowVars, chainVars, WorkerInv
  <2>2. PICK state \in IF refund[o] = "none" THEN {"pending", "succeeded"} ELSE {refund[o]} :
          refund' = [refund EXCEPT ![o] = state] /\ Goto(w, AfterRefund(state))
    BY <1>1, <1>8 DEF CreateRefund
  <2>3. refund'[o] = state /\ \A p \in Operations \ {o} : refund'[p] = refund[p]
    BY <1>0, <2>2 DEF StripeTypes
  <2>4. FinalStays
    BY <1>2, <2>1, <2>2, <2>3 DEF FinalStays
  <2>5. WorkerInv(w)'
    BY <1>0, <1>1, <1>2, <2>1, <2>2, <2>3 DEF WorkerInv, StepTypes, AfterRefund
  <2>6. ASSUME NEW p \in Operations PROVE RowInv(p)'
    <3>1. CASE p = o
      BY <1>r, <1>2, <2>1, <2>2, <2>3, <3>1 DEF RowInv
    <3>2. CASE p # o
      BY <1>2, <2>1, <2>3, <3>2, RowFrame DEF FundingInv, RowStays
    <3> QED
      BY <3>1, <3>2
  <2> QED
    BY <1>0, <1>3, <2>4, <2>5, <2>6, StepFrame
<1> QED
  BY <1>4, <1>5, <1>6, <1>7, <1>8

LEMMA FaultKeeps ==
  ASSUME TypeOK, FundingInv, NEW w \in Workers, WorkerFault(w) \/ RenewsLease(w)
  PROVE  FundingInv'
<1>0. StepTypes /\ ColumnTypes /\ WorkerInv(w)
  BY TypeParts DEF FundingInv
<1>1. CASE RenewsLease(w)
  <2>1. UNCHANGED <<status, chainSignature, attempt, checkout, refund, pc, op, heard>>
    BY <1>1 DEF RenewsLease, Heartbeat, rowVars, chainVars, workerVars, fundingVars, stripeVars
  <2>2. WorkerInv(w)'
    BY <1>0, <2>1 DEF WorkerInv
  <2> QED
    BY <1>0, <2>1, <2>2, QuietFrame DEF WorkerStays
<1>2. CASE WorkerFault(w)
  <2>1. UNCHANGED <<status, chainSignature, checkout, refund>>
    BY <1>2 DEF WorkerFault, SignFails, Abort, Crash, rowVars, stripeVars
  <2>2. pc[w] # "idle" /\ heard' = [heard EXCEPT ![w] = "none"]
    BY <1>2 DEF WorkerFault, SignFails, Abort, Crash, Forget
  <2>3. \A v \in Workers \ {w} : WorkerStays(v)
    BY <1>0, <1>2, <2>2
    DEF WorkerFault, SignFails, Abort, Crash, Goto, Idle, StepTypes, ColumnTypes, WorkerStays
  <2>4. CASE Abort(w) \/ Crash(w)
    <3>1. WorkerInv(w)'
      BY <1>0, <2>2, <2>4 DEF WorkerInv, Abort, Crash, Goto, Idle, StepTypes, ColumnTypes,
        Ended, SendSteps, RefundSteps
    <3> QED
      BY <1>0, <2>1, <2>3, <2>4, <3>1, QuietFrame DEF Abort, Crash, chainVars
  <2>5. CASE SignFails(w)
    <3>1. op[w] \in Operations
      BY <1>0, <2>2, BusyWorker
    <3>2. WorkerInv(w)'
      BY <1>0, <2>1, <2>2, <2>5, <3>1 DEF WorkerInv, SignFails, Goto, StepTypes, ColumnTypes,
        Ended, SendSteps, RefundSteps
    <3>3. CASE UNCHANGED attempt
      BY <1>0, <2>1, <2>3, <3>2, <3>3, QuietFrame
    <3>4. CASE ~UNCHANGED attempt
      <4>1. SetMine(w, "prepared") /\ Mine(w) = "none" /\ pc[w] = "sign"
        BY <2>5, <3>4 DEF SignFails
      <4> QED
        BY <2>1, <2>3, <3>2, <4>1, AttemptFrame DEF AttemptStates
    <3> QED
      BY <3>3, <3>4
  <2> QED
    BY <1>2, <2>4, <2>5 DEF WorkerFault
<1> QED
  BY <1>1, <1>2

LEMMA WorldKeeps ==
  ASSUME TypeOK, FundingInv, NEW o \in Operations,
         \/ Begin(o) \/ Ages(o) \/ LeaseEnds(o) \/ StripeDecides(o)
         \/ Customer(o) \/ Resolve(o)
  PROVE  FundingInv'
<1>0. RowTypes /\ StepTypes /\ ChainTypes /\ StripeTypes /\ RowInv(o)
  BY TypeParts DEF FundingInv
<1> USE DEF SetCheckout, SetRefund, rowVars, chainVars, workerVars, fundingVars, stripeVars
<1>1. \A v \in Workers : WorkerStays(v)
  BY DEF WorkerStays, Begin, Ages, LeaseEnds, Lapse, StripeDecides, DebitEnds, RefundEnds,
    Customer, CustomerPays, SessionExpires, Dispute, ManualRefund, Resolve, Land, Die
<1>2. \A p \in Operations \ {o} : RowStays(p)
  BY <1>0 DEF RowStays, RowTypes, ChainTypes, StripeTypes, Begin, InsertRow, Ages, LeaseEnds, Lapse,
    StripeDecides, DebitEnds, RefundEnds, Customer, CustomerPays, SessionExpires, Dispute,
    ManualRefund, Resolve, Land, Die
<1>3. /\ checkout[o] \in Ended => checkout'[o] = checkout[o]
      /\ attempt[o][0] \in {"landed", "dead"} => attempt'[o][0] = attempt[o][0]
      /\ refund[o] = "succeeded" => refund'[o] = "succeeded"
      /\ RowInv(o)'
  <2>1. CASE Begin(o)
    BY <1>0, <2>1 DEF Begin, InsertRow, RowTypes, RowInv
  <2>2. CASE Ages(o) \/ LeaseEnds(o) \/ Dispute(o)
    BY <1>0, <2>2 DEF Ages, LeaseEnds, Lapse, Dispute, RowInv
  <2>3. CASE CustomerPays(o) \/ SessionExpires(o) \/ DebitEnds(o)
    <3>1. checkout[o] \in {"open", "submitted"} /\ UNCHANGED <<status, chainSignature, attempt, refund>>
      BY <2>3 DEF CustomerPays, SessionExpires, DebitEnds
    <3> QED
      BY <1>0, <3>1 DEF RowInv, Ended
  <2>4. CASE RefundEnds(o) \/ ManualRefund(o)
    <3>1. /\ UNCHANGED <<status, chainSignature, attempt, checkout>>
          /\ \/ refund[o] = "pending"
             \/ refund[o] = "none" /\ refund'[o] = "manual"
      BY <1>0, <2>4 DEF RefundEnds, ManualRefund, StripeTypes
    <3> QED
      BY <1>0, <3>1 DEF RowInv, Ordered
  <2>5. CASE Resolve(o)
    <3>1. /\ attempt[o][0] \in {"prepared", "broadcast"} /\ attempt'[o][0] \in {"landed", "dead"}
          /\ UNCHANGED <<status, chainSignature, checkout, refund>>
      BY <1>0, <2>5, OneRound DEF Resolve, Land, Die, ChainTypes
    <3> QED
      BY <1>0, <3>1 DEF RowInv
  <2> QED
    BY <2>1, <2>2, <2>3, <2>4, <2>5 DEF StripeDecides, Customer
<1>4. FinalStays
  BY <1>2, <1>3 DEF FinalStays, RowStays
<1>5. \A p \in Operations : RowInv(p)'
  BY <1>2, <1>3, RowFrame DEF FundingInv
<1> QED
  BY <1>0, <1>1, <1>4, <1>5, WorkerFrame DEF FundingInv

LEMMA FundingInvInit == Init => FundingInv
BY OneRound DEF Init, RowsInit, ChainInit, FundingInv, RowInv, WorkerInv, Ordered, Ended,
  SendSteps, RefundSteps

LEMMA FundingInvStep ==
  ASSUME TypeOK, FundingInv, [Next]_vars
  PROVE  FundingInv'
<1>1. CASE Next
  BY <1>1, FundingAssumption, WorldKeeps, ClaimKeeps, ChainStepKeeps, CollectionKeeps,
    ServiceKeeps, FaultKeeps DEF Next, HandlerStep
<1>2. CASE UNCHANGED vars
  BY <1>2 DEF FundingInv, RowInv, WorkerInv, vars, rowVars, chainVars, workerVars, fundingVars, stripeVars
<1> QED
  BY <1>1, <1>2

\* What holds of every reachable state of a funding.
LEMMA Inductive == Spec => [](TypeOK /\ FundingInv)
BY InitTypes, NextTypes, FundingInvInit, FundingInvStep, PTL DEF Spec

\* A funding reported as failed took nothing and delivered nothing, in
\* whatever order polls and webhooks spoke and even when workers overlap.
THEOREM FailedTookNothing == Spec => []FailureCollectedNothing
<1>1. TypeOK /\ FundingInv => FailureCollectedNothing
  BY DEF FundingInv, RowInv, FailureCollectedNothing
<1> QED
  BY <1>1, Inductive, PTL

\* A funding is reversed only when its refund succeeded and its delivery is dead.
THEOREM ReversedIsRefunded == Spec => []ReversedOnlyWhenRefunded
<1>1. TypeOK /\ FundingInv => ReversedOnlyWhenRefunded
  BY DEF FundingInv, RowInv, ReversedOnlyWhenRefunded, Ordered
<1> QED
  BY <1>1, Inductive, PTL

-------------------------------------------------------------------------------
(* Delivered or refunded, never both                                       *)

Collected  == {o \in Operations : checkout[o] = "paid"}
Delivered  == {o \in Operations : attempt[o][0] = "landed"}
PaidBack   == {o \in Operations : refund[o] \in {"pending", "succeeded", "failed"}}
ClosedOnes == {o \in Operations : status[o] \in {"finalized", "reversed"}}

Closing == {"finalized", "reversed"}

SameCollection(o) == checkout'[o] = "paid" <=> checkout[o] = "paid"
SameDelivery(o)   == attempt'[o][0] = "landed" <=> attempt[o][0] = "landed"
SameRefund(o)     == refund'[o] \in Ordered <=> refund[o] \in Ordered
SameEnd(o)        == status'[o] \in Closing <=> status[o] \in Closing

\* What a step may do to the row it changes, in the eyes of CollectedMoney.
OneStep(o) ==
  \/ SameCollection(o) /\ SameDelivery(o) /\ SameRefund(o) /\ SameEnd(o)
  \/ /\ checkout[o] # "paid" /\ checkout'[o] = "paid"
     /\ SameDelivery(o) /\ SameRefund(o) /\ SameEnd(o)
  \/ /\ attempt[o][0] \notin {"none", "landed", "dead"} /\ attempt'[o][0] = "landed"
     /\ SameCollection(o) /\ SameRefund(o) /\ SameEnd(o)
  \/ /\ refund[o] \notin Ordered /\ refund'[o] \in Ordered /\ attempt[o][0] = "dead"
     /\ SameCollection(o) /\ SameDelivery(o) /\ SameEnd(o)
  \/ /\ status[o] \notin Closing /\ status'[o] \in Closing
     /\ attempt[o][0] = "landed" \/ refund[o] \in Ordered
     /\ SameCollection(o) /\ SameDelivery(o) /\ SameRefund(o)

\* The same in terms of the sets.
Promised ==
  \/ UNCHANGED <<Collected, Delivered, PaidBack, ClosedOnes>>
  \/ \E o \in Operations :
       \/ /\ o \notin Collected /\ Collected' = Collected \cup {o}
          /\ UNCHANGED <<Delivered, PaidBack, ClosedOnes>>
       \/ /\ o \in Collected \ (Delivered \cup PaidBack) /\ Delivered' = Delivered \cup {o}
          /\ UNCHANGED <<Collected, PaidBack, ClosedOnes>>
       \/ /\ o \in Collected \ (Delivered \cup PaidBack) /\ PaidBack' = PaidBack \cup {o}
          /\ UNCHANGED <<Collected, Delivered, ClosedOnes>>
       \/ /\ o \in (Delivered \cup PaidBack) \ ClosedOnes /\ ClosedOnes' = ClosedOnes \cup {o}
          /\ UNCHANGED <<Collected, Delivered, PaidBack>>

LEMMA OneStepIsPromised ==
  ASSUME FundingInv, NEW o \in Operations, OneStep(o),
         \A p \in Operations \ {o} : RowStays(p)
  PROVE  Promised
<1>0. RowInv(o)
  BY DEF FundingInv
<1>1. /\ SameCollection(o) => Collected' = Collected
      /\ checkout'[o] = "paid" => Collected' = Collected \cup {o}
  BY DEF Collected, SameCollection, RowStays
<1>2. /\ SameDelivery(o) => Delivered' = Delivered
      /\ attempt'[o][0] = "landed" => Delivered' = Delivered \cup {o}
  BY DEF Delivered, SameDelivery, RowStays
<1>3. /\ SameRefund(o) => PaidBack' = PaidBack
      /\ refund'[o] \in Ordered => PaidBack' = PaidBack \cup {o}
  BY DEF PaidBack, SameRefund, RowStays, Ordered
<1>4. /\ SameEnd(o) => ClosedOnes' = ClosedOnes
      /\ status'[o] \in Closing => ClosedOnes' = ClosedOnes \cup {o}
  BY DEF ClosedOnes, SameEnd, RowStays, Closing
<1>5. /\ o \in Collected <=> checkout[o] = "paid"
      /\ o \in Delivered <=> attempt[o][0] = "landed"
      /\ o \in PaidBack <=> refund[o] \in Ordered
      /\ o \in ClosedOnes <=> status[o] \in Closing
  BY DEF Collected, Delivered, PaidBack, ClosedOnes, Ordered, Closing
<1>6. /\ attempt[o][0] # "none" => checkout[o] = "paid"
      /\ refund[o] \in Ordered => attempt[o][0] = "dead"
  BY <1>0 DEF RowInv
<1>7. CASE SameCollection(o) /\ SameDelivery(o) /\ SameRefund(o) /\ SameEnd(o)
  BY <1>1, <1>2, <1>3, <1>4, <1>7 DEF Promised
<1>8. CASE /\ checkout[o] # "paid" /\ checkout'[o] = "paid"
           /\ SameDelivery(o) /\ SameRefund(o) /\ SameEnd(o)
  <2>1. /\ o \notin Collected /\ Collected' = Collected \cup {o}
        /\ UNCHANGED <<Delivered, PaidBack, ClosedOnes>>
    BY <1>1, <1>2, <1>3, <1>4, <1>5, <1>8
  <2> QED
    BY <2>1 DEF Promised
<1>9. CASE /\ attempt[o][0] \notin {"none", "landed", "dead"} /\ attempt'[o][0] = "landed"
           /\ SameCollection(o) /\ SameRefund(o) /\ SameEnd(o)
  <2>1. /\ o \in Collected \ (Delivered \cup PaidBack) /\ Delivered' = Delivered \cup {o}
        /\ UNCHANGED <<Collected, PaidBack, ClosedOnes>>
    BY <1>1, <1>2, <1>3, <1>4, <1>5, <1>6, <1>9
  <2> QED
    BY <2>1 DEF Promised
<1>10. CASE /\ refund[o] \notin Ordered /\ refund'[o] \in Ordered /\ attempt[o][0] = "dead"
            /\ SameCollection(o) /\ SameDelivery(o) /\ SameEnd(o)
  <2>1. /\ o \in Collected \ (Delivered \cup PaidBack) /\ PaidBack' = PaidBack \cup {o}
        /\ UNCHANGED <<Collected, Delivered, ClosedOnes>>
    BY <1>1, <1>2, <1>3, <1>4, <1>5, <1>6, <1>10
  <2> QED
    BY <2>1 DEF Promised
<1>11. CASE /\ status[o] \notin Closing /\ status'[o] \in Closing
            /\ attempt[o][0] = "landed" \/ refund[o] \in Ordered
            /\ SameCollection(o) /\ SameDelivery(o) /\ SameRefund(o)
  <2>1. /\ o \in (Delivered \cup PaidBack) \ ClosedOnes /\ ClosedOnes' = ClosedOnes \cup {o}
        /\ UNCHANGED <<Collected, Delivered, PaidBack>>
    BY <1>1, <1>2, <1>3, <1>4, <1>5, <1>11
  <2> QED
    BY <2>1 DEF Promised
<1> QED
  BY <1>7, <1>8, <1>9, <1>10, <1>11 DEF OneStep

\* Steps that touch neither sets nor rows.
LEMMA UnchangedIsPromised ==
  ASSUME UNCHANGED <<status, attempt, checkout, refund>>
  PROVE  Promised
BY DEF Promised, Collected, Delivered, PaidBack, ClosedOnes

\* A guarded update closes a row only from the status before its last one.
LEMMA MoveIsPromised ==
  ASSUME TypeOK, FundingInv, NEW o \in Operations, NEW to, MoveOrThrow(o, to),
         to \in Closing /\ CanMove(o, to) => attempt[o][0] = "landed" \/ refund[o] \in Ordered,
         UNCHANGED <<attempt, checkout, refund>>,
         \A p \in Operations \ {o} : chainSignature'[p] = chainSignature[p]
  PROVE  Promised
<1>1. RowTypes
  BY TypeParts
<1>2. \A p \in Operations \ {o} : RowStays(p)
  BY <1>1, MovedRow DEF RowStays
<1>3. CASE CanMove(o, to)
  <2>1. status'[o] = to /\ status[o] \notin Closing
    BY <1>1, <1>3, MovedRow DEF CanMove, CanTransition, Terminal, Closing
  <2> QED
    BY <1>2, <1>3, <2>1, OneStepIsPromised
    DEF OneStep, SameCollection, SameDelivery, SameRefund, SameEnd
<1>4. CASE ~CanMove(o, to)
  <2>1. status'[o] = status[o]
    BY <1>1, <1>4, MovedRow
  <2> QED
    BY <1>2, <2>1, OneStepIsPromised
    DEF OneStep, SameCollection, SameDelivery, SameRefund, SameEnd
<1> QED
  BY <1>3, <1>4

\* Saving or sending a transaction is not a delivery.
LEMMA SendIsPromised ==
  ASSUME TypeOK, FundingInv, NEW w \in Workers, pc[w] # "idle", NEW state \in {"prepared", "broadcast"},
         Mine(w) \in {"none", "prepared"}, SetMine(w, state),
         UNCHANGED <<status, chainSignature, checkout, refund>>
  PROVE  Promised
<1>1. StepTypes /\ ChainTypes
  BY TypeParts
<1>2. PICK o \in Operations : o = op[w] /\ round[w] = 0
  BY <1>1, BusyWorker
<1>3. attempt[o][0] # "landed" /\ attempt'[o][0] = state
  BY <1>1, <1>2, OneRound DEF Mine, SetMine, ChainTypes
<1>4. \A p \in Operations \ {o} : attempt'[p] = attempt[p]
  BY <1>1, <1>2 DEF SetMine, ChainTypes
<1> QED
  BY <1>3, <1>4, OneStepIsPromised
  DEF OneStep, SameCollection, SameDelivery, SameRefund, SameEnd, RowStays

LEMMA WorldIsPromised ==
  ASSUME TypeOK, FundingInv, NEW o \in Operations,
         \/ Begin(o) \/ Ages(o) \/ LeaseEnds(o) \/ StripeDecides(o)
         \/ Customer(o) \/ Resolve(o)
  PROVE  Promised
<1>0. RowTypes /\ ChainTypes /\ StripeTypes
  BY TypeParts
<1> USE DEF SetCheckout, SetRefund, rowVars, chainVars, fundingVars, stripeVars
<1>1. CASE Begin(o)
  <2>1. \A p \in Operations \ {o} : RowStays(p)
    BY <1>0, <1>1 DEF Begin, InsertRow, RowTypes, RowStays
  <2>2. SameEnd(o) /\ SameCollection(o) /\ SameDelivery(o) /\ SameRefund(o)
    BY <1>0, <1>1 DEF Begin, InsertRow, RowTypes, SameEnd, SameCollection, SameDelivery, SameRefund, Closing
  <2> QED
    BY <2>1, <2>2, OneStepIsPromised DEF OneStep
<1>2. CASE Ages(o) \/ LeaseEnds(o) \/ Dispute(o)
  BY <1>2, UnchangedIsPromised DEF Ages, LeaseEnds, Lapse, Dispute
<1>3. CASE CustomerPays(o) \/ SessionExpires(o) \/ DebitEnds(o)
  <2>1. /\ checkout[o] # "paid" /\ UNCHANGED <<status, chainSignature, attempt, refund>>
        /\ \A p \in Operations \ {o} : checkout'[p] = checkout[p]
    BY <1>0, <1>3 DEF CustomerPays, SessionExpires, DebitEnds, StripeTypes
  <2>2. SameDelivery(o) /\ SameRefund(o) /\ SameEnd(o)
    BY <2>1 DEF SameDelivery, SameRefund, SameEnd
  <2>3. SameCollection(o) \/ checkout'[o] = "paid"
    BY <2>1 DEF SameCollection
  <2> QED
    BY <2>1, <2>2, <2>3, OneStepIsPromised DEF OneStep, RowStays
<1>4. CASE RefundEnds(o) \/ ManualRefund(o)
  <2>1. /\ UNCHANGED <<status, chainSignature, attempt, checkout>>
        /\ \A p \in Operations \ {o} : refund'[p] = refund[p]
        /\ \/ refund[o] = "pending" /\ refund'[o] \in {"succeeded", "failed"}
           \/ refund[o] = "none" /\ refund'[o] = "manual"
    BY <1>0, <1>4 DEF RefundEnds, ManualRefund, StripeTypes
  <2>2. SameCollection(o) /\ SameDelivery(o) /\ SameRefund(o) /\ SameEnd(o)
    BY <2>1 DEF SameCollection, SameDelivery, SameRefund, SameEnd, Ordered
  <2> QED
    BY <2>1, <2>2, OneStepIsPromised DEF OneStep, RowStays
<1>5. CASE Resolve(o)
  <2>1. /\ UNCHANGED <<status, chainSignature, checkout, refund>>
        /\ \A p \in Operations \ {o} : attempt'[p] = attempt[p]
    BY <1>0, <1>5 DEF Resolve, Land, Die, ChainTypes
  <2>2. SameCollection(o) /\ SameRefund(o) /\ SameEnd(o)
    BY <2>1 DEF SameCollection, SameRefund, SameEnd
  <2>3. \/ attempt[o][0] = "broadcast" /\ attempt'[o][0] = "landed"
        \/ attempt[o][0] \in {"prepared", "broadcast"} /\ attempt'[o][0] = "dead"
    BY <1>0, <1>5, OneRound DEF Resolve, Land, Die, ChainTypes
  <2> QED
    BY <2>1, <2>2, <2>3, OneStepIsPromised DEF OneStep, SameDelivery, RowStays
<1> QED
  BY <1>1, <1>2, <1>3, <1>4, <1>5 DEF StripeDecides, Customer

LEMMA ChainStepIsPromised ==
  ASSUME TypeOK, FundingInv, NEW w \in Workers, ChainStep(w) \/ DeliveryMayLand(w) \/ WorkerFault(w)
  PROVE  Promised
<1>0. RowTypes /\ StepTypes /\ LeaseTypes
  BY TypeParts
<1>1. UNCHANGED <<checkout, refund>>
  BY DEF ChainStep, DeliveryMayLand, WorkerFault, fundingVars, stripeVars
<1>2. CASE UNCHANGED <<status, attempt>>
  BY <1>1, <1>2, UnchangedIsPromised
<1>3. CASE Sign(w) \/ SignFails(w) \/ Broadcast(w) \/ RecoverPending(w) \/ DeliveryMayLand(w)
  <2>1. UNCHANGED <<status, chainSignature>> /\ pc[w] # "idle"
    BY <1>3 DEF Sign, SignFails, Broadcast, RecoverPending, DeliveryMayLand, rowVars
  <2>2. CASE ~UNCHANGED attempt
    <3>1. CASE Sign(w) \/ SignFails(w)
      <4>1. SetMine(w, "prepared") /\ Mine(w) = "none"
        BY <2>2, <3>1 DEF Sign, SignFails
      <4> QED
        BY <1>1, <2>1, <4>1, SendIsPromised
    <3>2. CASE Broadcast(w) \/ RecoverPending(w) \/ DeliveryMayLand(w)
      <4>1. SetMine(w, "broadcast") /\ Mine(w) = "prepared"
        BY <1>0, <2>1, <2>2, <3>2, BusyWorker DEF Broadcast, RecoverPending, DeliveryMayLand, Mine
      <4> QED
        BY <1>1, <2>1, <4>1, SendIsPromised
    <3> QED
      BY <1>3, <3>1, <3>2
  <2> QED
    BY <1>2, <2>1, <2>2
<1>4. CASE RecordSignature(w) \/ TransferCompleted(w)
  <2>1. PICK o \in Operations : o = op[w]
    BY <1>0, <1>4, BusyWorker DEF RecordSignature, TransferCompleted
  <2>2. UNCHANGED attempt /\ \A p \in Operations \ {o} : chainSignature'[p] = chainSignature[p]
    BY <1>0, <1>4, <2>1 DEF RecordSignature, TransferCompleted, chainVars, LeaseTypes
  <2>3. MoveOrThrow(o, "chain_submitted") \/ MoveOrThrow(o, "chain_confirmed")
    BY <1>4, <2>1 DEF RecordSignature, TransferCompleted
  <2> QED
    BY <1>1, <2>2, <2>3, MoveIsPromised DEF Closing
<1> QED
  BY <1>2, <1>3, <1>4
  DEF ChainStep, WorkerFault, LookUp, CheckSaved, Confirm, ConfirmTimesOut, CheckChain,
    RecoverSettled, Release, Abort, Crash, rowVars, chainVars

LEMMA ServiceIsPromised ==
  ASSUME TypeOK, FundingInv, NEW w \in Workers,
         \/ EnsureCheckout(w) \/ CreateCheckout(w) \/ RecordCheckout(w)
         \/ PollCollection(w) \/ ApplySession(w) \/ AdoptSession(w)
         \/ PatchIntent(w) \/ SettleCollection(w)
         \/ DeliverTokens(w) \/ DeliveryFailed(w) \/ Finalize(w) \/ MarkFinalized(w)
         \/ RefundFunding(w) \/ DeliveryIsDead(w) \/ ReadCharge(w)
         \/ FindRefund(w) \/ CreateRefund(w) \/ NoteRefund(w) \/ Refunded(w)
  PROVE  Promised
<1>0. StepTypes /\ StripeTypes /\ WorkerInv(w)
  BY TypeParts DEF FundingInv
<1>1. PICK o \in Operations : o = op[w]
  BY <1>0, BusyWorker DEF EnsureCheckout, CreateCheckout, RecordCheckout, PollCollection, ApplySession,
    AdoptSession, PatchIntent, SettleCollection, DeliverTokens, DeliveryFailed, Finalize, MarkFinalized,
    RefundFunding, DeliveryIsDead, ReadCharge, FindRefund, CreateRefund, NoteRefund, Refunded
<1>2. RowInv(o)
  BY DEF FundingInv
<1>3. CASE EnsureCheckout(w) \/ PollCollection(w) \/ ApplySession(w) \/ PatchIntent(w) \/ DeliverTokens(w)
           \/ Finalize(w) \/ RefundFunding(w) \/ DeliveryIsDead(w) \/ ReadCharge(w)
           \/ FindRefund(w) \/ NoteRefund(w)
  BY <1>3, UnchangedIsPromised
  DEF EnsureCheckout, PollCollection, ApplySession, PatchIntent, DeliverTokens, Finalize, RefundFunding,
    DeliveryIsDead, ReadCharge, FindRefund, NoteRefund, rowVars, chainVars, fundingVars, stripeVars
<1>4. CASE RecordCheckout(w) \/ AdoptSession(w) \/ SettleCollection(w) \/ DeliveryFailed(w)
           \/ MarkFinalized(w) \/ Refunded(w)
  <2>1. UNCHANGED <<chainSignature, attempt, checkout, refund>>
    BY <1>4 DEF RecordCheckout, AdoptSession, SettleCollection, DeliveryFailed, MarkFinalized, Refunded,
      chainVars, fundingVars, stripeVars
  <2>2. CASE UNCHANGED status
    BY <2>1, <2>2, UnchangedIsPromised
  <2>3. CASE \E to \in {"collection_pending", "collection_settled", "failed", "compensating"} :
               MoveOrThrow(o, to)
    BY <2>1, <2>3, MoveIsPromised DEF Closing
  <2>4. CASE MarkFinalized(w)
    <3>1. CanMove(o, "finalized") => attempt[o][0] = "landed"
      BY <1>2, FundingMoves DEF RowInv
    <3> QED
      BY <1>1, <2>1, <2>4, <3>1, MoveIsPromised DEF MarkFinalized
  <2>5. CASE Refunded(w)
    <3>1. refund[o] \in Ordered
      BY <1>0, <1>1, <2>5 DEF Refunded, WorkerInv, Ordered
    <3> QED
      BY <1>1, <2>1, <2>5, <3>1, MoveIsPromised DEF Refunded
  <2> QED
    BY <1>1, <1>4, <2>2, <2>3, <2>4, <2>5
    DEF RecordCheckout, AdoptSession, MoveToPending, SettleCollection, DeliveryFailed
<1>5. CASE CreateCheckout(w)
  <2>1. /\ UNCHANGED <<status, chainSignature, attempt, refund>>
        /\ \A p \in Operations \ {o} : checkout'[p] = checkout[p]
        /\ \/ checkout'[o] = checkout[o]
           \/ checkout[o] = "none" /\ checkout'[o] = "open"
    BY <1>0, <1>1, <1>5 DEF CreateCheckout, StripeTypes, rowVars, chainVars
  <2> QED
    BY <2>1, OneStepIsPromised
    DEF OneStep, SameCollection, SameDelivery, SameRefund, SameEnd, RowStays
<1>6. CASE CreateRefund(w)
  <2>1. UNCHANGED <<status, chainSignature, attempt, checkout>> /\ attempt[o][0] = "dead"
    BY <1>0, <1>1, <1>6 DEF CreateRefund, WorkerInv, RefundSteps, rowVars, chainVars
  <2>2. /\ \A p \in Operations \ {o} : refund'[p] = refund[p]
        /\ \/ refund'[o] = refund[o]
           \/ refund[o] = "none" /\ refund'[o] \in Ordered
    BY <1>0, <1>1, <1>6 DEF CreateRefund, StripeTypes, Ordered
  <2>3. refund[o] = "none" => refund[o] \notin Ordered
    BY DEF Ordered
  <2> QED
    BY <2>1, <2>2, <2>3, OneStepIsPromised
    DEF OneStep, SameCollection, SameDelivery, SameRefund, SameEnd, RowStays
<1> QED
  BY <1>3, <1>4, <1>5, <1>6

LEMMA PromiseStep ==
  ASSUME TypeOK, FundingInv, [Next]_vars
  PROVE  Promised
<1> USE DEF rowVars, chainVars, fundingVars, stripeVars
<1>1. CASE UNCHANGED vars
  BY <1>1, UnchangedIsPromised DEF vars
<1>2. ASSUME NEW w \in Workers, NEW o \in Operations,
             ClaimRow(w, o) \/ RequestCheckout(w, o) \/ CheckoutWebhook(w, o)
      PROVE  Promised
  BY <1>2, UnchangedIsPromised DEF ClaimRow, Claim, RequestCheckout, CheckoutWebhook
<1>3. ASSUME NEW w \in Workers, HandlerStep(w) \/ WorkerFault(w) \/ RenewsLease(w)
      PROVE  Promised
  <2>1. CASE RenewsLease(w)
    BY <2>1, UnchangedIsPromised DEF RenewsLease, Heartbeat
  <2> QED
    BY <1>3, <2>1, ChainStepIsPromised, ServiceIsPromised DEF HandlerStep
<1>4. CASE Next
  BY <1>2, <1>3, <1>4, FundingAssumption, WorldIsPromised DEF Next
<1> QED
  BY <1>1, <1>4

\* Money that was collected is delivered or refunded and not both, and closed
\* only after one of the two: every run of the fundings is one of CollectedMoney,
\* even when workers overlap.
THEOREM DeliversOrRefunds == Spec => FulfilsPromise
<1>1. Init => Debt!Init
  BY OneRound DEF Init, RowsInit, ChainInit, Debt!Init
<1>2. TypeOK /\ FundingInv /\ [Next]_vars => [Debt!Next]_(Debt!vars)
  BY PromiseStep
  DEF Promised, Debt!Next, Debt!vars, Debt!Collect, Debt!Deliver, Debt!Refund, Debt!Close,
    Collected, Delivered, PaidBack, ClosedOnes
<1> QED
  BY <1>1, <1>2, Inductive, PTL DEF Spec, FulfilsPromise, Debt!Spec

-------------------------------------------------------------------------------
(* Chain and books agree                                                   *)

\* Amounts of operations can be added.
LEMMA Amounts ==
  ASSUME NEW S \in SUBSET Operations
  PROVE  /\ IsFiniteSet(S)
         /\ \A o \in S : Amount[o] \in Int
         /\ SumFunctionOnSet(Amount, S) \in Int
<1>1. IsFiniteSet(S)
  BY OperationsAssumption, FS_Subset
<1>2. \A o \in S : Amount[o] \in Int
  BY AmountAssumption
<1> QED
  BY <1>1, <1>2, SumIsInt

\* One operation more, and one less.
LEMMA AmountsWith ==
  ASSUME NEW S \in SUBSET Operations, NEW o \in Operations \ S
  PROVE  SumFunctionOnSet(Amount, S \cup {o}) = SumFunctionOnSet(Amount, S) + Amount[o]
<1>1. /\ IsFiniteSet(S) /\ \A x \in S : Amount[x] \in Int
      /\ SumFunctionOnSet(Amount, S) \in Int /\ Amount[o] \in Int
  BY Amounts, AmountAssumption
<1>2. SumFunctionOnSet(Amount, S \cup {o}) = Amount[o] + SumFunctionOnSet(Amount, S)
  BY <1>1, SumWith
<1> QED
  BY <1>1, <1>2

LEMMA AmountsWithout ==
  ASSUME NEW S \in SUBSET Operations, NEW o \in S
  PROVE  SumFunctionOnSet(Amount, S \ {o}) = SumFunctionOnSet(Amount, S) - Amount[o]
<1>1. o \in Operations \ (S \ {o}) /\ (S \ {o}) \cup {o} = S
  OBVIOUS
<1>2. SumFunctionOnSet(Amount, S) = SumFunctionOnSet(Amount, S \ {o}) + Amount[o]
  BY <1>1, AmountsWith, S \ {o} \in SUBSET Operations
<1>3. SumFunctionOnSet(Amount, S \ {o}) \in Int /\ Amount[o] \in Int
  BY Amounts, AmountAssumption, S \ {o} \in SUBSET Operations
<1> QED
  BY <1>2, <1>3


\* Only a delivery that landed is booked.
LedgerInv == \A o \in ledger : attempt[o][0] = "landed"

Unrecorded  == Delivered \ ledger
Arriving(x) == {o \in Unrecorded : Destination[o] = x}

\* Tokens arrive, or their arrival is booked.
TokensArrive(o) ==
  /\ o \notin Unrecorded /\ Unrecorded' = Unrecorded \cup {o}
  /\ tokens' = Shift(tokens, Destination[o], Amount[o])
  /\ UNCHANGED balanceVars

IsBooked(o) ==
  /\ o \in Unrecorded /\ Unrecorded' = Unrecorded \ {o}
  /\ available' = Shift(available, Destination[o], Amount[o])
  /\ UNCHANGED <<tokens, pending>>

BooksStep ==
  \/ UNCHANGED <<Unrecorded, tokens, balanceVars>>
  \/ \E o \in Operations : TokensArrive(o) \/ IsBooked(o)

\* What is saved or sent has not been delivered yet.
LEMMA SendKeepsDelivered ==
  ASSUME TypeOK, NEW w \in Workers, pc[w] # "idle", NEW state \in {"prepared", "broadcast"},
         Mine(w) \in {"none", "prepared"}, SetMine(w, state)
  PROVE  Delivered' = Delivered
<1>1. StepTypes /\ ChainTypes
  BY TypeParts
<1>2. PICK o \in Operations : o = op[w] /\ round[w] = 0
  BY <1>1, BusyWorker
<1>3. attempt[o][0] # "landed" /\ attempt'[o][0] # "landed"
  BY <1>1, <1>2, OneRound DEF Mine, SetMine, ChainTypes
<1>4. \A p \in Operations \ {o} : attempt'[p] = attempt[p]
  BY <1>1, <1>2 DEF SetMine, ChainTypes
<1> QED
  BY <1>3, <1>4 DEF Delivered

LEMMA RecordBooks ==
  ASSUME TypeOK, FundingInv, NEW o \in Operations, status[o] = "chain_confirmed",
         RecordOnce(o), UNCHANGED <<attempt, tokens>>
  PROVE  /\ UNCHANGED <<Unrecorded, tokens, balanceVars>> \/ IsBooked(o)
         /\ ledger' \subseteq ledger \cup Delivered
<1>0. /\ BookTypes /\ Source[o] = Treasury /\ Destination[o] # Treasury
      /\ o \in Delivered /\ Delivered' = Delivered
  BY TypeParts, FundingKind DEF FundingInv, RowInv, Delivered
<1>1. CASE UNCHANGED <<ledger, balanceVars>>
  BY <1>0, <1>1 DEF Unrecorded
<1>2. CASE ~UNCHANGED <<ledger, balanceVars>>
  <2>1. /\ o \notin ledger /\ ledger' = ledger \cup {o} /\ pending' = pending
        /\ available' = Shift(available, Destination[o], Amount[o])
    BY <1>0, <1>2 DEF RecordOnce
  <2> HIDE DEF Delivered
  <2> QED
    BY <1>0, <2>1 DEF IsBooked, Unrecorded
<1> QED
  BY <1>1, <1>2

LEMMA LandMovesTokens ==
  ASSUME TypeOK, LedgerInv, NEW o \in Operations, Land(o, 0)
  PROVE  TokensArrive(o) /\ ledger' = ledger /\ Delivered' = Delivered \cup {o}
<1>0. /\ ChainTypes /\ Sender(o, 0) = Treasury /\ Receiver(o, 0) = Destination[o]
      /\ Treasury \notin Wallets
  BY TypeParts, FundingKind DEF Sender, Receiver
<1>1. /\ attempt[o][0] = "broadcast" /\ attempt'[o][0] = "landed" /\ ledger' = ledger
      /\ UNCHANGED balanceVars
  BY <1>0, OneRound DEF Land, ChainTypes
<1>2. \A p \in Operations \ {o} : attempt'[p] = attempt[p]
  BY <1>0 DEF Land, ChainTypes
<1>3. o \notin ledger /\ o \notin Delivered /\ Delivered' = Delivered \cup {o}
  BY <1>1, <1>2 DEF LedgerInv, Delivered
<1>4. tokens' = Shift(tokens, Destination[o], Amount[o])
  BY <1>0 DEF Land, Shift, ChainTypes
<1> HIDE DEF Delivered
<1> QED
  BY <1>1, <1>3, <1>4 DEF TokensArrive, Unrecorded

LEMMA EveryBooksStep ==
  ASSUME TypeOK, FundingInv, LedgerInv, [Next]_vars
  PROVE  BooksStep /\ ledger' \subseteq ledger \cup Delivered /\ Delivered \subseteq Delivered'
<1> USE DEF balanceVars, chainVars
<1> DEFINE Goal == /\ BooksStep /\ ledger' \subseteq ledger \cup Delivered
                   /\ Delivered \subseteq Delivered'
<1>0. StepTypes /\ ChainTypes
  BY TypeParts
<1>1. ASSUME UNCHANGED <<balanceVars, ledger, tokens>>, Delivered' = Delivered PROVE Goal
  BY <1>1 DEF BooksStep, Unrecorded
<1>2. ASSUME UNCHANGED <<balanceVars, ledger, chainVars>> PROVE Goal
  BY <1>1, <1>2 DEF Delivered
<1> HIDE DEF Goal
<1>3. ASSUME NEW w \in Workers, HandlerStep(w) \/ WorkerFault(w) PROVE Goal
  <2>1. CASE Sign(w) \/ SignFails(w) \/ Broadcast(w) \/ RecoverPending(w) \/ DeliveryMayLand(w)
    <3>1. UNCHANGED <<balanceVars, ledger, tokens>> /\ pc[w] # "idle"
      BY <2>1 DEF Sign, SignFails, Broadcast, RecoverPending, DeliveryMayLand
    <3>2. CASE UNCHANGED attempt
      BY <1>2, <3>1, <3>2
    <3>3. CASE ~UNCHANGED attempt
      <4>1. \/ SetMine(w, "prepared") /\ Mine(w) = "none"
            \/ SetMine(w, "broadcast") /\ Mine(w) = "prepared"
        BY <1>0, <2>1, <3>1, <3>3, BusyWorker
        DEF Sign, SignFails, Broadcast, RecoverPending, DeliveryMayLand, Mine
      <4>2. Delivered' = Delivered
        BY <3>1, <4>1, SendKeepsDelivered
      <4> QED
        BY <1>1, <3>1, <4>2
    <3> QED
      BY <3>2, <3>3
  <2>2. CASE Finalize(w)
    <3>1. CASE status[op[w]] = "chain_confirmed"
      <4>1. op[w] \in Operations /\ RecordOnce(op[w]) /\ UNCHANGED <<attempt, tokens>>
        BY <1>0, <2>2, <3>1, BusyWorker DEF Finalize
      <4>2. Delivered' = Delivered
        BY <4>1 DEF Delivered
      <4> QED
        BY <3>1, <4>1, <4>2, RecordBooks DEF BooksStep, Goal
    <3>2. CASE status[op[w]] # "chain_confirmed"
      BY <1>2, <2>2, <3>2 DEF Finalize
    <3> QED
      BY <3>1, <3>2
  <2>3. CASE UNCHANGED <<balanceVars, ledger, chainVars>>
    BY <1>2, <2>3
  <2>4. CASE ChainStep(w) \/ WorkerFault(w)
    BY <2>1, <2>3, <2>4
    DEF ChainStep, WorkerFault, LookUp, CheckSaved, RecordSignature, Confirm, ConfirmTimesOut,
      CheckChain, RecoverSettled, TransferCompleted, Release, Abort, Crash
  <2> QED
    BY <1>3, <2>1, <2>2, <2>3, <2>4
    DEF HandlerStep, EnsureCheckout, CreateCheckout, RecordCheckout, PollCollection,
      ApplySession, AdoptSession, PatchIntent, SettleCollection, DeliverTokens, DeliveryFailed,
      MarkFinalized, RefundFunding, DeliveryIsDead, ReadCharge, FindRefund, CreateRefund,
      NoteRefund, Refunded
<1>4. ASSUME NEW o \in Operations, Resolve(o) PROVE Goal
  <2>1. CASE Land(o, 0)
    BY <2>1, LandMovesTokens DEF BooksStep, Goal
  <2>2. CASE Die(o, 0)
    <3>1. attempt[o][0] # "landed" /\ attempt'[o][0] # "landed"
      BY <1>0, <2>2, OneRound DEF Die, ChainTypes
    <3>2. \A p \in Operations \ {o} : attempt'[p] = attempt[p]
      BY <1>0, <2>2 DEF Die, ChainTypes
    <3>3. Delivered' = Delivered
      BY <3>1, <3>2 DEF Delivered
    <3> QED
      BY <1>1, <2>2, <3>3 DEF Die
  <2> QED
    BY <1>4, <2>1, <2>2 DEF Resolve
<1>5. ASSUME UNCHANGED vars PROVE Goal
  BY <1>2, <1>5 DEF vars
<1>6. ASSUME Next PROVE Goal
  BY <1>2, <1>3, <1>4, <1>6
  DEF Next, Begin, Ages, LeaseEnds, Lapse, StripeDecides, DebitEnds, RefundEnds, Customer,
    CustomerPays, SessionExpires, Dispute, ManualRefund, SetCheckout, SetRefund, ClaimRow,
    Claim, RequestCheckout, CheckoutWebhook, RenewsLease, Heartbeat
<1> QED
  BY <1>5, <1>6 DEF Goal

LEMMA LedgerStep ==
  ASSUME TypeOK, TypeOK', FundingInv, LedgerInv, [Next]_vars
  PROVE  LedgerInv'
<1>1. ledger \subseteq Delivered /\ ledger' \subseteq ledger \cup Delivered
      /\ Delivered \subseteq Delivered'
  BY EveryBooksStep, TypeParts DEF LedgerInv, Delivered, BookTypes
<1>2. Delivered' = {o \in Operations : attempt'[o][0] = "landed"}
  BY DEF Delivered
<1> HIDE DEF Delivered
<1> QED
  BY <1>1, <1>2 DEF LedgerInv

Agrees(x) == tokens[x] = available[x] + pending[x] + SumFunctionOnSet(Amount, Arriving(x))

\* A wallet's part of the agreement: the sum gains or loses the term that moves.
LEMMA AgreementStep ==
  ASSUME TypeOK, BooksStep, NEW x \in Wallets, Agrees(x)
  PROVE  Agrees(x)'
<1> DEFINE In == SumFunctionOnSet(Amount, Arriving(x))
<1>0. /\ available \in [Wallets -> Nat] /\ pending \in [Wallets -> Nat]
      /\ tokens \in [Wallets -> Nat] /\ Arriving(x) \in SUBSET Operations
  BY DEF TypeOK, RowsTypeOK, ChainTypeOK, Arriving, Unrecorded, Delivered
<1>1. In \in Int
  BY <1>0, Amounts
<1>2. tokens[x] = available[x] + pending[x] + In
  BY DEF Agrees
<1> SUFFICES tokens'[x] = available'[x] + pending'[x] + In'
  BY DEF Agrees
<1>3. CASE UNCHANGED <<Unrecorded, tokens, balanceVars>>
  <2>1. Arriving(x)' = Arriving(x)
    BY <1>3 DEF Arriving
  <2>2. In' = In
    BY <2>1
  <2> HIDE DEF In
  <2> QED
    BY <1>2, <1>3, <2>2 DEF balanceVars
<1>4. ASSUME NEW o \in Operations, TokensArrive(o)
      PROVE  tokens'[x] = available'[x] + pending'[x] + In'
  <2>0. Amount[o] \in Nat
    BY FundingKind
  <2>1. /\ Arriving(x)' = IF Destination[o] = x THEN Arriving(x) \cup {o} ELSE Arriving(x)
        /\ o \notin Arriving(x)
    BY <1>4 DEF TokensArrive, Arriving
  <2>2. In' = IF Destination[o] = x THEN In + Amount[o] ELSE In
    BY <1>0, <2>1, AmountsWith
  <2>3. tokens'[x] = IF Destination[o] = x THEN tokens[x] + Amount[o] ELSE tokens[x]
    BY <1>0, <1>4 DEF TokensArrive, Shift
  <2>4. available'[x] = available[x] /\ pending'[x] = pending[x]
    BY <1>4 DEF TokensArrive, balanceVars
  <2> HIDE DEF In
  <2> QED
    BY <1>0, <1>1, <1>2, <2>0, <2>2, <2>3, <2>4
<1>5. ASSUME NEW o \in Operations, IsBooked(o)
      PROVE  tokens'[x] = available'[x] + pending'[x] + In'
  <2>0. Amount[o] \in Nat
    BY FundingKind
  <2>1. /\ Arriving(x)' = IF Destination[o] = x THEN Arriving(x) \ {o} ELSE Arriving(x)
        /\ Destination[o] = x => o \in Arriving(x)
    BY <1>5 DEF IsBooked, Arriving
  <2>2. In' = IF Destination[o] = x THEN In - Amount[o] ELSE In
    BY <1>0, <2>1, AmountsWithout
  <2>3. available'[x] = IF Destination[o] = x THEN available[x] + Amount[o] ELSE available[x]
    BY <1>0, <1>5 DEF IsBooked, Shift
  <2>4. tokens'[x] = tokens[x] /\ pending'[x] = pending[x]
    BY <1>5 DEF IsBooked
  <2> HIDE DEF In
  <2> QED
    BY <1>0, <1>1, <1>2, <2>0, <2>2, <2>3, <2>4
<1> QED
  BY <1>3, <1>4, <1>5 DEF BooksStep

LEMMA AgreementUnfolds == BooksMatchChain <=> \A x \in Wallets : Agrees(x)
<1>1. \A x \in Wallets : Arriving(x) = {o \in Operations \ ledger :
                           Destination[o] = x /\ attempt[o][0] = "landed"}
  BY DEF Arriving, Unrecorded, Delivered
<1> QED
  BY <1>1 DEF BooksMatchChain, Agrees

LEMMA AgreementInit == Init => BooksMatchChain /\ LedgerInv
<1> SUFFICES ASSUME Init PROVE BooksMatchChain /\ LedgerInv
  OBVIOUS
<1>1. LedgerInv
  BY DEF Init, RowsInit, LedgerInv
<1>2. ASSUME NEW x \in Wallets PROVE Agrees(x)
  <2>1. Arriving(x) = {}
    BY OneRound DEF Init, ChainInit, Arriving, Unrecorded, Delivered
  <2>2. tokens[x] = Opening[x] /\ available[x] = Opening[x] /\ pending[x] = 0
    BY DEF Init, RowsInit, ChainInit
  <2> QED
    BY <2>1, <2>2, SumOfNone, OpeningAssumption DEF Agrees
<1> QED
  BY <1>1, <1>2, AgreementUnfolds

\* What a wallet holds on chain is what its books say, up to the deliveries that
\* have landed and are not booked yet, at every moment and even when workers
\* and webhooks overlap.
THEOREM BooksFollowChain == Spec => []BooksMatchChain
<1>1. ASSUME TypeOK, TypeOK', FundingInv, LedgerInv, BooksMatchChain, [Next]_vars
      PROVE  BooksMatchChain' /\ LedgerInv'
  <2>1. \A x \in Wallets : Agrees(x)'
    BY <1>1, EveryBooksStep, AgreementUnfolds, AgreementStep
  <2>2. \A x \in Wallets : Arriving(x)' = {o \in Operations \ ledger' :
                             Destination[o] = x /\ attempt'[o][0] = "landed"}
    BY DEF Arriving, Unrecorded, Delivered
  <2>3. BooksMatchChain'
    BY <2>1, <2>2 DEF BooksMatchChain, Agrees
  <2> QED
    BY <1>1, <2>3, LedgerStep
<1>2. TypeOK /\ TypeOK' /\ FundingInv /\ LedgerInv /\ BooksMatchChain /\ [Next]_vars
        => BooksMatchChain' /\ LedgerInv'
  BY <1>1
<1> QED
  BY <1>2, AgreementInit, Inductive, PTL DEF Spec

===============================================================================
