------------------------ MODULE MerchantPayment_proofs ------------------------
(***************************************************************************)
(* What is proved about MerchantPayment, for every set of requests, keys,  *)
(* callers and crashes.  However long processes stall and however many     *)
(* recovery passes overlap: its types, that one key pays a merchant's      *)
(* request, that the ledger records only what has landed, and that the     *)
(* balances follow the ledger (IInv).  With one recovery pass at a time    *)
(* and nobody asleep for minutes: that a failed payment has moved nothing, *)
(* that what is pending and what is in stock adds up, and that an answered *)
(* request stays so (PaymentInv).                                          *)
(***************************************************************************)
EXTENDS MerchantPayment, Sums_proofs, TLAPS

\* The steps of a call between its claim and its end.
Working == {"look_up", "attach", "recover", "sign", "unsaved", "prepared", "broadcast",
            "submitted", "confirm", "completed", "failed"}

\* A call that goes on after the claim of a merchant's request is the one that
\* claimed it, and one that records has seen its transaction land.
CallInv ==
  \A c \in Callers :
    /\ pc[c] # "idle" => call[c] \in Keys
    /\ pc[c] \in Working /\ Merchant(Pays(c)) => attemptKey[Pays(c)] = call[c]
    /\ pc[c] = "completed" => chain[call[c]] = "landed"
    /\ pc[c] = "check_balance" => ~Merchant(Pays(c))

\* A recoverer works on requests that were claimed, and settles what landed.
RowInv ==
  \A q \in Recoverers :
    /\ \A r \in todo[q] : attemptKey[r] \in Keys
    /\ rpc[q] \in {"attach", "finalize", "mark_failed"} =>
         row[q] \in Requests /\ attemptKey[row[q]] \in Keys
    /\ rpc[q] = "finalize" => chain[attemptKey[row[q]]] = "landed"

ClaimInv == \A r \in Requests : attempt[r] # "none" => attemptKey[r] \in Keys

KeyInv == \A r \in Requests : attemptKey[r] \in Keys => RequestOf[attemptKey[r]] = r

IInv ==
  /\ TypeOK /\ CallInv /\ RowInv /\ ClaimInv /\ KeyInv
  /\ OnePaymentPerRequest /\ RecordedOnlyAfterLanding

-------------------------------------------------------------------------------
(* The tables the transactions write                                       *)

AttemptStatuses == {"none", "failed", "finalized"} \cup Unfinished

MoneyTypeOK ==
  /\ request \in [Requests -> RequestStatuses]
  /\ onHand \in [Products -> Nat] /\ reserved \in [Products -> Nat]
  /\ attempt \in [Requests -> AttemptStatuses]
  /\ ledger \subseteq Keys
  /\ available \in [Wallets -> Nat] /\ pending \in [Wallets -> Nat]

LEMMA ConstantTypes ==
  ASSUME NEW k \in Keys
  PROVE  /\ RequestOf[k] \in Requests /\ Payer[k] \in Wallets
         /\ Payee[RequestOf[k]] \in Wallets
         /\ Amount[RequestOf[k]] \in Nat
         /\ Payer[k] # Payee[RequestOf[k]]
BY PaymentAssumption

LEMMA MoneyType == TypeOK => MoneyTypeOK
BY DEF TypeOK, RequestsTypeOK, MoneyTypeOK, AttemptStatuses

LEMMA ShiftType ==
  ASSUME NEW f \in [Wallets -> Nat], NEW x \in Wallets, NEW n \in Int, f[x] + n >= 0
  PROVE  Shift(f, x, n) \in [Wallets -> Nat]
BY DEF Shift

\* Moving an amount that is there from one wallet to another.
LEMMA TransferType ==
  ASSUME NEW f \in [Wallets -> Nat], NEW x \in Wallets, NEW y \in Wallets,
         NEW n \in Nat, f[x] >= n
  PROVE  Shift(Shift(f, x, -n), y, n) \in [Wallets -> Nat]
<1>1. Shift(f, x, -n) \in [Wallets -> Nat]
  BY ShiftType
<1>2. Shift(f, x, -n)[y] + n >= 0
  BY <1>1
<1>3. QED
  BY <1>1, <1>2, ShiftType

LEMMA ReleaseType ==
  ASSUME NEW r \in Requests, MoneyTypeOK, CanReleaseStock(r), ReleaseReservedInventory(r)
  PROVE  onHand' \in [Products -> Nat] /\ reserved' \in [Products -> Nat]
<1>1. \A p \in Products : reserved[p] \in Nat /\ Lines[r][p] \in Nat /\ reserved[p] >= Lines[r][p]
  BY RequestsAssumption DEF MoneyTypeOK, CanReleaseStock
<1>2. QED
  BY <1>1 DEF MoneyTypeOK, ReleaseReservedInventory, Minus, stockVars

LEMMA SettleType ==
  ASSUME NEW r \in Requests, MoneyTypeOK, CanSettleStock(r), SettleReservedInventory(r)
  PROVE  onHand' \in [Products -> Nat] /\ reserved' \in [Products -> Nat]
<1>1. \A p \in Products :
        /\ reserved[p] \in Nat /\ onHand[p] \in Nat /\ Lines[r][p] \in Nat
        /\ reserved[p] >= Lines[r][p] /\ onHand[p] >= Lines[r][p]
  BY RequestsAssumption DEF MoneyTypeOK, CanReleaseStock, CanSettleStock
<1>2. QED
  BY <1>1 DEF SettleReservedInventory, Minus

LEMMA SetRequestType ==
  ASSUME NEW r \in Requests, NEW s \in RequestStatuses, MoneyTypeOK, SetRequest(r, s)
  PROVE  request' \in [Requests -> RequestStatuses]
BY DEF MoneyTypeOK, SetRequest

LEMMA FinalizeMerchantType ==
  ASSUME NEW k \in Keys, MoneyTypeOK, FinalizeMerchantPayment(k)
  PROVE  MoneyTypeOK'
<1> DEFINE r == RequestOf[k]
<1>1. CASE Records(k)
  <2>1. /\ r \in Requests /\ Amount[r] \in Nat
        /\ pending[Payer[k]] >= Amount[r] /\ CanSettleStock(r)
    BY <1>1, ConstantTypes DEF Records
  <2>2. pending' \in [Wallets -> Nat]
    <3>1. pending[Payer[k]] + (-Amount[r]) >= 0
      BY <2>1, ConstantTypes DEF MoneyTypeOK
    <3>2. QED
      BY <1>1, <2>1, <3>1, ConstantTypes, ShiftType DEF MoneyTypeOK, FinalizeMerchantPayment
  <2>3. available' \in [Wallets -> Nat]
    <3>1. available[Payee[r]] + Amount[r] >= 0
      BY <2>1, ConstantTypes DEF MoneyTypeOK
    <3>2. QED
      BY <1>1, <2>1, <3>1, ConstantTypes, ShiftType DEF MoneyTypeOK, FinalizeMerchantPayment
  <2>4. onHand' \in [Products -> Nat] /\ reserved' \in [Products -> Nat]
    BY <1>1, <2>1, SettleType DEF FinalizeMerchantPayment
  <2>5. request' \in [Requests -> RequestStatuses]
    BY <1>1, <2>1, SetRequestType DEF FinalizeMerchantPayment, RequestStatuses
  <2>6. attempt' \in [Requests -> AttemptStatuses] /\ ledger' \subseteq Keys
    BY <1>1, <2>1 DEF FinalizeMerchantPayment, MoneyTypeOK, AttemptStatuses
  <2>7. QED
    BY <2>2, <2>3, <2>4, <2>5, <2>6 DEF MoneyTypeOK
<1>2. CASE ~Records(k)
  BY <1>2 DEF FinalizeMerchantPayment, MoneyTypeOK, stockVars
<1>3. QED
  BY <1>1, <1>2

LEMMA FinalizeConsumerType ==
  ASSUME NEW k \in Keys, MoneyTypeOK, FinalizeConsumerPayment(k)
  PROVE  MoneyTypeOK'
<1> DEFINE r == RequestOf[k]
<1>1. r \in Requests /\ Amount[r] \in Nat
  BY ConstantTypes
<1>2. /\ onHand' \in [Products -> Nat] /\ reserved' \in [Products -> Nat]
      /\ attempt' \in [Requests -> AttemptStatuses] /\ pending' \in [Wallets -> Nat]
  BY DEF FinalizeConsumerPayment, MoneyTypeOK, stockVars
<1>3. CASE CanMoveBalances(k)
  <2>1. available' \in [Wallets -> Nat]
    <3>1. available' = Shift(Shift(available, Payer[k], -Amount[r]), Payee[r], Amount[r])
      BY <1>3 DEF FinalizeConsumerPayment
    <3>2. available[Payer[k]] >= Amount[r] /\ available \in [Wallets -> Nat]
      BY <1>3 DEF CanMoveBalances, MoneyTypeOK
    <3>3. QED
      BY <1>1, <3>1, <3>2, ConstantTypes, TransferType
  <2>2. ledger' \subseteq Keys
    BY <1>3 DEF FinalizeConsumerPayment, MoneyTypeOK
  <2>3. request' \in [Requests -> RequestStatuses]
    BY <1>1, <1>3, SetRequestType DEF FinalizeConsumerPayment, RequestStatuses, MoneyTypeOK
  <2>4. QED
    BY <1>2, <2>1, <2>2, <2>3 DEF MoneyTypeOK
<1>4. CASE ~CanMoveBalances(k)
  BY <1>2, <1>4 DEF FinalizeConsumerPayment, MoneyTypeOK
<1>5. QED
  BY <1>3, <1>4

LEMMA MarkFailedType ==
  ASSUME NEW r \in Requests, MoneyTypeOK, ClaimInv, MarkMerchantPaymentFailed(r)
  PROVE  MoneyTypeOK'
<1>1. CASE CanFail(r)
  <2>1. attemptKey[r] \in Keys /\ Payer[attemptKey[r]] \in Wallets /\ Amount[r] \in Nat
    BY <1>1, PaymentAssumption DEF CanFail, ClaimInv, Unfinished
  <2>2. pending[Payer[attemptKey[r]]] >= Amount[r] /\ CanReleaseStock(r)
    BY <1>1 DEF CanFail
  <2>3. pending' \in [Wallets -> Nat]
    <3>1. pending[Payer[attemptKey[r]]] + (-Amount[r]) >= 0
      BY <2>1, <2>2 DEF MoneyTypeOK
    <3>2. QED
      BY <1>1, <2>1, <3>1, ShiftType DEF MoneyTypeOK, MarkMerchantPaymentFailed
  <2>4. available' \in [Wallets -> Nat]
    <3>1. available[Payer[attemptKey[r]]] + Amount[r] >= 0
      BY <2>1 DEF MoneyTypeOK
    <3>2. QED
      BY <1>1, <2>1, <3>1, ShiftType DEF MoneyTypeOK, MarkMerchantPaymentFailed
  <2>5. onHand' \in [Products -> Nat] /\ reserved' \in [Products -> Nat]
    BY <1>1, <2>2, ReleaseType DEF MarkMerchantPaymentFailed
  <2>6. request' \in [Requests -> RequestStatuses]
    BY <1>1, SetRequestType DEF MarkMerchantPaymentFailed, RequestStatuses
  <2>7. attempt' \in [Requests -> AttemptStatuses] /\ ledger' \subseteq Keys
    BY <1>1 DEF MarkMerchantPaymentFailed, MoneyTypeOK, AttemptStatuses
  <2>8. QED
    BY <2>3, <2>4, <2>5, <2>6, <2>7 DEF MoneyTypeOK
<1>2. CASE ~CanFail(r)
  BY <1>2 DEF MarkMerchantPaymentFailed, MoneyTypeOK, stockVars
<1>3. QED
  BY <1>1, <1>2

\* What the three transactions leave of the claims and of the ledger.
LEMMA FinalizeMerchantClaims ==
  ASSUME NEW k \in Keys, TypeOK, ClaimInv, attemptKey[RequestOf[k]] \in Keys,
         FinalizeMerchantPayment(k), attemptKey' = attemptKey
  PROVE  ClaimInv' /\ ledger' \subseteq ledger \cup {k}
BY DEF FinalizeMerchantPayment, ClaimInv, TypeOK

LEMMA FinalizeConsumerClaims ==
  ASSUME NEW k \in Keys, TypeOK, ClaimInv, FinalizeConsumerPayment(k), attemptKey' = attemptKey
  PROVE  ClaimInv' /\ ledger' \subseteq ledger \cup {k}
BY DEF FinalizeConsumerPayment, ClaimInv, TypeOK

LEMMA MarkFailedClaims ==
  ASSUME NEW r \in Requests, TypeOK, ClaimInv, MarkMerchantPaymentFailed(r),
         attemptKey' = attemptKey
  PROVE  ClaimInv' /\ ledger' = ledger
BY DEF MarkMerchantPaymentFailed, CanFail, ClaimInv, TypeOK, Unfinished

-------------------------------------------------------------------------------
(* Requests and shop                                                       *)

LEMMA WithdrawType ==
  ASSUME NEW r \in Requests, NEW s \in RequestStatuses, RequestsTypeOK, Withdraw(r, s)
  PROVE  RequestsTypeOK'
<1>1. \A p \in Products : reserved[p] \in Nat /\ Lines[r][p] \in Nat /\ reserved[p] >= Lines[r][p]
  BY RequestsAssumption DEF RequestsTypeOK, Withdraw, CanReleaseStock
<1>2. onHand' \in [Products -> Nat] /\ reserved' \in [Products -> Nat]
  BY <1>1 DEF RequestsTypeOK, Withdraw, ReleaseReservedInventory, Minus
<1>3. QED
  BY <1>2 DEF RequestsTypeOK, Withdraw, SetRequest, shopVars

LEMMA RequestStepType ==
  ASSUME NEW r \in Requests, RequestsTypeOK, RequestStep(r)
  PROVE  RequestsTypeOK'
<1>1. CASE Issue(r)
  <2>1. \A p \in Products : reserved[p] \in Nat /\ Lines[r][p] \in Nat
    BY RequestsAssumption DEF RequestsTypeOK
  <2>2. reserved' \in [Products -> Nat]
    BY <1>1, <2>1 DEF Issue, Plus
  <2>3. QED
    BY <1>1, <2>2 DEF RequestsTypeOK, Issue, SetRequest, RequestStatuses, shopVars
<1>2. CASE ExpiryPasses(r)
  BY <1>2 DEF RequestsTypeOK, ExpiryPasses, stockVars, shopVars
<1>3. CASE Cancel(r)
  BY <1>3, WithdrawType DEF Cancel, RequestStatuses
<1>4. CASE ExpireStale(r)
  BY <1>4, WithdrawType DEF ExpireStale, RequestStatuses
<1>5. QED
  BY <1>1, <1>2, <1>3, <1>4 DEF RequestStep

LEMMA ExpireResolvedType ==
  ASSUME NEW r \in Requests, RequestsTypeOK, ExpireResolved(r)
  PROVE  RequestsTypeOK'
<1>1. CASE Kind[r] = "invoice" /\ request[r] = "pending"
  BY <1>1, WithdrawType DEF ExpireResolved, RequestStatuses
<1>2. CASE Kind[r] = "invoice" /\ request[r] # "pending"
  BY <1>2 DEF ExpireResolved, RequestsTypeOK, requestVars, stockVars, shopVars
<1>3. CASE Kind[r] # "invoice"
  BY <1>3 DEF ExpireResolved, RequestsTypeOK, SetRequest, RequestStatuses, stockVars, shopVars
<1>4. QED
  BY <1>1, <1>2, <1>3

LEMMA ShopStepType ==
  ASSUME RequestsTypeOK, ShopStep
  PROVE  RequestsTypeOK'
<1>1. ASSUME NEW a \in Adjustments, AdjustStock(a)
      PROVE  RequestsTypeOK'
  <2>1. \A p \in Products :
          /\ onHand[p] \in Nat /\ reserved[p] \in Nat /\ Change[a][p] \in Int
          /\ onHand[p] + Change[a][p] >= reserved[p]
    BY <1>1, RequestsAssumption DEF RequestsTypeOK, AdjustStock
  <2>2. onHand' \in [Products -> Nat]
    BY <1>1, <2>1 DEF AdjustStock, Plus
  <2>3. QED
    BY <1>1, <2>2 DEF RequestsTypeOK, AdjustStock, requestVars
<1>2. ASSUME NEW s \in Sales, CashSale(s)
      PROVE  RequestsTypeOK'
  <2>1. \A p \in Products :
          /\ onHand[p] \in Nat /\ reserved[p] \in Nat /\ SaleLines[s][p] \in Nat
          /\ onHand[p] - reserved[p] >= SaleLines[s][p]
    BY <1>2, RequestsAssumption DEF RequestsTypeOK, CashSale, Available
  <2>2. onHand' \in [Products -> Nat]
    BY <1>2, <2>1 DEF CashSale, Minus
  <2>3. QED
    BY <1>2, <2>2 DEF RequestsTypeOK, CashSale, requestVars
<1>3. ASSUME NEW s \in Sales, ReadRecordedSale(s)
      PROVE  RequestsTypeOK'
  <2>1. voids' \in [Sales -> 0..MaxVoids]
    BY <1>3, RequestsAssumption DEF RequestsTypeOK, ReadRecordedSale
  <2>2. QED
    BY <1>3, <2>1 DEF RequestsTypeOK, ReadRecordedSale, requestVars, stockVars
<1>4. ASSUME NEW s \in Sales, VoidCashSale(s)
      PROVE  RequestsTypeOK'
  <2>1. voids' \in [Sales -> 0..MaxVoids]
    BY <1>4, RequestsAssumption DEF RequestsTypeOK, VoidCashSale
  <2>2. \A p \in Products : onHand[p] \in Nat /\ SaleLines[s][p] \in Nat
    BY RequestsAssumption DEF RequestsTypeOK
  <2>3. onHand' \in [Products -> Nat]
    BY <1>4, <2>2 DEF VoidCashSale, Plus
  <2>4. QED
    BY <1>4, <2>1, <2>3 DEF RequestsTypeOK, VoidCashSale, requestVars
<1>5. QED
  BY <1>1, <1>2, <1>3, <1>4 DEF ShopStep

\* RequestsTypeOK and the types of the transactions' tables, from each other.
LEMMA TypeSplit ==
  ASSUME TypeOK, MoneyTypeOK', UNCHANGED <<overdue, shopVars>>
  PROVE  RequestsTypeOK'
BY DEF TypeOK, RequestsTypeOK, MoneyTypeOK, shopVars

-------------------------------------------------------------------------------
(* Steps of calls and recoverers                                           *)

CallersTypeOK ==
  pc \in [Callers -> CallerSteps] /\ call \in [Callers -> Keys \cup {NoKey}]

RecoverersTypeOK ==
  /\ rpc \in [Recoverers -> RecovererSteps]
  /\ row \in [Recoverers -> Requests \cup {NoRequest}]
  /\ todo \in [Recoverers -> SUBSET Requests]
  /\ snapshot \in [Recoverers -> SUBSET Requests]

ChainStates == {"none", "prepared", "broadcast", "landed", "dead"}

\* A step signs only what its key may sign, and takes no landing back.
ChainGrows ==
  /\ chain' \in [Keys -> ChainStates]
  /\ \A k \in Keys : chain[k] = "landed" => chain'[k] = "landed"
  /\ \A k \in Keys : chain'[k] # "none" =>
       chain[k] # "none" \/ (Merchant(RequestOf[k]) => attemptKey[RequestOf[k]] = k)

\* It records only what has landed.
LedgerGrows == \A k \in ledger' : k \in ledger \/ chain[k] = "landed"

\* What a step that claims nothing keeps.
Quiet ==
  /\ UNCHANGED <<overdue, shopVars, late, attemptKey>>
  /\ MoneyTypeOK' /\ ClaimInv' /\ ChainGrows /\ LedgerGrows
  /\ signed' \subseteq Requests /\ faults' \in 0..MaxFaults

LEMMA TypeParts ==
  TypeOK <=> /\ RequestsTypeOK /\ MoneyTypeOK /\ CallersTypeOK /\ RecoverersTypeOK
             /\ attemptKey \in [Requests -> Keys \cup {NoKey}]
             /\ signed \subseteq Requests /\ late \subseteq Requests
             /\ chain \in [Keys -> ChainStates]
             /\ faults \in 0..MaxFaults
BY DEF TypeOK, RequestsTypeOK, MoneyTypeOK, CallersTypeOK, RecoverersTypeOK, AttemptStatuses,
       ChainStates

LEMMA SameChain ==
  ASSUME TypeOK, chain' = chain
  PROVE  ChainGrows
BY DEF TypeOK, ChainGrows, ChainStates

LEMMA ResendGrows ==
  ASSUME NEW k, TypeOK, Resend(k)
  PROVE  ChainGrows
BY DEF TypeOK, ChainGrows, ChainStates, Resend

LEMMA SameMoney ==
  ASSUME TypeOK, ClaimInv, UNCHANGED <<Money, attemptKey>>
  PROVE  MoneyTypeOK' /\ ClaimInv' /\ LedgerGrows
BY MoneyType DEF Money, MoneyTypeOK, ClaimInv, LedgerGrows, stockVars, balanceVars

LEMMA QuietKeeps ==
  ASSUME IInv, Quiet
  PROVE  /\ RequestsTypeOK' /\ ClaimInv'
         /\ KeyInv' /\ OnePaymentPerRequest' /\ RecordedOnlyAfterLanding'
         /\ CallersTypeOK' /\ RecoverersTypeOK' => TypeOK'
<1>1. RequestsTypeOK'
  BY TypeSplit DEF Quiet, IInv
<1>2. OnePaymentPerRequest'
  BY DEF Quiet, IInv, OnePaymentPerRequest, ChainGrows, TypeOK
<1>3. RecordedOnlyAfterLanding'
  BY DEF Quiet, IInv, RecordedOnlyAfterLanding, ChainGrows, LedgerGrows, MoneyTypeOK
<1>4. CallersTypeOK' /\ RecoverersTypeOK' => TypeOK'
  BY <1>1 DEF Quiet, IInv, ChainGrows, TypeOK, MoneyTypeOK, AttemptStatuses, ChainStates,
              CallersTypeOK, RecoverersTypeOK
<1>5. KeyInv'
  BY DEF Quiet, IInv, KeyInv
<1>6. QED
  BY <1>1, <1>2, <1>3, <1>4, <1>5 DEF Quiet

LEMMA GotoFacts ==
  ASSUME CallersTypeOK, NEW c \in Callers, NEW step \in CallerSteps, Goto(c, step)
  PROVE  /\ CallersTypeOK'
         /\ pc'[c] = step /\ (step # "idle" => call'[c] = call[c])
         /\ \A d \in Callers \ {c} : pc'[d] = pc[d] /\ call'[d] = call[d]
BY DEF CallersTypeOK, Goto

LEMMA RowKeeps ==
  ASSUME TypeOK, RowInv, ChainGrows, attemptKey' = attemptKey, UNCHANGED recovererVars
  PROVE  RowInv' /\ RecoverersTypeOK'
BY DEF TypeOK, RowInv, RecoverersTypeOK, ChainGrows, recovererVars

LEMMA CallKeeps ==
  ASSUME TypeOK, CallInv, ChainGrows, attemptKey' = attemptKey, UNCHANGED callerVars
  PROVE  CallInv' /\ CallersTypeOK'
BY DEF TypeOK, CallInv, CallersTypeOK, ChainGrows, callerVars, Pays, Merchant

\* A call moves to a step it may be at.
LEMMA CallerMoves ==
  ASSUME IInv, Quiet, UNCHANGED recovererVars,
         NEW c \in Callers, NEW step \in CallerSteps, Goto(c, step), pc[c] # "idle",
         step \in Working /\ Merchant(Pays(c)) => attemptKey[Pays(c)] = call[c],
         step = "completed" => chain'[call[c]] = "landed",
         step # "check_balance"
  PROVE  IInv'
<1>1. RowInv' /\ RecoverersTypeOK'
  BY RowKeeps DEF IInv, Quiet
<1>2. CallersTypeOK /\ CallersTypeOK'
  BY GotoFacts, TypeParts DEF IInv
<1>3. CallInv'
  <2>1. SUFFICES ASSUME NEW d \in Callers
                 PROVE  /\ pc'[d] # "idle" => call'[d] \in Keys
                        /\ pc'[d] \in Working /\ Merchant(RequestOf[call'[d]]) =>
                             attemptKey[RequestOf[call'[d]]] = call'[d]
                        /\ pc'[d] = "completed" => chain'[call'[d]] = "landed"
                        /\ pc'[d] = "check_balance" => ~Merchant(RequestOf[call'[d]])
    BY DEF CallInv, Pays, Merchant, Quiet
  <2>2. CASE d = c
    BY <1>2, <2>2, GotoFacts DEF IInv, CallInv, Pays, Working
  <2>3. CASE d # c
    <3>1. pc'[d] = pc[d] /\ call'[d] = call[d]
      BY <1>2, <2>3, GotoFacts
    <3>2. QED
      BY <3>1 DEF IInv, CallInv, Pays, Quiet, ChainGrows
  <2>4. QED
    BY <2>2, <2>3
<1>4. QED
  BY <1>1, <1>2, <1>3, QuietKeeps DEF IInv

\* A recoverer moves within its pass.
LEMMA RecovererMoves ==
  ASSUME IInv, Quiet, UNCHANGED callerVars, RowInv', RecoverersTypeOK'
  PROVE  IInv'
BY QuietKeeps, CallKeeps DEF IInv, Quiet

LEMMA NextRowKeeps ==
  ASSUME TypeOK, RowInv, ChainGrows, attemptKey' = attemptKey, NEW q \in Recoverers, NEW r,
         NextRow(q, r)
  PROVE  RowInv' /\ RecoverersTypeOK'
BY DEF TypeOK, RowInv, RecoverersTypeOK, RecovererSteps, ChainGrows, NextRow

LEMMA EndPassKeeps ==
  ASSUME TypeOK, RowInv, ChainGrows, attemptKey' = attemptKey, NEW q \in Recoverers, EndPass(q)
  PROVE  RowInv' /\ RecoverersTypeOK'
BY DEF TypeOK, RowInv, RecoverersTypeOK, RecovererSteps, ChainGrows, EndPass

LEMMA AtKeeps ==
  ASSUME TypeOK, RowInv, ChainGrows, attemptKey' = attemptKey, NEW q \in Recoverers,
         NEW r \in todo[q], NEW step \in RecovererSteps, At(q, r, step),
         step = "finalize" => chain'[attemptKey[r]] = "landed"
  PROVE  RowInv' /\ RecoverersTypeOK'
BY DEF TypeOK, RowInv, RecoverersTypeOK, RecovererSteps, ChainGrows, At

-------------------------------------------------------------------------------
(* The steps                                                               *)

LEMMA InitInv == Init => IInv
<1> SUFFICES ASSUME Init PROVE IInv
  OBVIOUS
<1>1. RequestsTypeOK
  BY RequestsAssumption DEF Init, RequestsInit, RequestsTypeOK, RequestStatuses
<1>2. TypeOK
  BY <1>1, PaymentAssumption DEF Init, TypeOK, CallerSteps, RecovererSteps
<1>3. CallInv /\ RowInv
  BY DEF Init, CallInv, RowInv, Working
<1>4. ClaimInv /\ KeyInv /\ OnePaymentPerRequest /\ RecordedOnlyAfterLanding
  BY PaymentAssumption DEF Init, ClaimInv, KeyInv, OnePaymentPerRequest, RecordedOnlyAfterLanding
<1>5. QED
  BY <1>2, <1>3, <1>4 DEF IInv

LEMMA ExecuteKeeps ==
  ASSUME IInv, NEW c \in Callers, NEW k \in Keys, Execute(c, k)
  PROVE  IInv'
<1>1. UNCHANGED <<overdue, shopVars, late, recovererVars, faults, Money, attemptKey, signed, chain>>
  BY DEF Execute, Others
<1>2. Quiet
  BY <1>1, SameMoney, SameChain DEF IInv, Quiet, TypeOK
<1>3. RowInv' /\ RecoverersTypeOK'
  BY <1>1, <1>2, RowKeeps DEF IInv, Quiet
<1>4. /\ pc' \in [Callers -> CallerSteps] /\ call' \in [Callers -> Keys \cup {NoKey}]
      /\ call'[c] = k /\ pc'[c] \in {"expire", "claim", "check_balance"}
      /\ pc'[c] = "check_balance" => ~Merchant(RequestOf[k])
      /\ \A d \in Callers \ {c} : pc'[d] = pc[d] /\ call'[d] = call[d]
  BY DEF Execute, IInv, TypeOK, CallerSteps
<1>5. CallInv'
  <2>1. SUFFICES ASSUME NEW d \in Callers
                 PROVE  /\ pc'[d] # "idle" => call'[d] \in Keys
                        /\ pc'[d] \in Working /\ Merchant(RequestOf[call'[d]]) =>
                             attemptKey[RequestOf[call'[d]]] = call'[d]
                        /\ pc'[d] = "completed" => chain[call'[d]] = "landed"
                        /\ pc'[d] = "check_balance" => ~Merchant(RequestOf[call'[d]])
    BY <1>1 DEF CallInv, Pays, Merchant
  <2>2. CASE d = c
    BY <1>4, <2>2 DEF Working
  <2>3. CASE d # c
    BY <1>4, <2>3 DEF IInv, CallInv, Pays
  <2>4. QED
    BY <2>2, <2>3
<1>6. QED
  BY <1>2, <1>3, <1>4, <1>5, QuietKeeps DEF IInv, CallersTypeOK

LEMMA ExpireKeeps ==
  ASSUME IInv, NEW c \in Callers, Expire(c)
  PROVE  IInv'
<1>1. call[c] \in Keys /\ Pays(c) \in Requests
  BY ConstantTypes DEF IInv, CallInv, Expire, Pays
<1>2. RequestsTypeOK'
  BY <1>1, ExpireResolvedType DEF Expire, IInv, TypeOK
<1>3. /\ UNCHANGED <<attemptVars, late, chain, ledger, balanceVars, recovererVars, faults>>
      /\ Goto(c, "idle")
  BY DEF Expire
<1>4. ChainGrows /\ ClaimInv' /\ KeyInv'
  BY <1>3, SameChain DEF IInv, ClaimInv, KeyInv, attemptVars
<1>5. RowInv' /\ RecoverersTypeOK'
  BY <1>3, <1>4, RowKeeps DEF IInv, attemptVars
<1>6. /\ CallersTypeOK' /\ pc'[c] = "idle"
      /\ \A d \in Callers \ {c} : pc'[d] = pc[d] /\ call'[d] = call[d]
  BY <1>3, GotoFacts, TypeParts DEF IInv, CallerSteps
<1>7. CallInv'
  BY <1>3, <1>6 DEF IInv, CallInv, Pays, Merchant, Working, attemptVars
<1>8. TypeOK'
  BY <1>2, <1>3, <1>5, <1>6 DEF IInv, TypeOK, CallersTypeOK, RecoverersTypeOK, attemptVars, balanceVars
<1>9. OnePaymentPerRequest' /\ RecordedOnlyAfterLanding'
  BY <1>3 DEF IInv, OnePaymentPerRequest, RecordedOnlyAfterLanding, attemptVars
<1>10. QED
  BY <1>4, <1>5, <1>7, <1>8, <1>9 DEF IInv

\* The claim of a request that nobody has claimed: no call or pass is at it,
\* and nothing was signed for it.
LEMMA ClaimKeeps ==
  ASSUME IInv, NEW c \in Callers, ClaimMerchantPayment(c)
  PROVE  IInv'
<1> DEFINE k == call[c]
<1> DEFINE r == Pays(c)
<1>1. k \in Keys /\ r \in Requests /\ Payer[k] \in Wallets /\ Amount[r] \in Nat
  BY ConstantTypes DEF IInv, CallInv, ClaimMerchantPayment, Pays
<1>2. CASE ~CanClaim(k)
  <2>1. UNCHANGED <<overdue, shopVars, late, recovererVars, faults, Money, attemptKey, signed, chain>>
    BY <1>2 DEF ClaimMerchantPayment, Others, Money, balanceVars
  <2>2. Quiet
    BY <2>1, SameMoney, SameChain DEF IInv, Quiet, TypeOK
  <2>3. CASE attemptKey[r] = k /\ attempt[r] = "finalized"
    <3>1. Goto(c, "look_up") /\ pc[c] # "idle"
      BY <2>3 DEF ClaimMerchantPayment
    <3>2. QED
      BY <2>1, <2>2, <2>3, <3>1, CallerMoves DEF CallerSteps
  <2>4. CASE ~(attemptKey[r] = k /\ attempt[r] = "finalized")
    <3>1. Goto(c, "idle") /\ pc[c] # "idle"
      BY <1>2, <2>4 DEF ClaimMerchantPayment
    <3>2. QED
      BY <2>1, <2>2, <3>1, CallerMoves DEF CallerSteps, Working
  <2>5. QED
    BY <2>3, <2>4
<1>3. CASE CanClaim(k)
  <2>1. /\ attemptKey[r] = NoKey /\ available[Payer[k]] >= Amount[r]
        /\ attempt' = [attempt EXCEPT ![r] = "processing"]
        /\ attemptKey' = [attemptKey EXCEPT ![r] = k]
        /\ SetRequest(r, "processing")
        /\ available' = Shift(available, Payer[k], -Amount[r])
        /\ pending' = Shift(pending, Payer[k], Amount[r])
        /\ Goto(c, "look_up")
        /\ UNCHANGED <<overdue, shopVars, late, recovererVars, faults, stockVars, signed, chain, ledger>>
    BY <1>3 DEF ClaimMerchantPayment, CanClaim, Pays, Others
  <2>2. TypeOK'
    <3>1. available' \in [Wallets -> Nat]
      <4>1. available[Payer[k]] + (-Amount[r]) >= 0
        BY <1>1, <2>1 DEF IInv, TypeOK
      <4>2. QED
        BY <1>1, <2>1, <4>1, ShiftType DEF IInv, TypeOK
    <3>2. pending' \in [Wallets -> Nat]
      <4>1. pending[Payer[k]] + Amount[r] >= 0
        BY <1>1 DEF IInv, TypeOK
      <4>2. QED
        BY <1>1, <2>1, <4>1, ShiftType DEF IInv, TypeOK
    <3>3. CallersTypeOK'
      BY <2>1, GotoFacts, TypeParts DEF IInv, CallerSteps
    <3>4. request' \in [Requests -> RequestStatuses]
      BY <1>1, <2>1, SetRequestType, MoneyType DEF IInv, RequestStatuses
    <3>5. RequestsTypeOK'
      BY <2>1, <3>4 DEF IInv, TypeOK, RequestsTypeOK, stockVars, shopVars
    <3>6. QED
      BY <1>1, <2>1, <3>1, <3>2, <3>3, <3>5
        DEF IInv, TypeOK, CallersTypeOK, Unfinished, recovererVars
  <2>3. CallInv'
    <3>1. /\ pc'[c] = "look_up" /\ call'[c] = k
          /\ \A d \in Callers \ {c} : pc'[d] = pc[d] /\ call'[d] = call[d]
      BY <2>1, GotoFacts, TypeParts DEF IInv, CallerSteps
    <3>2. SUFFICES ASSUME NEW d \in Callers
                   PROVE  /\ pc'[d] # "idle" => call'[d] \in Keys
                          /\ pc'[d] \in Working /\ Merchant(RequestOf[call'[d]]) =>
                               attemptKey'[RequestOf[call'[d]]] = call'[d]
                          /\ pc'[d] = "completed" => chain[call'[d]] = "landed"
                          /\ pc'[d] = "check_balance" => ~Merchant(RequestOf[call'[d]])
      BY <2>1 DEF CallInv, Pays, Merchant
    <3>3. CASE d = c
      BY <1>1, <2>1, <3>1, <3>3 DEF IInv, TypeOK, Pays
    <3>4. CASE d # c
      <4>1. pc'[d] = pc[d] /\ call'[d] = call[d]
        BY <3>1, <3>4
      <4>2. pc[d] # "idle" => call[d] \in Keys /\ RequestOf[call[d]] \in Requests
        BY ConstantTypes DEF IInv, CallInv
      <4>3. CASE pc[d] \in Working /\ Merchant(RequestOf[call[d]])
        <5>1. attemptKey[RequestOf[call[d]]] = call[d] /\ call[d] \in Keys
          BY <4>3 DEF IInv, CallInv, Pays, Working
        <5>2. RequestOf[call[d]] # r
          BY <2>1, <5>1, PaymentAssumption
        <5>3. attemptKey'[RequestOf[call[d]]] = call[d]
          BY <1>1, <2>1, <4>2, <4>3, <5>1, <5>2 DEF IInv, TypeOK, Working
        <5>4. QED
          BY <4>1, <4>3, <5>1, <5>3 DEF IInv, CallInv, Pays, Working
      <4>4. CASE ~(pc[d] \in Working /\ Merchant(RequestOf[call[d]]))
        BY <4>1, <4>4 DEF IInv, CallInv, Pays
      <4>5. QED
        BY <4>3, <4>4
    <3>5. QED
      BY <3>3, <3>4
  <2>4. RowInv'
    <3>1. \A x \in Requests : attemptKey[x] \in Keys =>
            attemptKey'[x] = attemptKey[x]
      BY <1>1, <2>1, PaymentAssumption DEF IInv, TypeOK
    <3>2. QED
      BY <2>1, <3>1 DEF IInv, TypeOK, RowInv, recovererVars
  <2>5. ClaimInv' /\ KeyInv'
    BY <1>1, <2>1 DEF IInv, TypeOK, ClaimInv, KeyInv, Pays
  <2>6. OnePaymentPerRequest'
    <3>1. SUFFICES ASSUME NEW j \in Keys, Merchant(RequestOf[j]), chain[j] # "none"
                   PROVE  attemptKey'[RequestOf[j]] = j
      BY <2>1 DEF OnePaymentPerRequest, Merchant
    <3>2. attemptKey[RequestOf[j]] = j
      BY <3>1 DEF IInv, OnePaymentPerRequest
    <3>3. RequestOf[j] # r
      BY <2>1, <3>2, PaymentAssumption
    <3>4. QED
      BY <2>1, <3>2, <3>3, ConstantTypes DEF IInv, TypeOK
  <2>7. RecordedOnlyAfterLanding'
    BY <2>1 DEF IInv, RecordedOnlyAfterLanding
  <2>8. QED
    BY <2>2, <2>3, <2>4, <2>5, <2>6, <2>7 DEF IInv
<1>4. QED
  BY <1>2, <1>3

\* A step that changes at most the chain, the signatures and the faults.
LEMMA QuietStep ==
  ASSUME IInv, UNCHANGED <<overdue, shopVars, late, attemptKey, Money>>, ChainGrows,
         signed' \subseteq Requests, faults' \in 0..MaxFaults
  PROVE  Quiet
BY SameMoney DEF IInv, Quiet

LEMMA UnchangedStep ==
  ASSUME IInv, UNCHANGED <<overdue, shopVars, late, attemptKey, Money, signed, chain>>,
         faults' \in 0..MaxFaults
  PROVE  Quiet
BY QuietStep, SameChain DEF IInv, TypeOK

\* A call that works keeps its claim wherever it goes; one that stops needs none.
LEMMA WorkMoves ==
  ASSUME IInv, Quiet, UNCHANGED recovererVars,
         NEW c \in Callers, NEW step \in CallerSteps, Goto(c, step), pc[c] \in Working,
         step = "completed" => chain'[call[c]] = "landed",
         step # "check_balance"
  PROVE  IInv'
<1>1. pc[c] # "idle" /\ (Merchant(Pays(c)) => attemptKey[Pays(c)] = call[c])
  BY DEF IInv, CallInv, Working
<1>2. QED
  BY <1>1, CallerMoves

LEMMA StopMoves ==
  ASSUME IInv, Quiet, UNCHANGED recovererVars,
         NEW c \in Callers, NEW step \in CallerSteps \ Working, Goto(c, step), pc[c] # "idle",
         step # "check_balance"
  PROVE  IInv'
BY CallerMoves DEF Working

LEMMA ThrownStep ==
  ASSUME NEW c \in Callers
  PROVE  Thrown(c) \in CallerSteps \ Working /\ Thrown(c) # "check_balance"
BY DEF Thrown, CallerSteps, Working

LEMMA AssertAvailableBalanceKeeps ==
  ASSUME IInv, NEW c \in Callers, AssertAvailableBalance(c)
  PROVE  IInv'
<1>1. Quiet
  BY UnchangedStep DEF AssertAvailableBalance, Others, IInv, TypeOK
<1>2. PICK step \in {"look_up", "idle"} : Goto(c, step)
  BY DEF AssertAvailableBalance
<1>3. UNCHANGED recovererVars /\ pc[c] # "idle" /\ step \in CallerSteps /\ step \notin {"completed", "check_balance"}
  BY <1>2 DEF AssertAvailableBalance, Others, CallerSteps
<1>4. ~Merchant(Pays(c))
  BY DEF AssertAvailableBalance, IInv, CallInv
<1>5. QED
  BY <1>1, <1>2, <1>3, <1>4, CallerMoves

LEMMA LookUpKeeps ==
  ASSUME IInv, NEW c \in Callers, LookUp(c)
  PROVE  IInv'
<1>1. Quiet
  BY UnchangedStep DEF LookUp, Others, IInv, TypeOK
<1>2. PICK step \in {"sign", "attach"} : Goto(c, step)
  BY DEF LookUp
<1>3. UNCHANGED recovererVars /\ pc[c] \in Working /\ step \in CallerSteps /\ step \notin {"completed", "check_balance"}
  BY <1>2 DEF LookUp, Others, CallerSteps, Working
<1>4. QED
  BY <1>1, <1>2, <1>3, WorkMoves

LEMMA RecordSignatureKeeps ==
  ASSUME IInv, NEW c \in Callers, RecordSignature(c)
  PROVE  IInv'
<1>1. pc[c] \in Working /\ Pays(c) \in Requests
  BY ConstantTypes DEF RecordSignature, Working, IInv, CallInv, Pays
<1>2. signed' \subseteq Requests
  BY <1>1 DEF RecordSignature, IInv, TypeOK
<1>3. Quiet
  BY <1>2, QuietStep, SameChain DEF RecordSignature, Others, IInv, TypeOK
<1>4. PICK step \in {"recover", "broadcast"} : Goto(c, step)
  BY DEF RecordSignature
<1>5. UNCHANGED recovererVars /\ step \in CallerSteps /\ step \notin {"completed", "check_balance"}
  BY <1>4 DEF RecordSignature, Others, CallerSteps
<1>6. QED
  BY <1>1, <1>3, <1>4, <1>5, WorkMoves

LEMMA RecoverTransferKeeps ==
  ASSUME IInv, NEW c \in Callers, RecoverTransfer(c)
  PROVE  IInv'
<1>1. pc[c] \in Working /\ call[c] \in Keys
  BY DEF RecoverTransfer, Working, IInv, CallInv
<1>2. ChainGrows
  BY ResendGrows DEF RecoverTransfer, IInv
<1>3. Quiet
  BY <1>2, QuietStep DEF RecoverTransfer, Others, IInv, TypeOK
<1>4. PICK step \in {"completed", "failed", Thrown(c)} :
        Goto(c, step) /\ (step = "completed" => chain[call[c]] = "landed")
  BY ThrownStep DEF RecoverTransfer, Working
<1>5. step \in CallerSteps /\ step # "check_balance"
  BY <1>4, ThrownStep DEF CallerSteps
<1>6. step = "completed" => chain'[call[c]] = "landed"
  BY <1>1, <1>2, <1>4 DEF ChainGrows
<1>7. QED
  BY <1>1, <1>3, <1>4, <1>5, <1>6, WorkMoves DEF RecoverTransfer, Others

\* Only the call whose key holds the claim saves a transaction.
LEMMA SignKeeps ==
  ASSUME IInv, NEW c \in Callers, Sign(c)
  PROVE  IInv'
<1>1. /\ pc[c] \in Working /\ call[c] \in Keys
      /\ Merchant(RequestOf[call[c]]) => attemptKey[RequestOf[call[c]]] = call[c]
  BY DEF Sign, Working, IInv, CallInv, Pays
<1>2. ChainGrows
  <2>1. CASE chain' = [chain EXCEPT ![call[c]] = "prepared"] /\ chain[call[c]] = "none"
    BY <1>1, <2>1 DEF ChainGrows, ChainStates, IInv, TypeOK
  <2>2. CASE chain' = chain
    BY <2>2, SameChain DEF IInv
  <2>3. QED
    BY <2>1, <2>2 DEF Sign
<1>3. Quiet
  BY <1>2, QuietStep DEF Sign, Others, IInv, TypeOK
<1>4. PICK step \in {"prepared", "unsaved"} : Goto(c, step)
  BY DEF Sign
<1>5. step \in CallerSteps /\ step \notin {"completed", "check_balance"}
  BY <1>4 DEF CallerSteps
<1>6. QED
  BY <1>1, <1>3, <1>4, <1>5, WorkMoves DEF Sign, Others

LEMMA CheckSavedKeeps ==
  ASSUME IInv, NEW c \in Callers, CheckSaved(c)
  PROVE  IInv'
<1>1. Quiet
  BY UnchangedStep DEF CheckSaved, Others, IInv, TypeOK
<1>2. PICK step \in {"failed", Thrown(c)} : Goto(c, step)
  BY DEF CheckSaved
<1>3. step \in CallerSteps /\ step \notin {"completed", "check_balance"} /\ pc[c] \in Working
  BY <1>2, ThrownStep DEF CheckSaved, CallerSteps, Working
<1>4. QED
  BY <1>1, <1>2, <1>3, WorkMoves DEF CheckSaved, Others

LEMMA BroadcastKeeps ==
  ASSUME IInv, NEW c \in Callers, Broadcast(c)
  PROVE  IInv'
<1>1. Quiet
  BY QuietStep, ResendGrows DEF Broadcast, Others, IInv, TypeOK
<1>2. PICK step \in {"submitted", Thrown(c)} : Goto(c, step)
  BY DEF Broadcast
<1>3. step \in CallerSteps /\ step \notin {"completed", "check_balance"} /\ pc[c] \in Working
  BY <1>2, ThrownStep DEF Broadcast, CallerSteps, Working
<1>4. QED
  BY <1>1, <1>2, <1>3, WorkMoves DEF Broadcast, Others

LEMMA OnSubmittedKeeps ==
  ASSUME IInv, NEW c \in Callers, OnSubmitted(c)
  PROVE  IInv'
<1>1. /\ pc[c] \in Working /\ call[c] \in Keys /\ Pays(c) \in Requests
      /\ Merchant(Pays(c)) => attemptKey[Pays(c)] = call[c]
  BY ConstantTypes DEF OnSubmitted, Working, IInv, CallInv, Pays
<1>2. UNCHANGED <<request, stockVars, ledger, balanceVars, attemptKey, signed, chain,
                  overdue, shopVars, late, recovererVars, faults>>
  BY DEF OnSubmitted, Others
<1>3. MoneyTypeOK' /\ ClaimInv'
  BY <1>1, <1>2 DEF OnSubmitted, IInv, TypeOK, RequestsTypeOK, MoneyTypeOK, ClaimInv,
                   AttemptStatuses, Unfinished, stockVars, balanceVars
<1>4. Quiet
  BY <1>2, <1>3, SameChain DEF Quiet, IInv, TypeOK, LedgerGrows
<1>5. Goto(c, "confirm") /\ "confirm" \in CallerSteps
  BY DEF OnSubmitted, CallerSteps
<1>6. QED
  BY <1>1, <1>2, <1>4, <1>5, WorkMoves

LEMMA ConfirmKeeps ==
  ASSUME IInv, NEW c \in Callers, Confirm(c)
  PROVE  IInv'
<1>1. UNCHANGED <<overdue, shopVars, late, recovererVars, faults, Money, attemptKey, signed, chain>>
  BY DEF Confirm, Others
<1>2. Quiet
  BY <1>1, UnchangedStep DEF IInv, TypeOK
<1>3. PICK step \in {"completed", Thrown(c)} :
        Goto(c, step) /\ (step = "completed" => chain[call[c]] = "landed")
  BY ThrownStep DEF Confirm, Working
<1>4. step \in CallerSteps /\ step # "check_balance" /\ pc[c] \in Working
  BY <1>3, ThrownStep DEF Confirm, CallerSteps, Working
<1>5. QED
  BY <1>1, <1>2, <1>3, <1>4, WorkMoves

\* What is recorded has landed: the call has seen so.
LEMMA FinalizeKeeps ==
  ASSUME IInv, NEW c \in Callers, Finalize(c)
  PROVE  IInv'
<1> DEFINE k == call[c]
<1>1. /\ pc[c] \in Working /\ k \in Keys /\ chain[k] = "landed"
      /\ Merchant(Pays(c)) => attemptKey[RequestOf[k]] = k
  BY DEF Finalize, Working, IInv, CallInv, Pays
<1>2. UNCHANGED <<overdue, shopVars, late, recovererVars, faults, attemptKey, signed, chain>>
  BY DEF Finalize, Others
<1>3. MoneyTypeOK' /\ ClaimInv' /\ ledger' \subseteq ledger \cup {k}
  <2>1. CASE Merchant(Pays(c))
    <3>1. FinalizeMerchantPayment(k)
      BY <2>1 DEF Finalize
    <3>2. QED
      BY <1>1, <1>2, <2>1, <3>1, FinalizeMerchantType, FinalizeMerchantClaims, MoneyType DEF IInv
  <2>2. CASE ~Merchant(Pays(c))
    <3>1. FinalizeConsumerPayment(k)
      BY <2>2 DEF Finalize
    <3>2. QED
      BY <1>1, <1>2, <3>1, FinalizeConsumerType, FinalizeConsumerClaims, MoneyType DEF IInv
  <2>3. QED
    BY <2>1, <2>2
<1>4. Quiet
  BY <1>1, <1>2, <1>3, SameChain DEF Quiet, LedgerGrows, IInv, TypeOK
<1>5. PICK step \in {"idle", Thrown(c)} : Goto(c, step)
  BY DEF Finalize
<1>6. step \in CallerSteps \ Working /\ step # "check_balance" /\ pc[c] # "idle"
  BY <1>1, <1>5, ThrownStep DEF CallerSteps, Working
<1>7. QED
  BY <1>2, <1>4, <1>5, <1>6, StopMoves

LEMMA MarkFailedKeeps ==
  ASSUME IInv, NEW c \in Callers, MarkFailed(c)
  PROVE  IInv'
<1>1. Pays(c) \in Requests /\ pc[c] # "idle"
  BY ConstantTypes DEF MarkFailed, IInv, CallInv, Pays
<1>2. UNCHANGED <<overdue, shopVars, late, recovererVars, faults, attemptKey, signed, chain>>
  BY DEF MarkFailed, Others
<1>3. MoneyTypeOK' /\ ClaimInv' /\ LedgerGrows
  <2>1. CASE Merchant(Pays(c))
    <3>1. MarkMerchantPaymentFailed(Pays(c))
      BY <2>1 DEF MarkFailed
    <3>2. QED
      BY <1>1, <1>2, <3>1, MarkFailedType, MarkFailedClaims, MoneyType DEF IInv, LedgerGrows
  <2>2. CASE ~Merchant(Pays(c))
    BY <1>2, <2>2, SameMoney DEF MarkFailed, IInv
  <2>3. QED
    BY <2>1, <2>2
<1>4. Quiet
  BY <1>2, <1>3, SameChain DEF Quiet, IInv, TypeOK
<1>5. PICK step \in {"idle", Thrown(c)} : Goto(c, step)
  BY DEF MarkFailed
<1>6. step \in CallerSteps \ Working /\ step # "check_balance"
  BY <1>5, ThrownStep DEF CallerSteps, Working
<1>7. QED
  BY <1>1, <1>2, <1>4, <1>5, <1>6, StopMoves

LEMMA FailUnsubmittedKeeps ==
  ASSUME IInv, NEW c \in Callers, FailUnsubmitted(c) \/ CheckRow(c)
  PROVE  IInv'
<1>1. /\ UNCHANGED <<overdue, shopVars, late, recovererVars, faults, Money, attemptKey, signed, chain>>
      /\ pc[c] # "idle"
  BY DEF FailUnsubmitted, CheckRow, Others
<1>2. Quiet
  BY <1>1, UnchangedStep DEF IInv, TypeOK
<1>3. PICK step \in {"idle", "check_row", "mark_failed"} : Goto(c, step)
  BY DEF FailUnsubmitted, CheckRow
<1>4. step \in CallerSteps \ Working /\ step # "check_balance"
  BY <1>3 DEF CallerSteps, Working
<1>5. QED
  BY <1>1, <1>2, <1>3, <1>4, StopMoves

\* A call that throws or ends, wherever it is.
LEMMA CallFaultsKeep ==
  ASSUME IInv, NEW c \in Callers, SignFails(c) \/ Throw(c) \/ CallEnds(c)
  PROVE  IInv'
<1>1. /\ UNCHANGED <<overdue, shopVars, late, recovererVars, Money, attemptKey, signed, chain>>
      /\ Faulty
  BY DEF SignFails, Throw, CallEnds
<1>2. faults' \in 0..MaxFaults
  BY <1>1, PaymentAssumption DEF Faulty, IInv, TypeOK
<1>3. Quiet
  BY <1>1, <1>2, UnchangedStep
<1>4. CASE SignFails(c)
  <2>1. pc[c] \in Working /\ Goto(c, "unsaved") /\ "unsaved" \in CallerSteps
    BY <1>4 DEF SignFails, Working, CallerSteps
  <2>2. QED
    BY <1>1, <1>3, <2>1, WorkMoves
<1>5. CASE Throw(c) \/ CallEnds(c)
  <2>1. PICK step \in {"idle", Thrown(c)} : Goto(c, step) /\ pc[c] # "idle"
    BY <1>5 DEF Throw, CallEnds
  <2>2. step \in CallerSteps \ Working /\ step # "check_balance"
    BY <2>1, ThrownStep DEF CallerSteps, Working
  <2>3. QED
    BY <1>1, <1>3, <2>1, <2>2, StopMoves
<1>6. QED
  BY <1>4, <1>5

\* The recoverers.
LEMMA StartPassKeeps ==
  ASSUME IInv, NEW q \in Recoverers, StartPass(q)
  PROVE  IInv'
<1>1. UNCHANGED <<overdue, shopVars, late, callerVars, faults, row, Money, attemptKey, signed, chain>>
  BY DEF StartPass, Unchanged
<1>2. Quiet
  BY <1>1, UnchangedStep DEF IInv, TypeOK
<1>3. \A r \in Requests : attempt[r] \in Unfinished => attemptKey[r] \in Keys
  BY DEF IInv, ClaimInv, Unfinished
<1>4. RowInv' /\ RecoverersTypeOK'
  BY <1>1, <1>3 DEF StartPass, IInv, TypeOK, RowInv, RecoverersTypeOK, RecovererSteps
<1>5. QED
  BY <1>1, <1>2, <1>4, RecovererMoves

LEMMA LookForRowKeeps ==
  ASSUME IInv, NEW q \in Recoverers, NEW r \in Requests, LookForRow(q, r)
  PROVE  IInv'
<1>1. UNCHANGED <<overdue, shopVars, late, callerVars, faults, Money, attemptKey, signed, chain>>
  BY DEF LookForRow, Unchanged
<1>2. Quiet
  BY <1>1, UnchangedStep DEF IInv, TypeOK
<1>3. /\ r \in todo[q]
      /\ At(q, r, "attach") \/ At(q, r, "mark_failed") \/ NextRow(q, r)
  BY DEF LookForRow
<1>4. RowInv' /\ RecoverersTypeOK'
  BY <1>2, <1>3, AtKeeps, NextRowKeeps DEF IInv, Quiet, RecovererSteps
<1>5. QED
  BY <1>1, <1>2, <1>4, RecovererMoves

LEMMA AttachKeeps ==
  ASSUME IInv, NEW q \in Recoverers, Attach(q)
  PROVE  IInv'
<1>1. row[q] \in Requests /\ attemptKey[row[q]] \in Keys
  BY DEF Attach, IInv, RowInv
<1>2. UNCHANGED <<overdue, shopVars, late, callerVars, faults, request, stockVars, ledger,
                  balanceVars, attemptKey, chain>>
  BY DEF Attach, Unchanged
<1>3. MoneyTypeOK' /\ ClaimInv' /\ signed' \subseteq Requests
  BY <1>1, <1>2 DEF Attach, IInv, TypeOK, RequestsTypeOK, MoneyTypeOK, ClaimInv,
                   AttemptStatuses, Unfinished, stockVars, balanceVars
<1>4. Quiet
  BY <1>2, <1>3, SameChain DEF Quiet, IInv, TypeOK, LedgerGrows
<1>5. RowInv' /\ RecoverersTypeOK'
  BY <1>4, NextRowKeeps DEF Attach, IInv, Quiet
<1>6. QED
  BY <1>2, <1>4, <1>5, RecovererMoves

\* A landing that was seen is not taken back before the row is finalized.
LEMMA CheckChainKeeps ==
  ASSUME IInv, NEW q \in Recoverers, NEW r \in Requests, CheckChain(q, r)
  PROVE  IInv'
<1>1. UNCHANGED <<overdue, shopVars, late, callerVars, faults, Money, attemptKey, signed>>
  BY DEF CheckChain, Unchanged
<1>2. Quiet
  BY <1>1, QuietStep, ResendGrows DEF CheckChain, IInv, TypeOK
<1>3. r \in todo[q] /\ attemptKey[r] \in Keys
  BY DEF CheckChain, IInv, RowInv
<1>4. PICK step \in {"finalize", "mark_failed", "pass"} :
        /\ IF step = "pass" THEN NextRow(q, r) ELSE At(q, r, step)
        /\ step = "finalize" => chain[attemptKey[r]] = "landed"
  BY DEF CheckChain
<1>5. step = "finalize" => chain'[attemptKey[r]] = "landed"
  BY <1>2, <1>3, <1>4 DEF Quiet, ChainGrows
<1>6. RowInv' /\ RecoverersTypeOK'
  <2>1. CASE step = "pass"
    BY <1>2, <1>4, <2>1, NextRowKeeps DEF IInv, Quiet
  <2>2. CASE step # "pass"
    BY <1>2, <1>3, <1>4, <1>5, <2>2, AtKeeps DEF IInv, Quiet, RecovererSteps
  <2>3. QED
    BY <2>1, <2>2
<1>7. QED
  BY <1>1, <1>2, <1>6, RecovererMoves

LEMMA FinalizeRowKeeps ==
  ASSUME IInv, NEW q \in Recoverers, FinalizeRow(q)
  PROVE  IInv'
<1> DEFINE k == attemptKey[row[q]]
<1>1. row[q] \in Requests /\ k \in Keys /\ chain[k] = "landed"
  BY DEF FinalizeRow, IInv, RowInv
<1>2. UNCHANGED <<overdue, shopVars, late, callerVars, faults, attemptKey, signed, chain>>
  BY DEF FinalizeRow, Unchanged
<1>3. MoneyTypeOK' /\ ledger' \subseteq ledger \cup {k}
  BY <1>1, FinalizeMerchantType, MoneyType DEF FinalizeRow, FinalizeMerchantPayment, IInv, TypeOK
<1>4. ClaimInv'
  <2>1. RequestOf[k] = row[q]
    BY <1>1 DEF IInv, KeyInv
  <2>2. QED
    BY <1>1, <1>2, <2>1, FinalizeMerchantClaims DEF FinalizeRow, IInv
<1>5. Quiet
  BY <1>1, <1>2, <1>3, <1>4, SameChain DEF Quiet, LedgerGrows, IInv, TypeOK
<1>6. RowInv' /\ RecoverersTypeOK'
  BY <1>5, NextRowKeeps, EndPassKeeps DEF FinalizeRow, IInv, Quiet
<1>7. QED
  BY <1>2, <1>5, <1>6, RecovererMoves

LEMMA MarkRowFailedKeeps ==
  ASSUME IInv, NEW q \in Recoverers, MarkRowFailed(q)
  PROVE  IInv'
<1>1. row[q] \in Requests
  BY DEF MarkRowFailed, IInv, RowInv
<1>2. UNCHANGED <<overdue, shopVars, late, callerVars, faults, attemptKey, signed, chain>>
  BY DEF MarkRowFailed, Unchanged
<1>3. MoneyTypeOK' /\ ClaimInv' /\ LedgerGrows
  BY <1>1, <1>2, MarkFailedType, MarkFailedClaims, MoneyType DEF MarkRowFailed, IInv, LedgerGrows
<1>4. Quiet
  BY <1>2, <1>3, SameChain DEF Quiet, IInv, TypeOK
<1>5. RowInv' /\ RecoverersTypeOK'
  BY <1>4, NextRowKeeps, EndPassKeeps DEF MarkRowFailed, IInv, Quiet
<1>6. QED
  BY <1>2, <1>4, <1>5, RecovererMoves

LEMMA PassEndsKeeps ==
  ASSUME IInv, NEW q \in Recoverers, PassEnds(q)
  PROVE  IInv'
<1>1. /\ UNCHANGED <<overdue, shopVars, late, callerVars, Money, attemptKey, signed, chain>>
      /\ Faulty
  BY DEF PassEnds
<1>2. faults' \in 0..MaxFaults
  BY <1>1, PaymentAssumption DEF Faulty, IInv, TypeOK
<1>3. Quiet
  BY <1>1, <1>2, UnchangedStep
<1>4. RowInv' /\ RecoverersTypeOK'
  BY <1>3, EndPassKeeps DEF PassEnds, IInv, Quiet
<1>5. QED
  BY <1>1, <1>3, <1>4, RecovererMoves

\* Steps that leave the payments alone: requests, shop, time.
LEMMA OthersKeep ==
  ASSUME IInv, UNCHANGED <<attemptVars, chain, ledger, balanceVars, callerVars, recovererVars, faults>>,
         late' \subseteq Requests, RequestsTypeOK'
  PROVE  IInv'
<1>1. UNCHANGED <<attempt, attemptKey, signed, chain, ledger, available, pending, pc, call,
                  rpc, row, todo, snapshot, faults>>
  BY DEF attemptVars, balanceVars, callerVars, recovererVars
<1>2. TypeOK'
  BY <1>1 DEF IInv, TypeOK
<1>3. CallInv' /\ RowInv' /\ ClaimInv' /\ KeyInv'
  BY <1>1 DEF IInv, CallInv, RowInv, ClaimInv, KeyInv, Pays, Merchant
<1>4. OnePaymentPerRequest' /\ RecordedOnlyAfterLanding'
  BY <1>1 DEF IInv, OnePaymentPerRequest, RecordedOnlyAfterLanding, Merchant
<1>5. QED
  BY <1>2, <1>3, <1>4 DEF IInv

LEMMA ChainDecides ==
  ASSUME IInv, NEW k \in Keys, Land(k) \/ Die(k)
  PROVE  IInv'
<1>1. UNCHANGED <<requestVars, shopVars, Money, attemptKey, signed, late, callerVars,
                  recovererVars, faults>>
  BY DEF Land, Die
<1>2. ChainGrows
  BY DEF Land, Die, ChainGrows, ChainStates, IInv, TypeOK
<1>3. Quiet
  BY <1>1, <1>2, QuietStep DEF IInv, TypeOK, requestVars
<1>4. RowInv' /\ RecoverersTypeOK'
  BY <1>1, <1>2, RowKeeps DEF IInv
<1>5. QED
  BY <1>1, <1>3, <1>4, RecovererMoves

LEMMA NextKeeps == IInv /\ [Next]_vars => IInv'
<1> SUFFICES ASSUME IInv, [Next]_vars PROVE IInv'
  OBVIOUS
<1>1. ASSUME NEW r \in Requests, RequestStep(r), UNCHANGED Elsewhere
      PROVE  IInv'
  BY <1>1, RequestStepType, OthersKeep DEF Elsewhere, IInv, TypeOK
<1>2. ASSUME ShopStep, UNCHANGED Elsewhere
      PROVE  IInv'
  BY <1>2, ShopStepType, OthersKeep DEF Elsewhere, IInv, TypeOK
<1>3. ASSUME NEW c \in Callers, NEW k \in Keys, Execute(c, k)
      PROVE  IInv'
  BY <1>3, ExecuteKeeps
<1>4. ASSUME NEW c \in Callers, CallerStep(c)
      PROVE  IInv'
  BY <1>4, ExpireKeeps, ClaimKeeps, AssertAvailableBalanceKeeps, LookUpKeeps,
     RecordSignatureKeeps, RecoverTransferKeeps, SignKeeps, CheckSavedKeeps, BroadcastKeeps,
     OnSubmittedKeeps, ConfirmKeeps, FinalizeKeeps, MarkFailedKeeps, FailUnsubmittedKeeps
     DEF CallerStep
<1>5. ASSUME NEW c \in Callers, SignFails(c) \/ Throw(c) \/ CallEnds(c)
      PROVE  IInv'
  BY <1>5, CallFaultsKeep
<1>6. ASSUME NEW q \in Recoverers, RecovererStep(q) \/ PassEnds(q)
      PROVE  IInv'
  BY <1>6, StartPassKeeps, LookForRowKeeps, AttachKeeps, CheckChainKeeps, FinalizeRowKeeps,
     MarkRowFailedKeeps, PassEndsKeeps DEF RecovererStep
<1>7. ASSUME NEW r \in Requests, ClaimGetsLate(r)
      PROVE  IInv'
  <2>1. UNCHANGED <<requestVars, shopVars, Money, attemptKey, signed, chain, callerVars,
                    recovererVars, faults>>
    BY <1>7 DEF ClaimGetsLate
  <2>2. late' \subseteq Requests
    BY <1>7 DEF ClaimGetsLate, IInv, TypeOK
  <2>3. UNCHANGED <<attemptVars, ledger, balanceVars>> /\ RequestsTypeOK'
    BY <2>1 DEF Money, attemptVars, IInv, TypeOK, RequestsTypeOK, requestVars, stockVars, shopVars
  <2>4. QED
    BY <2>1, <2>2, <2>3, OthersKeep
<1>8. ASSUME NEW k \in Keys, Land(k) \/ Die(k)
      PROVE  IInv'
  BY <1>8, ChainDecides
<1>9. CASE UNCHANGED vars
  <2>1. UNCHANGED <<requestVars, stockVars, shopVars, attemptVars, late, chain, ledger,
                    balanceVars, callerVars, recovererVars, faults>>
    BY <1>9 DEF vars
  <2>2. RequestsTypeOK' /\ late' \subseteq Requests
    BY <2>1 DEF IInv, TypeOK, RequestsTypeOK, requestVars, stockVars, shopVars
  <2>3. QED
    BY <2>1, <2>2, OthersKeep
<1>10. QED
  BY <1>1, <1>2, <1>3, <1>4, <1>5, <1>6, <1>7, <1>8, <1>9 DEF Next

LEMMA Invariant == Spec => []IInv
<1>1. Init => IInv
  BY InitInv
<1>2. IInv /\ [Next]_vars => IInv'
  BY NextKeeps
<1>3. QED
  BY <1>1, <1>2, PTL DEF Spec

-------------------------------------------------------------------------------
(* How a payment ends.  With one recovery pass at a time, and where nobody   *)
(* sleeps for minutes between two steps, the statuses of a request and of    *)
(* its attempt, the chain, the calls and the pass agree.                     *)

\* A call for a merchant's request, from its claim until it leaves the request.
Engaged == Working \cup {"unsubmitted", "check_row", "mark_failed"}

Holds(c, k) == pc[c] \in Engaged /\ call[c] = k /\ Merchant(RequestOf[k])

\* Until its tokens have landed one call at most is engaged with a key, and
\* none any more when the claim is five minutes old.
HoldInv ==
  \A k \in Keys : chain[k] # "landed" =>
    /\ \A c, d \in Callers : Holds(c, k) /\ Holds(d, k) => c = d
    /\ RequestOf[k] \in late => \A c \in Callers : ~Holds(c, k)

\* What a call knows at each step of the request it pays and of the chain.
StepAt(step, k) ==
  LET r == RequestOf[k]
  IN  /\ step = "expire" => r \in overdue
      /\ step \in {"claim", "unsubmitted", "check_row", "mark_failed"} => Merchant(r)
      /\ Merchant(r) =>
           /\ step \in Engaged => attemptKey[r] = k
           /\ step = "look_up" => chain[k] \in {"none", "landed"}
           /\ step \in {"attach", "recover"} => chain[k] = "landed"
           /\ step \in {"prepared", "broadcast"} => chain[k] # "none"
           /\ step = "submitted" => chain[k] \in {"broadcast", "landed"}
           /\ step \in {"failed", "mark_failed"} => chain[k] = "none"
           /\ step \in {"look_up", "sign"} /\ chain[k] = "none" => attempt[r] \in Unfinished

Placed(c) == pc[c] # "idle" => StepAt(pc[c], call[c])

StepInv == \A c \in Callers : Placed(c)

\* A charge may be expired while it is paid (finding NotExpiredWhilePaid).
ExpiredCharge(r) == Kind[r] = "charge" /\ r \in MayExpire /\ request[r] = "expired"

\* The status of a request follows that of its attempt, and both the chain.
AttemptAgrees(r) ==
  /\ ~Merchant(r) => attempt[r] = "none" /\ request[r] \notin {"processing", "failed"}
  /\ Merchant(r) /\ attempt[r] = "none" =>
       request[r] \in {"absent", "pending", "expired", "cancelled"}
  /\ attempt[r] = "none" => attemptKey[r] = NoKey
  /\ attempt[r] = "processing" => request[r] = "processing" \/ ExpiredCharge(r)
  /\ attempt[r] = "submitted" =>
       request[r] \in {"processing", "completed"} \/ ExpiredCharge(r)
  /\ attempt[r] = "failed" => request[r] = "failed" \/ ExpiredCharge(r)
  /\ attempt[r] = "finalized" => request[r] = "completed" \/ ExpiredCharge(r)

ChainAgrees(r) ==
  /\ attempt[r] = "finalized" => chain[attemptKey[r]] = "landed"
  /\ Merchant(r) /\ request[r] = "completed" => chain[attemptKey[r]] = "landed"
  /\ attempt[r] = "failed" => chain[attemptKey[r]] \in {"none", "dead"}

RequestInv ==
  /\ \A r \in Requests : AttemptAgrees(r) /\ ChainAgrees(r)
  /\ \A r \in late : attempt[r] # "none"
  /\ overdue \subseteq MayExpire

\* What a recovery pass knows of the rows it has left and of the one it is at.
PassInv ==
  \A q \in Recoverers :
    /\ \A r \in todo[q] : attempt[r] = "failed" => chain[attemptKey[r]] = "none"
    /\ rpc[q] \in {"attach", "finalize", "mark_failed"} => row[q] \in todo[q]
    /\ rpc[q] = "attach" => chain[attemptKey[row[q]]] # "none"
    /\ rpc[q] = "mark_failed" =>
         \/ chain[attemptKey[row[q]]] = "dead"
         \/ chain[attemptKey[row[q]]] = "none" /\ row[q] \in late

PaymentInv == RequestInv /\ HoldInv /\ StepInv /\ PassInv

\* What the step of a set M of calls does to the chain, if one of them does
\* anything to it: it takes no outcome back, it drops no transaction that a
\* call has just sent, and it signs only as the call that holds the key.
ChainOn(M) ==
  /\ chain' \in [Keys -> ChainStates]
  /\ \A k \in Keys :
       /\ chain[k] \in {"landed", "dead"} => chain'[k] = chain[k]
       /\ chain[k] # "none" => chain'[k] # "none"
       /\ chain[k] = "broadcast" => chain'[k] # "prepared"
       /\ chain'[k] = "dead" =>
            chain[k] = "dead" \/ \A c \in Callers : pc[c] = "submitted" => call[c] # k
       /\ chain[k] = "none" /\ chain'[k] # "none" /\ Merchant(RequestOf[k]) =>
            \E c \in M : Holds(c, k) /\ pc[c] = "sign"

\* ... and to a request and its attempt.
FailsRow(M, r) ==
  LET k == attemptKey[r]
  IN  /\ attempt[r] \in Unfinished /\ attempt'[r] = "failed" /\ request'[r] = "failed"
      /\ chain'[k] = chain[k]
      /\ \/ chain[k] = "dead"
         \/ chain[k] = "none" /\ (r \in late \/ \E c \in M : Holds(c, k))

RowOn(M, r) ==
  \/ /\ attempt'[r] = attempt[r]
     /\ \/ request'[r] = request[r]
        \/ attempt[r] = "none" /\ request'[r] \in {"pending", "expired", "cancelled"}
        \/ ~Merchant(r) /\ request'[r] \notin {"processing", "failed"}
        \/ Kind[r] = "charge" /\ r \in MayExpire /\ request'[r] = "expired"
  \/ /\ attempt[r] \in Unfinished \cup {"finalized"} /\ attempt'[r] = "submitted"
     /\ request'[r] = request[r]
  \/ /\ Merchant(r) /\ chain[attemptKey[r]] = "landed" /\ attemptKey[r] \in Keys
     /\ attempt'[r] = "finalized" /\ request'[r] = "completed"
  \/ FailsRow(M, r)

StepOn(M) ==
  /\ ChainOn(M)
  /\ \A r \in Requests : RowOn(M, r)
  /\ UNCHANGED <<attemptKey, late>>
  /\ overdue \subseteq overdue' /\ overdue' \subseteq MayExpire

LEMMA KeyOf ==
  ASSUME IInv, NEW r \in Requests, attempt[r] # "none"
  PROVE  attemptKey[r] \in Keys /\ RequestOf[attemptKey[r]] = r
BY DEF IInv, ClaimInv, KeyInv

LEMMA PaymentTypes ==
  ASSUME IInv
  PROVE  /\ request \in [Requests -> RequestStatuses] /\ overdue \subseteq Requests
         /\ attempt \in [Requests -> AttemptStatuses]
         /\ attemptKey \in [Requests -> Keys \cup {NoKey}] /\ NoKey \notin Keys
         /\ signed \subseteq Requests /\ late \subseteq Requests
         /\ chain \in [Keys -> ChainStates]
         /\ pc \in [Callers -> CallerSteps]
         /\ call \in [Callers -> Keys \cup {NoKey}]
         /\ rpc \in [Recoverers -> RecovererSteps]
         /\ row \in [Recoverers -> Requests \cup {NoRequest}]
         /\ todo \in [Recoverers -> SUBSET Requests]
BY PaymentAssumption DEF IInv, TypeOK, RequestsTypeOK, AttemptStatuses, ChainStates

\* Nothing is signed any more for a request whose payment failed, or whose
\* claim is five minutes old.
LEMMA Unsigned ==
  ASSUME IInv, PaymentInv, NEW M \in SUBSET Callers, ChainOn(M),
         NEW r \in Requests, attempt[r] = "failed" \/ r \in late,
         chain[attemptKey[r]] = "none"
  PROVE  chain'[attemptKey[r]] = "none"
<1> DEFINE k == attemptKey[r]
<1>1. attempt[r] # "none" /\ Merchant(r)
  BY DEF PaymentInv, RequestInv, AttemptAgrees
<1>2. k \in Keys /\ RequestOf[k] = r
  BY <1>1, KeyOf
<1> SUFFICES ASSUME chain'[k] # "none" PROVE FALSE
  OBVIOUS
<1>3. PICK c \in Callers : Holds(c, k) /\ pc[c] = "sign"
  BY <1>1, <1>2 DEF ChainOn
<1>4. r \notin late
  BY <1>2, <1>3 DEF PaymentInv, HoldInv
<1>5. attempt[r] \in Unfinished
  BY <1>1, <1>2, <1>3 DEF PaymentInv, StepInv, Placed, StepAt, Holds
<1> QED
  BY <1>4, <1>5 DEF Unfinished

LEMMA RequestsAgree ==
  ASSUME IInv, IInv', PaymentInv, NEW M \in SUBSET Callers, StepOn(M)
  PROVE  RequestInv'
<1>1. ASSUME NEW r \in Requests PROVE AttemptAgrees(r)'
  <2>1. AttemptAgrees(r) /\ RowOn(M, r) /\ attemptKey' = attemptKey
    BY DEF PaymentInv, RequestInv, StepOn
  <2>2. attempt[r] \in AttemptStatuses /\ attempt'[r] \in AttemptStatuses
    BY PaymentTypes DEF IInv, TypeOK, AttemptStatuses
  <2> QED
    BY <2>1, <2>2
    DEF AttemptAgrees, RowOn, FailsRow, ExpiredCharge, Merchant, AttemptStatuses, Unfinished,
        MerchantKinds
<1>2. ASSUME NEW r \in Requests PROVE ChainAgrees(r)'
  <2>1. ChainAgrees(r) /\ AttemptAgrees(r) /\ RowOn(M, r) /\ attemptKey' = attemptKey
    BY DEF PaymentInv, RequestInv, StepOn
  <2>2. attempt[r] # "none" => attemptKey[r] \in Keys
    BY KeyOf
  <2>3. \A k \in Keys : chain[k] \in {"landed", "dead"} => chain'[k] = chain[k]
    BY DEF StepOn, ChainOn
  <2>4. attempt[r] = "failed" /\ chain[attemptKey[r]] = "none" => chain'[attemptKey[r]] = "none"
    BY Unsigned DEF StepOn
  <2>5. Merchant(r) /\ request[r] = "completed" => attempt[r] # "none"
    BY <2>1 DEF AttemptAgrees
  <2>6. attempt'[r] = "finalized" => chain'[attemptKey'[r]] = "landed"
    BY <2>1, <2>2, <2>3 DEF ChainAgrees, RowOn, FailsRow
  <2>7. Merchant(r) /\ request'[r] = "completed" => chain'[attemptKey'[r]] = "landed"
    BY <2>1, <2>2, <2>3, <2>5 DEF ChainAgrees, RowOn, FailsRow
  <2>8. attempt'[r] = "failed" => chain'[attemptKey'[r]] \in {"none", "dead"}
    BY <2>1, <2>2, <2>3, <2>4 DEF ChainAgrees, RowOn, FailsRow
  <2> QED
    BY <2>6, <2>7, <2>8 DEF ChainAgrees, Merchant
<1>3. \A r \in late' : attempt'[r] # "none"
  <2>1. \A r \in late : attempt[r] # "none" /\ r \in Requests /\ RowOn(M, r)
    BY PaymentTypes DEF PaymentInv, RequestInv, StepOn
  <2>2. late' = late
    BY DEF StepOn
  <2> QED
    BY <2>1, <2>2 DEF RowOn, FailsRow
<1> QED
  BY <1>1, <1>2, <1>3 DEF RequestInv, StepOn

\* A call that does not move stays where it may be.
LEMMA StepStays ==
  ASSUME IInv, PaymentInv, NEW M \in SUBSET Callers, StepOn(M),
         NEW d \in Callers, d \notin M, pc[d] # "idle", UNCHANGED <<pc[d], call[d]>>
  PROVE  Placed(d)'
<1> DEFINE k == call[d]
           r == RequestOf[k]
<1>1. StepAt(pc[d], k) /\ k \in Keys /\ r \in Requests
  BY ConstantTypes DEF PaymentInv, StepInv, Placed, IInv, CallInv
<1>2. CASE ~Merchant(r)
  BY <1>1, <1>2 DEF Placed, StepAt, Merchant, StepOn
<1>3. CASE Merchant(r)
  <2>1. CASE pc[d] \notin Engaged
    BY <1>1, <1>3, <2>1 DEF Placed, StepAt, Merchant, StepOn, Engaged, Working
  <2>2. CASE pc[d] \in Engaged
    <3>1. Holds(d, k) /\ attemptKey[r] = k
      BY <1>1, <1>3, <2>2 DEF Holds, StepAt
    <3>2. chain[k] = "none" => chain'[k] = "none"
      <4> SUFFICES ASSUME chain[k] = "none", chain'[k] # "none" PROVE FALSE
        OBVIOUS
      <4>1. PICK c \in M : Holds(c, k)
        BY <1>1, <1>3 DEF StepOn, ChainOn
      <4> QED
        BY <1>1, <3>1, <4>1 DEF PaymentInv, HoldInv
    <3>3. chain[k] = "none" /\ attempt[r] \in Unfinished => attempt'[r] \in Unfinished
      <4> SUFFICES ASSUME chain[k] = "none", attempt[r] \in Unfinished,
                          attempt'[r] \notin Unfinished
                   PROVE  FALSE
        OBVIOUS
      <4>1. FailsRow(M, r)
        BY <1>1, <3>1 DEF StepOn, RowOn, Unfinished
      <4>2. r \in late \/ \E c \in M : Holds(c, k)
        BY <3>1, <4>1 DEF FailsRow
      <4> QED
        BY <1>1, <3>1, <4>2 DEF PaymentInv, HoldInv
    <3>4. /\ chain[k] = "landed" => chain'[k] = "landed"
          /\ chain[k] # "none" => chain'[k] # "none"
          /\ pc[d] = "submitted" => chain'[k] \in {"broadcast", "landed"}
      <4>1. chain'[k] \in ChainStates
        BY <1>1 DEF StepOn, ChainOn
      <4> QED
        BY <1>1, <1>3, <4>1 DEF StepOn, ChainOn, StepAt, ChainStates
    <3>5. attemptKey' = attemptKey /\ overdue \subseteq overdue'
      BY DEF StepOn
    <3>6. pc'[d] = pc[d] /\ call'[d] = k
      OBVIOUS
    <3> QED
      BY <1>1, <3>2, <3>3, <3>4, <3>5, <3>6 DEF Placed, StepAt, Merchant
  <2> QED
    BY <2>1, <2>2
<1> QED
  BY <1>2, <1>3

\* The calls of M go where they may be, and none gets hold of a key by it.
LEMMA CallsAgree ==
  ASSUME IInv, PaymentInv, NEW M \in SUBSET Callers, StepOn(M),
         \A d \in Callers \ M : UNCHANGED <<pc[d], call[d]>>,
         \A c \in M : Placed(c)',
         \A c \in M : \A k \in Keys : Holds(c, k)' => Holds(c, k)
  PROVE  StepInv' /\ HoldInv'
<1>1. StepInv'
  <2> SUFFICES ASSUME NEW d \in Callers PROVE Placed(d)'
    BY DEF StepInv
  <2>1. CASE d \in M
    BY <2>1
  <2>2. CASE d \notin M /\ pc[d] = "idle"
    BY <2>2 DEF Placed
  <2>3. CASE d \notin M /\ pc[d] # "idle"
    BY <2>3, StepStays
  <2> QED
    BY <2>1, <2>2, <2>3
<1>2. \A d \in Callers : \A k \in Keys : Holds(d, k)' => Holds(d, k)
  BY DEF Holds, Merchant
<1>3. \A k \in Keys : chain'[k] # "landed" => chain[k] # "landed"
  BY DEF StepOn, ChainOn
<1>4. HoldInv'
  BY <1>2, <1>3 DEF HoldInv, PaymentInv, StepOn
<1> QED
  BY <1>1, <1>4

\* The rows of a pass that does not move; what fails now has sent nothing.
LEMMA PassesAgree ==
  ASSUME IInv, PaymentInv, NEW M \in SUBSET Callers, StepOn(M), UNCHANGED recovererVars,
         \A r \in Requests : FailsRow(M, r) => chain[attemptKey[r]] = "none"
  PROVE  PassInv'
<1>1. UNCHANGED <<rpc, row, todo, attemptKey, late>>
  BY DEF recovererVars, StepOn
<1> SUFFICES ASSUME NEW q \in Recoverers
             PROVE  /\ \A r \in todo[q] : attempt'[r] = "failed" => chain'[attemptKey[r]] = "none"
                    /\ rpc[q] \in {"attach", "finalize", "mark_failed"} => row[q] \in todo[q]
                    /\ rpc[q] = "attach" => chain'[attemptKey[row[q]]] # "none"
                    /\ rpc[q] = "mark_failed" =>
                         \/ chain'[attemptKey[row[q]]] = "dead"
                         \/ chain'[attemptKey[row[q]]] = "none" /\ row[q] \in late
  BY <1>1 DEF PassInv
<1>2. ASSUME NEW r \in todo[q], attempt'[r] = "failed"
      PROVE  chain'[attemptKey[r]] = "none"
  <2>1. r \in Requests /\ RowOn(M, r)
    BY PaymentTypes DEF StepOn
  <2>2. CASE attempt[r] = "failed"
    BY <2>1, <2>2, Unsigned DEF PaymentInv, PassInv, StepOn
  <2>3. CASE attempt[r] # "failed"
    BY <1>2, <2>1, <2>3 DEF RowOn, FailsRow
  <2> QED
    BY <2>2, <2>3
<1>3. rpc[q] \in {"attach", "finalize", "mark_failed"} =>
        row[q] \in todo[q] /\ row[q] \in Requests /\ attemptKey[row[q]] \in Keys
  BY DEF PaymentInv, PassInv, IInv, RowInv
<1>4. rpc[q] = "attach" => chain'[attemptKey[row[q]]] # "none"
  BY <1>3 DEF PaymentInv, PassInv, StepOn, ChainOn
<1>5. ASSUME rpc[q] = "mark_failed"
      PROVE  \/ chain'[attemptKey[row[q]]] = "dead"
             \/ chain'[attemptKey[row[q]]] = "none" /\ row[q] \in late
  <2>1. CASE chain[attemptKey[row[q]]] = "dead"
    BY <1>3, <1>5, <2>1 DEF StepOn, ChainOn
  <2>2. CASE chain[attemptKey[row[q]]] = "none" /\ row[q] \in late
    BY <1>3, <1>5, <2>2, Unsigned DEF StepOn
  <2> QED
    BY <1>5, <2>1, <2>2 DEF PaymentInv, PassInv
<1> QED
  BY <1>2, <1>3, <1>4, <1>5

LEMMA SameChainOn ==
  ASSUME IInv, chain' = chain, NEW M
  PROVE  ChainOn(M)
BY PaymentTypes DEF ChainOn, ChainStates

LEMMA ResendOn ==
  ASSUME IInv, NEW k, Resend(k), NEW M
  PROVE  ChainOn(M)
BY PaymentTypes DEF ChainOn, ChainStates, Resend

LEMMA SameRows ==
  ASSUME PaymentInv, NEW M, ChainOn(M), UNCHANGED <<request, attempt, attemptKey, late, overdue>>
  PROVE  StepOn(M) /\ \A r \in Requests : ~FailsRow(M, r)
BY DEF StepOn, RowOn, FailsRow, PaymentInv, RequestInv, Unfinished

LEMMA CallAt ==
  ASSUME IInv, PaymentInv, NEW c \in Callers, pc[c] # "idle"
  PROVE  call[c] \in Keys /\ Pays(c) \in Requests /\ StepAt(pc[c], call[c])
BY ConstantTypes DEF IInv, CallInv, PaymentInv, StepInv, Placed, Pays

\* A call moves on.
LEMMA CallerGoes ==
  ASSUME IInv, IInv', PaymentInv, NEW c \in Callers, StepOn({c}), UNCHANGED recovererVars,
         \A r \in Requests : FailsRow({c}, r) => chain[attemptKey[r]] = "none",
         NEW step \in CallerSteps, Goto(c, step), pc[c] # "idle",
         step # "idle" => StepAt(step, call[c])',
         step \in Engaged /\ Merchant(Pays(c)) => pc[c] \in Engaged
  PROVE  PaymentInv'
<1>1. /\ pc'[c] = step /\ (step # "idle" => call'[c] = call[c])
      /\ \A d \in Callers \ {c} : pc'[d] = pc[d] /\ call'[d] = call[d]
  BY GotoFacts, TypeParts DEF IInv
<1>2. Placed(c)'
  BY <1>1 DEF Placed
<1>3. \A k \in Keys : Holds(c, k)' => Holds(c, k)
  BY <1>1 DEF Holds, Merchant, Pays, Engaged, Working
<1>4. StepInv' /\ HoldInv'
  BY <1>1, <1>2, <1>3, CallsAgree
<1>5. RequestInv' /\ PassInv'
  BY RequestsAgree, PassesAgree
<1> QED
  BY <1>4, <1>5 DEF PaymentInv

LEMMA QuietGoes ==
  ASSUME IInv, IInv', PaymentInv, NEW c \in Callers,
         UNCHANGED <<request, attempt, attemptKey, late, overdue, chain, recovererVars>>,
         NEW step \in CallerSteps, Goto(c, step), pc[c] # "idle",
         step # "idle" => StepAt(step, call[c]),
         step \in Engaged /\ Merchant(Pays(c)) => pc[c] \in Engaged
  PROVE  PaymentInv'
<1>1. StepOn({c}) /\ \A r \in Requests : ~FailsRow({c}, r)
  BY SameChainOn, SameRows
<1>2. step # "idle" => call'[c] = call[c]
  BY GotoFacts, TypeParts DEF IInv
<1>3. step # "idle" => StepAt(step, call[c])'
  BY <1>2 DEF StepAt, Merchant
<1> QED
  BY <1>1, <1>3, CallerGoes

\* A merchant's call that throws looks at its attempt; any other ends.
LEMMA ThrownAt ==
  ASSUME IInv, PaymentInv, NEW c \in Callers, pc[c] \in Working
  PROVE  /\ Thrown(c) \in CallerSteps /\ pc[c] \in Engaged /\ pc[c] # "idle"
         /\ Thrown(c) # "idle" => StepAt(Thrown(c), call[c])
<1>1. StepAt(pc[c], call[c]) /\ pc[c] \in Engaged
  BY CallAt DEF Working, Engaged
<1> QED
  BY <1>1 DEF Thrown, StepAt, Pays, CallerSteps, Engaged, Working

LEMMA QuietCalls ==
  ASSUME IInv, IInv', PaymentInv, NEW c \in Callers,
         \/ AssertAvailableBalance(c) \/ LookUp(c) \/ RecordSignature(c) \/ CheckSaved(c)
         \/ Confirm(c) \/ FailUnsubmitted(c) \/ CheckRow(c)
  PROVE  PaymentInv'
<1>1. UNCHANGED <<request, attempt, attemptKey, late, overdue, chain, recovererVars>>
      /\ pc[c] # "idle"
  BY DEF AssertAvailableBalance, LookUp, RecordSignature, CheckSaved, Confirm, FailUnsubmitted,
         CheckRow, Others, Money
<1>2. call[c] \in Keys /\ StepAt(pc[c], call[c]) /\ chain[call[c]] \in ChainStates
  BY <1>1, CallAt, PaymentTypes
<1>3. PICK step : Goto(c, step) /\ step \in CallerSteps /\ (step # "idle" => StepAt(step, call[c]))
                  /\ (step \in Engaged /\ Merchant(Pays(c)) => pc[c] \in Engaged)
  <2>1. CASE AssertAvailableBalance(c)
    <3>1. PICK step \in {"look_up", "idle"} : Goto(c, step)
      BY <2>1 DEF AssertAvailableBalance
    <3>2. ~Merchant(Pays(c))
      BY <2>1 DEF AssertAvailableBalance, IInv, CallInv
    <3> QED
      BY <3>1, <3>2 DEF CallerSteps, StepAt, Pays
  <2>2. CASE LookUp(c)
    <3> DEFINE step == IF chain[call[c]] = "none" THEN "sign" ELSE "attach"
    <3>1. Goto(c, step) /\ pc[c] = "look_up"
      BY <2>2 DEF LookUp
    <3>2. step \in CallerSteps /\ pc[c] \in Engaged /\ StepAt(step, call[c])
      BY <1>2, <3>1 DEF CallerSteps, StepAt, Engaged, Working
    <3> QED
      BY <3>1, <3>2
  <2>3. CASE RecordSignature(c)
    <3> DEFINE step == IF pc[c] = "attach" THEN "recover" ELSE "broadcast"
    <3>1. Goto(c, step) /\ pc[c] \in {"attach", "prepared"}
      BY <2>3 DEF RecordSignature
    <3>2. step \in CallerSteps /\ pc[c] \in Engaged /\ StepAt(step, call[c])
      BY <1>2, <3>1 DEF CallerSteps, StepAt, Engaged, Working
    <3> QED
      BY <3>1, <3>2
  <2>4. CASE CheckSaved(c)
    <3>1. pc[c] = "unsaved" /\ Goto(c, IF chain[call[c]] = "none" THEN "failed" ELSE Thrown(c))
      BY <2>4 DEF CheckSaved
    <3>2. "failed" \in CallerSteps /\ pc[c] \in Working /\ pc[c] \in Engaged
          /\ (chain[call[c]] = "none" => StepAt("failed", call[c]))
      BY <1>2, <3>1 DEF CallerSteps, StepAt, Engaged, Working
    <3> QED
      BY <3>1, <3>2, ThrownAt
  <2>5. CASE Confirm(c)
    <3>1. pc[c] = "confirm"
          /\ Goto(c, IF chain[call[c]] = "landed" THEN "completed" ELSE Thrown(c))
      BY <2>5 DEF Confirm
    <3>2. "completed" \in CallerSteps /\ pc[c] \in Working /\ pc[c] \in Engaged
          /\ StepAt("completed", call[c])
      BY <1>2, <3>1 DEF CallerSteps, StepAt, Engaged, Working
    <3> QED
      BY <3>1, <3>2, ThrownAt
  <2>6. CASE FailUnsubmitted(c)
    <3>1. PICK step \in {"check_row", "idle"} : Goto(c, step) /\ pc[c] = "unsubmitted"
      BY <2>6 DEF FailUnsubmitted
    <3>2. step \in CallerSteps /\ pc[c] \in Engaged /\ (step # "idle" => StepAt(step, call[c]))
      BY <1>2, <3>1 DEF CallerSteps, StepAt, Engaged, Working
    <3> QED
      BY <3>1, <3>2
  <2>7. CASE CheckRow(c)
    <3> DEFINE step == IF chain[attemptKey[Pays(c)]] = "none" THEN "mark_failed" ELSE "idle"
    <3>1. Goto(c, step) /\ pc[c] = "check_row"
      BY <2>7 DEF CheckRow
    <3>2. attemptKey[Pays(c)] = call[c]
      BY <1>2, <3>1 DEF StepAt, Pays, Engaged
    <3>3. step \in CallerSteps /\ pc[c] \in Engaged /\ (step # "idle" => StepAt(step, call[c]))
      BY <1>2, <3>1, <3>2 DEF CallerSteps, StepAt, Engaged, Working
    <3> QED
      BY <3>1, <3>3
  <2> QED
    BY <2>1, <2>2, <2>3, <2>4, <2>5, <2>6, <2>7
<1> QED
  BY <1>1, <1>3, QuietGoes

LEMMA CallFaultsAgree ==
  ASSUME IInv, IInv', PaymentInv, NEW c \in Callers, SignFails(c) \/ Throw(c) \/ CallEnds(c)
  PROVE  PaymentInv'
<1>1. UNCHANGED <<request, attempt, attemptKey, late, overdue, chain, recovererVars>>
      /\ pc[c] # "idle"
  BY DEF SignFails, Throw, CallEnds, Money
<1>2. StepAt(pc[c], call[c])
  BY <1>1, CallAt
<1>3. CASE SignFails(c)
  <2>1. pc[c] = "sign" /\ Goto(c, "unsaved")
    BY <1>3 DEF SignFails
  <2>2. "unsaved" \in CallerSteps /\ pc[c] \in Engaged /\ StepAt("unsaved", call[c])
    BY <1>2, <2>1 DEF CallerSteps, StepAt, Engaged, Working
  <2> QED
    BY <1>1, <2>1, <2>2, QuietGoes
<1>4. CASE Throw(c)
  <2>1. pc[c] \in Working /\ Goto(c, Thrown(c))
    BY <1>4 DEF Throw, Working
  <2> QED
    BY <1>1, <2>1, ThrownAt, QuietGoes
<1>5. CASE CallEnds(c)
  <2>1. Goto(c, "idle") /\ "idle" \in CallerSteps /\ "idle" \notin Engaged
    BY <1>5 DEF CallEnds, CallerSteps, Engaged, Working
  <2> QED
    BY <1>1, <2>1, QuietGoes
<1> QED
  BY <1>3, <1>4, <1>5

LEMMA RecoverTransferAgrees ==
  ASSUME IInv, IInv', PaymentInv, NEW c \in Callers, RecoverTransfer(c)
  PROVE  PaymentInv'
<1>1. /\ UNCHANGED <<request, attempt, attemptKey, late, overdue, recovererVars>>
      /\ Resend(call[c]) /\ pc[c] = "recover"
  BY DEF RecoverTransfer, Others, Money
<1>2. StepAt(pc[c], call[c]) /\ pc[c] \in Working
  BY <1>1, CallAt DEF Working
<1>3. StepOn({c}) /\ \A r \in Requests : ~FailsRow({c}, r)
  BY <1>1, ResendOn, SameRows
<1>4. CASE Merchant(Pays(c))
  <2>1. Goto(c, "completed")
    BY <1>1, <1>2, <1>4 DEF RecoverTransfer, StepAt, Pays
  <2>2. "completed" \in CallerSteps /\ pc[c] \in Engaged /\ call'[c] = call[c]
    BY <1>2, <2>1, GotoFacts, TypeParts DEF IInv, CallerSteps, Engaged
  <2>3. StepAt("completed", call[c])'
    BY <1>1, <1>2, <2>2 DEF StepAt, Engaged, Working
  <2> QED
    BY <1>1, <1>3, <2>1, <2>2, <2>3, CallerGoes
<1>5. CASE ~Merchant(Pays(c))
  <2>1. PICK step \in {"completed", "failed", "idle"} : Goto(c, step)
    BY <1>5 DEF RecoverTransfer, Thrown
  <2>2. step \in CallerSteps /\ (step # "idle" => call'[c] = call[c])
    BY <2>1, GotoFacts, TypeParts DEF IInv, CallerSteps
  <2>3. step # "idle" => StepAt(step, call[c])'
    BY <1>5, <2>1, <2>2 DEF StepAt, Pays, Merchant
  <2> QED
    BY <1>1, <1>3, <1>5, <2>1, <2>2, <2>3, CallerGoes
<1> QED
  BY <1>4, <1>5

LEMMA BroadcastAgrees ==
  ASSUME IInv, IInv', PaymentInv, NEW c \in Callers, Broadcast(c)
  PROVE  PaymentInv'
<1> DEFINE k == call[c]
<1>1. /\ UNCHANGED <<request, attempt, attemptKey, late, overdue, recovererVars>>
      /\ Resend(k) /\ pc[c] = "broadcast"
  BY DEF Broadcast, Others, Money
<1>2. /\ k \in Keys /\ StepAt(pc[c], k) /\ pc[c] \in Working /\ pc[c] \in Engaged
      /\ chain[k] \in ChainStates
  BY <1>1, CallAt, PaymentTypes DEF Working, Engaged
<1>3. StepOn({c}) /\ \A r \in Requests : ~FailsRow({c}, r)
  BY <1>1, ResendOn, SameRows
<1>4. CASE chain[k] = "dead"
  <2>1. Goto(c, Thrown(c))
    BY <1>4 DEF Broadcast
  <2>2. Thrown(c) # "idle" => Thrown(c) = "unsubmitted" /\ Merchant(RequestOf[k])
    BY DEF Thrown, Pays
  <2>3. Thrown(c) \in CallerSteps /\ (Thrown(c) # "idle" => call'[c] = k)
    BY <2>1, ThrownStep, GotoFacts, TypeParts DEF IInv
  <2>4. CASE Thrown(c) = "idle"
    <3>1. "idle" \in CallerSteps /\ Goto(c, "idle")
      BY <2>1, <2>3, <2>4
    <3> QED
      BY <1>1, <1>2, <1>3, <3>1, CallerGoes
  <2>5. CASE Thrown(c) # "idle"
    <3>1. "unsubmitted" \in CallerSteps /\ Goto(c, "unsubmitted") /\ call'[c] = k
      BY <2>1, <2>2, <2>3, <2>5
    <3>2. StepAt("unsubmitted", call[c])'
      BY <1>1, <1>2, <2>2, <2>5, <3>1 DEF StepAt, Merchant, Engaged
    <3> QED
      BY <1>1, <1>2, <1>3, <3>1, <3>2, CallerGoes
  <2> QED
    BY <2>4, <2>5
<1>5. CASE chain[k] # "dead"
  <2>1. Goto(c, "submitted") /\ "submitted" \in CallerSteps
    BY <1>5 DEF Broadcast, CallerSteps
  <2>2. call'[c] = k
    BY <2>1, GotoFacts, TypeParts DEF IInv
  <2>3. Merchant(RequestOf[k]) => chain'[k] \in {"broadcast", "landed"}
    BY <1>1, <1>2, <1>5, PaymentTypes DEF StepAt, Resend, ChainStates
  <2>4. StepAt("submitted", call[c])'
    BY <1>1, <1>2, <2>2, <2>3 DEF StepAt, Merchant, Engaged, Working
  <2> QED
    BY <1>1, <1>2, <1>3, <2>1, <2>4, CallerGoes
<1> QED
  BY <1>4, <1>5

LEMMA SignAgrees ==
  ASSUME IInv, IInv', PaymentInv, NEW c \in Callers, Sign(c)
  PROVE  PaymentInv'
<1> DEFINE k == call[c]
<1>1. UNCHANGED <<request, attempt, attemptKey, late, overdue, recovererVars>> /\ pc[c] = "sign"
  BY DEF Sign, Others, Money
<1>2. /\ k \in Keys /\ StepAt(pc[c], k) /\ pc[c] \in Engaged
      /\ Merchant(RequestOf[k]) => Holds(c, k)
  BY <1>1, CallAt DEF Working, Engaged, Holds
<1>3. CASE chain[k] = "none"
  <2>1. chain' = [chain EXCEPT ![k] = "prepared"] /\ Goto(c, "prepared") /\ "prepared" \in CallerSteps
    BY <1>3 DEF Sign, CallerSteps
  <2>2. call'[c] = k
    BY <2>1, GotoFacts, TypeParts DEF IInv
  <2>3. ChainOn({c})
    BY <1>1, <1>2, <1>3, <2>1, PaymentTypes DEF ChainOn, ChainStates
  <2>4. StepOn({c}) /\ \A r \in Requests : ~FailsRow({c}, r)
    BY <1>1, <2>3, SameRows
  <2>5. StepAt("prepared", call[c])'
    BY <1>1, <1>2, <2>1, <2>2, PaymentTypes DEF StepAt, Merchant, Engaged, Working
  <2> QED
    BY <1>1, <1>2, <2>1, <2>4, <2>5, CallerGoes
<1>4. CASE chain[k] # "none"
  <2>1. chain' = chain /\ Goto(c, "unsaved") /\ "unsaved" \in CallerSteps
    BY <1>4 DEF Sign, CallerSteps
  <2>2. StepAt("unsaved", k)
    BY <1>1, <1>2 DEF StepAt, Engaged, Working
  <2> QED
    BY <1>1, <1>2, <2>1, <2>2, QuietGoes
<1> QED
  BY <1>3, <1>4

\* What a merchant's request and attempt do when one call's transaction runs.
LEMMA OnSubmittedAgrees ==
  ASSUME IInv, IInv', PaymentInv, NEW c \in Callers, OnSubmitted(c)
  PROVE  PaymentInv'
<1> DEFINE k == call[c]
           r == Pays(c)
<1>1. UNCHANGED <<request, attemptKey, late, overdue, chain, recovererVars>>
      /\ pc[c] = "submitted" /\ Goto(c, "confirm")
  BY DEF OnSubmitted, Others
<1>2. /\ k \in Keys /\ r \in Requests /\ StepAt(pc[c], k) /\ pc[c] \in Engaged
      /\ call'[c] = k /\ "confirm" \in CallerSteps
  BY <1>1, CallAt, GotoFacts, TypeParts DEF IInv, Working, Engaged, CallerSteps
<1>3. Merchant(r) => attempt[r] \in Unfinished \cup {"finalized"}
  <2> SUFFICES ASSUME Merchant(r) PROVE attempt[r] \in Unfinished \cup {"finalized"}
    OBVIOUS
  <2>1. attemptKey[r] = k /\ chain[k] \in {"broadcast", "landed"}
    BY <1>1, <1>2 DEF StepAt, Pays, Engaged
  <2>2. attempt[r] # "failed" /\ attempt[r] # "none"
    BY <1>2, <2>1, PaymentTypes DEF PaymentInv, RequestInv, ChainAgrees, AttemptAgrees
  <2> QED
    BY <1>2, <2>2, PaymentTypes DEF AttemptStatuses
<1>4. \A x \in Requests : RowOn({c}, x) /\ ~FailsRow({c}, x)
  <2>1. attempt' = IF Merchant(r) THEN [attempt EXCEPT ![r] = "submitted"] ELSE attempt
    BY DEF OnSubmitted
  <2> QED
    BY <1>1, <1>2, <1>3, <2>1, PaymentTypes DEF RowOn, FailsRow, Unfinished
<1>5. StepOn({c})
  BY <1>1, <1>4, SameChainOn DEF StepOn, PaymentInv, RequestInv
<1>6. StepAt("confirm", call[c])'
  BY <1>1, <1>2 DEF StepAt, Merchant, Engaged, Working
<1> QED
  BY <1>1, <1>2, <1>4, <1>5, <1>6, CallerGoes

\* A call that ends, or looks at its attempt, after it has changed rows.
LEMMA CallerLeaves ==
  ASSUME IInv, IInv', PaymentInv, NEW c \in Callers, StepOn({c}), UNCHANGED recovererVars,
         \A r \in Requests : FailsRow({c}, r) => chain[attemptKey[r]] = "none",
         pc[c] \in Engaged, Goto(c, "idle") \/ (pc[c] \in Working /\ Goto(c, Thrown(c)))
  PROVE  PaymentInv'
<1>1. pc[c] # "idle" /\ "idle" \in CallerSteps /\ "unsubmitted" \in CallerSteps
  BY DEF Engaged, Working, CallerSteps
<1>2. CASE Goto(c, "idle")
  BY <1>1, <1>2, CallerGoes
<1>3. CASE Goto(c, "unsubmitted") /\ Merchant(Pays(c))
  <2>1. call'[c] = call[c] /\ StepAt(pc[c], call[c])
    BY <1>1, <1>3, GotoFacts, TypeParts, CallAt DEF IInv
  <2>2. StepAt("unsubmitted", call[c])'
    BY <1>3, <2>1 DEF StepAt, StepOn, Pays, Merchant, Engaged, Working
  <2> QED
    BY <1>1, <1>3, <2>2, CallerGoes
<1> QED
  BY <1>2, <1>3 DEF Thrown

\* A row that is finalized, or not; the transaction is the same for call and pass.
LEMMA FinalizeRows ==
  ASSUME IInv, PaymentInv, NEW M \in SUBSET Callers, NEW k \in Keys, chain[k] = "landed",
         attemptKey[RequestOf[k]] = k, Merchant(RequestOf[k]), FinalizeMerchantPayment(k),
         UNCHANGED <<attemptKey, late, overdue, chain>>
  PROVE  StepOn(M) /\ \A r \in Requests : ~FailsRow(M, r)
<1>1. RequestOf[k] \in Requests
  BY ConstantTypes
<1>2. \A r \in Requests : RowOn(M, r) /\ ~FailsRow(M, r)
  BY <1>1, PaymentTypes DEF FinalizeMerchantPayment, RowOn, FailsRow, SetRequest, Unfinished
<1> QED
  BY <1>2, SameChainOn DEF StepOn, PaymentInv, RequestInv

\* A row that is failed, or not.
LEMMA FailRows ==
  ASSUME IInv, PaymentInv, NEW M \in SUBSET Callers, NEW r \in Requests,
         MarkMerchantPaymentFailed(r), UNCHANGED <<attemptKey, late, overdue, chain>>,
         \/ chain[attemptKey[r]] = "dead"
         \/ chain[attemptKey[r]] = "none" /\ (r \in late \/ \E c \in M : Holds(c, attemptKey[r]))
  PROVE  StepOn(M) /\ \A x \in Requests : FailsRow(M, x) => x = r
<1>1. CASE CanFail(r)
  <2>1. attempt' = [attempt EXCEPT ![r] = "failed"] /\ request' = [request EXCEPT ![r] = "failed"]
        /\ attempt[r] \in Unfinished
    BY <1>1 DEF MarkMerchantPaymentFailed, SetRequest, CanFail
  <2>2. \A x \in Requests : RowOn(M, x) /\ (FailsRow(M, x) => x = r)
    BY <2>1, PaymentTypes DEF RowOn, FailsRow, Unfinished
  <2> QED
    BY <2>2, SameChainOn DEF StepOn, PaymentInv, RequestInv
<1>2. CASE ~CanFail(r)
  BY <1>2, SameChainOn, SameRows DEF MarkMerchantPaymentFailed
<1> QED
  BY <1>1, <1>2

LEMMA FinalizeAgrees ==
  ASSUME IInv, IInv', PaymentInv, NEW c \in Callers, Finalize(c)
  PROVE  PaymentInv'
<1> DEFINE k == call[c]
           r == Pays(c)
<1>1. UNCHANGED <<attemptKey, late, overdue, chain, recovererVars>> /\ pc[c] = "completed"
  BY DEF Finalize, Others
<1>2. /\ k \in Keys /\ r \in Requests /\ StepAt(pc[c], k)
      /\ pc[c] \in Working /\ pc[c] \in Engaged
  BY <1>1, CallAt DEF Working, Engaged
<1>3. StepOn({c}) /\ \A x \in Requests : ~FailsRow({c}, x)
  <2>1. CASE Merchant(r)
    <3>1. FinalizeMerchantPayment(k) /\ attemptKey[r] = k /\ chain[k] = "landed"
      BY <1>1, <1>2, <2>1 DEF Finalize, StepAt, Pays, IInv, CallInv
    <3> QED
      BY <1>1, <1>2, <2>1, <3>1, FinalizeRows DEF Pays
  <2>2. CASE ~Merchant(r)
    <3>1. FinalizeConsumerPayment(k)
      BY <2>2 DEF Finalize
    <3>2. attempt' = attempt
      BY <3>1 DEF FinalizeConsumerPayment
    <3>3. \A x \in Requests : request'[x] = request[x] \/ (x = r /\ request'[x] = "completed")
      BY <1>2, <3>1, PaymentTypes DEF FinalizeConsumerPayment, SetRequest, Pays
    <3>4. \A x \in Requests : RowOn({c}, x) /\ ~FailsRow({c}, x)
      BY <2>2, <3>2, <3>3 DEF RowOn, FailsRow, Unfinished
    <3> QED
      BY <1>1, <3>4, SameChainOn DEF StepOn, PaymentInv, RequestInv
  <2> QED
    BY <2>1, <2>2
<1>4. Goto(c, "idle") \/ Goto(c, Thrown(c))
  BY DEF Finalize
<1> QED
  BY <1>1, <1>2, <1>3, <1>4, CallerLeaves

LEMMA MarkFailedAgrees ==
  ASSUME IInv, IInv', PaymentInv, NEW c \in Callers, MarkFailed(c)
  PROVE  PaymentInv'
<1> DEFINE k == call[c]
           r == Pays(c)
<1>1. UNCHANGED <<attemptKey, late, overdue, chain, recovererVars>>
      /\ pc[c] \in {"failed", "mark_failed"}
  BY DEF MarkFailed, Others
<1>2. k \in Keys /\ r \in Requests /\ StepAt(pc[c], k) /\ pc[c] \in Engaged
  BY <1>1, CallAt DEF Working, Engaged
<1>3. StepOn({c}) /\ \A x \in Requests : FailsRow({c}, x) => chain[attemptKey[x]] = "none"
  <2>1. CASE Merchant(r)
    <3>1. /\ MarkMerchantPaymentFailed(r) /\ attemptKey[r] = k /\ chain[k] = "none"
          /\ Holds(c, k)
      BY <1>1, <1>2, <2>1 DEF MarkFailed, StepAt, Pays, Holds
    <3> QED
      BY <1>1, <1>2, <3>1, FailRows
  <2>2. CASE ~Merchant(r)
    BY <1>1, <2>2, SameChainOn, SameRows DEF MarkFailed, Money
  <2> QED
    BY <2>1, <2>2
<1>4. Goto(c, "idle") \/ (pc[c] \in Working /\ Goto(c, Thrown(c)))
  BY DEF MarkFailed, Working
<1> QED
  BY <1>1, <1>2, <1>3, <1>4, CallerLeaves

LEMMA ExecuteAgrees ==
  ASSUME IInv, IInv', PaymentInv, NEW c \in Callers, NEW k \in Keys, Execute(c, k)
  PROVE  PaymentInv'
<1>1. UNCHANGED <<request, attempt, attemptKey, late, overdue, chain, recovererVars>>
  BY DEF Execute, Others, Money
<1>2. StepOn({c}) /\ \A r \in Requests : ~FailsRow({c}, r)
  BY <1>1, SameChainOn, SameRows
<1>3. /\ call'[c] = k /\ pc'[c] \in {"expire", "claim", "check_balance"}
      /\ pc'[c] = "expire" => RequestOf[k] \in overdue
      /\ pc'[c] = "claim" => Merchant(RequestOf[k])
      /\ \A d \in Callers \ {c} : pc'[d] = pc[d] /\ call'[d] = call[d]
  BY PaymentTypes DEF Execute
<1>4. Placed(c)'
  BY <1>1, <1>3 DEF Placed, StepAt, Merchant, Engaged, Working
<1>5. \A j \in Keys : ~Holds(c, j)'
  BY <1>3 DEF Holds, Engaged, Working
<1>6. StepInv' /\ HoldInv'
  BY <1>2, <1>3, <1>4, <1>5, CallsAgree
<1> QED
  BY <1>1, <1>2, <1>6, RequestsAgree, PassesAgree DEF PaymentInv

\* An invoice is withdrawn while it is pending; what else expires is a charge
\* or a customer's request.
LEMMA WithdrawRows ==
  ASSUME IInv, PaymentInv, NEW M, NEW r \in Requests, NEW s \in {"expired", "cancelled"},
         Withdraw(r, s), UNCHANGED <<attemptVars, late, chain>>
  PROVE  StepOn(M) /\ \A x \in Requests : ~FailsRow(M, x)
<1>1. request' = [request EXCEPT ![r] = s] /\ request[r] = "pending" /\ overdue' = overdue
  BY DEF Withdraw, SetRequest
<1>2. UNCHANGED <<attempt, attemptKey>>
  BY DEF attemptVars
<1>3. attempt[r] = "none"
  BY <1>1, PaymentTypes DEF PaymentInv, RequestInv, AttemptAgrees, ExpiredCharge, AttemptStatuses,
     Unfinished
<1>4. \A x \in Requests : RowOn(M, x) /\ ~FailsRow(M, x)
  BY <1>1, <1>2, <1>3, PaymentTypes DEF RowOn, FailsRow, Unfinished
<1> QED
  BY <1>1, <1>2, <1>4, SameChainOn DEF StepOn, PaymentInv, RequestInv

LEMMA ExpireAgrees ==
  ASSUME IInv, IInv', PaymentInv, NEW c \in Callers, Expire(c)
  PROVE  PaymentInv'
<1> DEFINE r == Pays(c)
<1>1. /\ UNCHANGED <<attemptVars, late, chain, recovererVars>>
      /\ pc[c] = "expire" /\ Goto(c, "idle") /\ ExpireResolved(r)
  BY DEF Expire
<1>2. r \in Requests /\ r \in MayExpire
  BY <1>1, CallAt DEF StepAt, Pays, PaymentInv, RequestInv
<1>3. StepOn({c}) /\ \A x \in Requests : ~FailsRow({c}, x)
  <2>1. CASE Kind[r] = "invoice" /\ request[r] = "pending"
    BY <1>1, <1>2, <2>1, WithdrawRows DEF ExpireResolved
  <2>2. CASE Kind[r] = "invoice" /\ request[r] # "pending"
    BY <1>1, <2>2, SameChainOn, SameRows DEF ExpireResolved, requestVars, attemptVars
  <2>3. CASE Kind[r] # "invoice"
    <3>1. request' = [request EXCEPT ![r] = "expired"] /\ UNCHANGED <<attempt, attemptKey, overdue>>
      BY <1>1, <2>3 DEF ExpireResolved, SetRequest, attemptVars
    <3>2. Merchant(r) => Kind[r] = "charge"
      BY <2>3 DEF Merchant, MerchantKinds
    <3>3. \A x \in Requests : RowOn({c}, x) /\ ~FailsRow({c}, x)
      BY <1>2, <3>1, <3>2, PaymentTypes DEF RowOn, FailsRow, Unfinished
    <3> QED
      BY <1>1, <3>1, <3>3, SameChainOn DEF StepOn, PaymentInv, RequestInv
  <2> QED
    BY <2>1, <2>2, <2>3
<1> QED
  BY <1>1, <1>3, CallerGoes DEF CallerSteps, Engaged, Working

\* The claim: nobody was engaged with the request, and nothing is signed for it.
LEMMA ClaimAgrees ==
  ASSUME IInv, IInv', PaymentInv, NEW c \in Callers, ClaimMerchantPayment(c)
  PROVE  PaymentInv'
<1> DEFINE k == call[c]
           r == Pays(c)
<1>1. pc[c] = "claim" /\ UNCHANGED <<late, overdue, chain, recovererVars>>
  BY DEF ClaimMerchantPayment, Others
<1>2. k \in Keys /\ r \in Requests /\ Merchant(r) /\ r = RequestOf[k]
  BY <1>1, CallAt DEF StepAt, Pays
<1>3. CASE ~CanClaim(k)
  <2>1. UNCHANGED <<request, attempt, attemptKey>>
    BY <1>3 DEF ClaimMerchantPayment
  <2>2. CASE attemptKey[r] = k /\ attempt[r] = "finalized"
    <3>1. Goto(c, "look_up") /\ "look_up" \in CallerSteps
      BY <2>2 DEF ClaimMerchantPayment, CallerSteps
    <3>2. chain[k] = "landed"
      BY <1>2, <2>2 DEF PaymentInv, RequestInv, ChainAgrees
    <3>3. StepOn({c}) /\ \A x \in Requests : ~FailsRow({c}, x)
      BY <1>1, <2>1, SameChainOn, SameRows
    <3>4. /\ pc'[c] = "look_up" /\ call'[c] = k
          /\ \A d \in Callers \ {c} : pc'[d] = pc[d] /\ call'[d] = call[d]
      BY <3>1, GotoFacts, TypeParts DEF IInv
    <3>5. Placed(c)'
      BY <1>1, <1>2, <2>1, <2>2, <3>2, <3>4 DEF Placed, StepAt, Merchant
    <3>6. StepInv'
      <4> SUFFICES ASSUME NEW d \in Callers PROVE Placed(d)'
        BY DEF StepInv
      <4>1. CASE d # c /\ pc[d] = "idle"
        BY <3>4, <4>1 DEF Placed
      <4>2. CASE d # c /\ pc[d] # "idle"
        BY <3>3, <3>4, <4>2, StepStays
      <4> QED
        BY <3>5, <4>1, <4>2
    <3>7. \A d \in Callers : \A j \in Keys : Holds(d, j)' => Holds(d, j) \/ j = k
      BY <3>4 DEF Holds, Merchant
    <3>8. HoldInv'
      BY <1>1, <3>2, <3>7 DEF HoldInv, PaymentInv
    <3> QED
      BY <1>1, <3>3, <3>6, <3>8, RequestsAgree, PassesAgree DEF PaymentInv
  <2>3. CASE ~(attemptKey[r] = k /\ attempt[r] = "finalized")
    <3>1. Goto(c, "idle") /\ "idle" \in CallerSteps /\ "idle" \notin Engaged
      BY <1>3, <2>3 DEF ClaimMerchantPayment, CallerSteps, Engaged, Working
    <3> QED
      BY <1>1, <2>1, <3>1, QuietGoes
  <2> QED
    BY <2>2, <2>3
<1>4. CASE CanClaim(k)
  <2>1. /\ attemptKey[r] = NoKey /\ request[r] = "pending"
        /\ attempt' = [attempt EXCEPT ![r] = "processing"]
        /\ attemptKey' = [attemptKey EXCEPT ![r] = k]
        /\ request' = [request EXCEPT ![r] = "processing"]
        /\ Goto(c, "look_up")
    BY <1>4 DEF ClaimMerchantPayment, CanClaim, Pays, SetRequest
  <2>2. /\ pc'[c] = "look_up" /\ call'[c] = k
        /\ \A d \in Callers \ {c} : pc'[d] = pc[d] /\ call'[d] = call[d]
    BY <2>1, GotoFacts, TypeParts DEF IInv, CallerSteps
  <2>3. attempt[r] = "none" /\ chain[k] = "none" /\ r \notin late
    <3>1. attempt[r] = "none"
      BY <1>2, <2>1, PaymentTypes, KeyOf
    <3>2. chain[k] = "none"
      BY <1>2, <2>1, PaymentTypes DEF IInv, OnePaymentPerRequest
    <3> QED
      BY <3>1, <3>2 DEF PaymentInv, RequestInv
  <2>4. \A d \in Callers : \A j \in Keys : Holds(d, j) => RequestOf[j] # r
    <3> SUFFICES ASSUME NEW d \in Callers, NEW j \in Keys, Holds(d, j), RequestOf[j] = r
                 PROVE  FALSE
      OBVIOUS
    <3>1. pc[d] # "idle" /\ call[d] = j
      BY DEF Holds, Engaged, Working
    <3>2. attemptKey[r] = j
      BY <1>2, <3>1, CallAt DEF StepAt, Holds
    <3> QED
      BY <2>1, <3>2, PaymentTypes
  <2>5. \A x \in Requests \ {r} : /\ attempt'[x] = attempt[x] /\ attemptKey'[x] = attemptKey[x]
                                  /\ request'[x] = request[x]
    BY <1>2, <2>1, PaymentTypes
  <2>6. attempt'[r] = "processing" /\ attemptKey'[r] = k /\ request'[r] = "processing"
    BY <1>2, <2>1, PaymentTypes
  <2>7. RequestInv'
    <3>1. \A x \in Requests : AttemptAgrees(x)'
      BY <1>2, <2>5, <2>6 DEF PaymentInv, RequestInv, AttemptAgrees, ExpiredCharge, Merchant
    <3>2. \A x \in Requests : ChainAgrees(x)'
      BY <1>1, <1>2, <2>5, <2>6 DEF PaymentInv, RequestInv, ChainAgrees, Merchant
    <3> QED
      BY <1>1, <2>3, <2>5, <2>6, <3>1, <3>2, PaymentTypes DEF PaymentInv, RequestInv
  <2>8. StepInv'
    <3> SUFFICES ASSUME NEW d \in Callers PROVE Placed(d)'
      BY DEF StepInv
    <3>1. CASE d = c
      BY <1>1, <1>2, <2>2, <2>3, <2>6, <3>1 DEF Placed, StepAt, Merchant, Unfinished
    <3>2. CASE d # c /\ pc[d] = "idle"
      BY <2>2, <3>2 DEF Placed
    <3>3. CASE d # c /\ pc[d] # "idle"
      <4> DEFINE j == call[d]
      <4>1. j \in Keys /\ RequestOf[j] \in Requests /\ StepAt(pc[d], j)
        BY <3>3, CallAt DEF Pays
      <4>2. pc'[d] = pc[d] /\ call'[d] = j
        BY <2>2, <3>3
      <4>3. CASE RequestOf[j] # r
        BY <1>1, <2>5, <4>1, <4>2, <4>3 DEF Placed, StepAt, Merchant
      <4>4. CASE RequestOf[j] = r
        <5>1. pc[d] \notin Engaged
          BY <1>2, <2>4, <4>1, <4>4 DEF Holds
        <5> QED
          BY <1>1, <4>1, <4>2, <5>1 DEF Placed, StepAt, Merchant, Engaged, Working
      <4> QED
        BY <4>3, <4>4
    <3> QED
      BY <3>1, <3>2, <3>3
  <2>9. HoldInv'
    <3>1. \A d \in Callers : \A j \in Keys : Holds(d, j)' => Holds(d, j) \/ (d = c /\ j = k)
      BY <2>2 DEF Holds, Merchant
    <3> SUFFICES ASSUME NEW j \in Keys, chain'[j] # "landed"
                 PROVE  /\ \A d, e \in Callers : Holds(d, j)' /\ Holds(e, j)' => d = e
                        /\ RequestOf[j] \in late' => \A d \in Callers : ~Holds(d, j)'
      BY DEF HoldInv
    <3>2. CASE j = k
      BY <1>1, <1>2, <2>3, <2>4, <3>1, <3>2
    <3>3. CASE j # k
      BY <1>1, <3>1, <3>3 DEF HoldInv, PaymentInv
    <3> QED
      BY <3>2, <3>3
  <2>10. PassInv'
    <3>1. UNCHANGED <<rpc, row, todo>>
      BY <1>1 DEF recovererVars
    <3>2. \A q \in Recoverers : r \notin todo[q] /\ todo[q] \subseteq Requests
      BY <1>2, <2>1, PaymentTypes DEF IInv, RowInv
    <3>3. \A q \in Recoverers : \A x \in todo[q] :
            attempt'[x] = attempt[x] /\ attemptKey'[x] = attemptKey[x]
      BY <2>5, <3>2
    <3> QED
      BY <1>1, <3>1, <3>3 DEF PaymentInv, PassInv
  <2> QED
    BY <2>7, <2>8, <2>9, <2>10 DEF PaymentInv
<1> QED
  BY <1>3, <1>4

\* The recovery pass, one at a time.
OnePass == \A q, p \in Recoverers : q = p

LEMMA PassGoes ==
  ASSUME IInv, IInv', PaymentInv, StepOn({}), UNCHANGED callerVars, PassInv'
  PROVE  PaymentInv'
<1>1. StepInv' /\ HoldInv'
  BY CallsAgree DEF callerVars
<1> QED
  BY <1>1, RequestsAgree DEF PaymentInv

\* What a pass knows of the rows it has left, after it left row r.
LEMMA NextRowAgrees ==
  ASSUME IInv, PaymentInv, OnePass, StepOn({}), NEW q \in Recoverers, NEW r,
         NextRow(q, r) \/ EndPass(q),
         \A x \in Requests : FailsRow({}, x) => x = r
  PROVE  PassInv'
<1>1. /\ rpc'[q] \in {"idle", "pass"} /\ todo'[q] \subseteq todo[q] \ {r}
      /\ todo[q] \subseteq Requests /\ attemptKey' = attemptKey
  BY PaymentTypes DEF NextRow, EndPass, StepOn
<1>2. ASSUME NEW x \in todo'[q], attempt'[x] = "failed"
      PROVE  chain'[attemptKey'[x]] = "none"
  <2>1. x \in Requests /\ x \in todo[q] /\ x # r /\ RowOn({}, x)
    BY <1>1 DEF StepOn
  <2>2. attempt[x] = "failed"
    BY <1>2, <2>1 DEF RowOn
  <2> QED
    BY <1>1, <2>1, <2>2, Unsigned DEF PaymentInv, PassInv, StepOn
<1> QED
  BY <1>1, <1>2 DEF PassInv, OnePass

LEMMA AtAgrees ==
  ASSUME IInv, PaymentInv, OnePass, StepOn({}), NEW q \in Recoverers, NEW r \in todo[q],
         NEW step \in {"attach", "finalize", "mark_failed"}, At(q, r, step),
         \A x \in Requests : ~FailsRow({}, x),
         step = "attach" => chain'[attemptKey[r]] # "none",
         step = "mark_failed" =>
           chain'[attemptKey[r]] = "dead" \/ (chain'[attemptKey[r]] = "none" /\ r \in late)
  PROVE  PassInv'
<1>1. /\ rpc'[q] = step /\ row'[q] = r /\ todo'[q] = todo[q]
      /\ todo[q] \subseteq Requests /\ attemptKey' = attemptKey /\ late' = late
  BY PaymentTypes DEF At, StepOn
<1>2. ASSUME NEW x \in todo'[q], attempt'[x] = "failed"
      PROVE  chain'[attemptKey'[x]] = "none"
  <2>1. x \in Requests /\ x \in todo[q] /\ RowOn({}, x)
    BY <1>1 DEF StepOn
  <2>2. attempt[x] = "failed"
    BY <1>2, <2>1 DEF RowOn
  <2> QED
    BY <1>1, <2>1, <2>2, Unsigned DEF PaymentInv, PassInv, StepOn
<1> QED
  BY <1>1, <1>2 DEF PassInv, OnePass

LEMMA QuietPasses ==
  ASSUME IInv, IInv', PaymentInv, OnePass, NEW q \in Recoverers,
         \/ StartPass(q) \/ PassEnds(q)
         \/ \E r \in Requests : LookForRow(q, r) \/ CheckChain(q, r)
  PROVE  PaymentInv'
<1>1. UNCHANGED <<request, attempt, attemptKey, late, overdue, callerVars>>
  BY DEF StartPass, PassEnds, LookForRow, CheckChain, Unchanged, Money
<1>2. CASE StartPass(q)
  <2>1. chain' = chain
    BY <1>2 DEF StartPass
  <2>2. StepOn({})
    BY <1>1, <2>1, SameChainOn, SameRows
  <2>3. rpc'[q] = "pass" /\ \A x \in todo'[q] : attempt[x] \in Unfinished
    BY <1>2, PaymentTypes DEF StartPass
  <2>4. PassInv'
    BY <1>1, <2>3 DEF PassInv, OnePass, Unfinished
  <2> QED
    BY <1>1, <2>2, <2>4, PassGoes
<1>3. CASE PassEnds(q)
  <2>1. chain' = chain /\ EndPass(q)
    BY <1>3 DEF PassEnds
  <2>2. StepOn({}) /\ \A r \in Requests : ~FailsRow({}, r)
    BY <1>1, <2>1, SameChainOn, SameRows
  <2> QED
    BY <1>1, <2>1, <2>2, NextRowAgrees, PassGoes
<1>4. ASSUME NEW r \in Requests, LookForRow(q, r) PROVE PaymentInv'
  <2>1. chain' = chain /\ r \in todo[q]
    BY <1>4 DEF LookForRow
  <2>2. StepOn({}) /\ \A x \in Requests : ~FailsRow({}, x)
    BY <1>1, <2>1, SameChainOn, SameRows
  <2>3. \/ At(q, r, "attach") /\ chain[attemptKey[r]] # "none"
        \/ At(q, r, "mark_failed") /\ chain[attemptKey[r]] = "none" /\ r \in late
        \/ NextRow(q, r)
    BY <1>4 DEF LookForRow
  <2>4. PassInv'
    BY <2>1, <2>2, <2>3, AtAgrees, NextRowAgrees
  <2> QED
    BY <1>1, <2>2, <2>4, PassGoes
<1>5. ASSUME NEW r \in Requests, CheckChain(q, r) PROVE PaymentInv'
  <2>1. Resend(attemptKey[r]) /\ r \in todo[q] /\ attemptKey[r] \in Keys
    BY <1>5 DEF CheckChain, IInv, RowInv
  <2>2. StepOn({}) /\ \A x \in Requests : ~FailsRow({}, x)
    BY <1>1, <2>1, ResendOn, SameRows
  <2>3. \/ At(q, r, "finalize")
        \/ At(q, r, "mark_failed") /\ chain[attemptKey[r]] = "dead"
        \/ NextRow(q, r)
    BY <1>5 DEF CheckChain
  <2>4. chain[attemptKey[r]] = "dead" => chain'[attemptKey[r]] = "dead"
    BY <2>1, <2>2 DEF StepOn, ChainOn
  <2>5. PassInv'
    BY <2>1, <2>2, <2>3, <2>4, AtAgrees, NextRowAgrees
  <2> QED
    BY <1>1, <2>2, <2>5, PassGoes
<1> QED
  BY <1>2, <1>3, <1>4, <1>5

\* The row whose transaction is saved has not failed: nothing is sent any more
\* for one that has.
LEMMA AttachAgrees ==
  ASSUME IInv, IInv', PaymentInv, OnePass, NEW q \in Recoverers, Attach(q)
  PROVE  PaymentInv'
<1> DEFINE r == row[q]
<1>1. UNCHANGED <<request, attemptKey, late, overdue, chain, callerVars>> /\ rpc[q] = "attach"
      /\ attempt' = [attempt EXCEPT ![r] = "submitted"] /\ NextRow(q, r)
  BY DEF Attach, Unchanged
<1>2. r \in Requests /\ attemptKey[r] \in Keys /\ r \in todo[q] /\ chain[attemptKey[r]] # "none"
  BY <1>1 DEF IInv, RowInv, PaymentInv, PassInv
<1>3. attempt[r] # "failed"
  BY <1>2 DEF PaymentInv, PassInv
<1>4. attempt[r] # "none"
  BY <1>2, PaymentTypes DEF PaymentInv, RequestInv, AttemptAgrees
<1>5. \A x \in Requests : RowOn({}, x) /\ ~FailsRow({}, x)
  BY <1>1, <1>2, <1>3, <1>4, PaymentTypes DEF RowOn, FailsRow, AttemptStatuses, Unfinished
<1>6. StepOn({})
  BY <1>1, <1>5, SameChainOn DEF StepOn, PaymentInv, RequestInv
<1> QED
  BY <1>1, <1>5, <1>6, NextRowAgrees, PassGoes

LEMMA FinalizeRowAgrees ==
  ASSUME IInv, IInv', PaymentInv, OnePass, NEW q \in Recoverers, FinalizeRow(q)
  PROVE  PaymentInv'
<1> DEFINE r == row[q]
           k == attemptKey[r]
<1>1. UNCHANGED <<attemptKey, late, overdue, chain, callerVars>> /\ rpc[q] = "finalize"
      /\ FinalizeMerchantPayment(k) /\ (NextRow(q, r) \/ EndPass(q))
  BY DEF FinalizeRow, Unchanged
<1>2. r \in Requests /\ k \in Keys /\ chain[k] = "landed" /\ RequestOf[k] = r
  BY <1>1 DEF IInv, RowInv, KeyInv
<1>3. attempt[r] # "none" /\ Merchant(r)
  BY <1>2, PaymentTypes DEF PaymentInv, RequestInv, AttemptAgrees
<1>4. StepOn({}) /\ \A x \in Requests : ~FailsRow({}, x)
  BY <1>1, <1>2, <1>3, FinalizeRows
<1> QED
  BY <1>1, <1>4, NextRowAgrees, PassGoes

LEMMA MarkRowFailedAgrees ==
  ASSUME IInv, IInv', PaymentInv, OnePass, NEW q \in Recoverers, MarkRowFailed(q)
  PROVE  PaymentInv'
<1> DEFINE r == row[q]
<1>1. UNCHANGED <<attemptKey, late, overdue, chain, callerVars>> /\ rpc[q] = "mark_failed"
      /\ MarkMerchantPaymentFailed(r) /\ (NextRow(q, r) \/ EndPass(q))
  BY DEF MarkRowFailed, Unchanged
<1>2. /\ r \in Requests
      /\ chain[attemptKey[r]] = "dead" \/ (chain[attemptKey[r]] = "none" /\ r \in late)
  BY <1>1 DEF IInv, RowInv, PaymentInv, PassInv
<1>3. StepOn({}) /\ \A x \in Requests : FailsRow({}, x) => x = r
  BY <1>1, <1>2, FailRows
<1> QED
  BY <1>1, <1>3, NextRowAgrees, PassGoes

\* Time, the chain, the requests and the shop.
LEMMA ClaimGetsLateAgrees ==
  ASSUME IInv, IInv', PaymentInv, ~MayStall, NEW r \in Requests, ClaimGetsLate(r)
  PROVE  PaymentInv'
<1>1. /\ UNCHANGED <<request, overdue, attempt, attemptKey, chain, pc, call, rpc, row, todo>>
      /\ late' = late \cup {r} /\ attempt[r] \in Unfinished
      /\ \A c \in Callers : pc[c] \notin {"idle", "expire", "claim"} => Pays(c) # r
  BY DEF ClaimGetsLate, requestVars, Money, callerVars, recovererVars
<1>2. RequestInv'
  BY <1>1 DEF PaymentInv, RequestInv, AttemptAgrees, ChainAgrees, ExpiredCharge, Merchant, Unfinished
<1>3. HoldInv'
  <2>1. \A d \in Callers : \A j \in Keys : Holds(d, j)' <=> Holds(d, j)
    BY <1>1 DEF Holds, Merchant
  <2>2. \A d \in Callers : \A j \in Keys : Holds(d, j) => RequestOf[j] # r
    BY <1>1 DEF Holds, Engaged, Working, Pays
  <2> QED
    BY <1>1, <2>1, <2>2 DEF HoldInv, PaymentInv
<1>4. StepInv'
  BY <1>1 DEF PaymentInv, StepInv, Placed, StepAt, Merchant
<1>5. PassInv'
  BY <1>1 DEF PaymentInv, PassInv
<1> QED
  BY <1>2, <1>3, <1>4, <1>5 DEF PaymentInv

\* Steps of nobody: they sign nothing, and no call is about to note that it has
\* sent what dies meanwhile.
LEMMA OutsideAgrees ==
  ASSUME IInv, IInv', PaymentInv, StepOn({}), \A r \in Requests : ~FailsRow({}, r),
         UNCHANGED <<callerVars, recovererVars>>
  PROVE  PaymentInv'
<1>1. PassInv'
  BY PassesAgree
<1> QED
  BY <1>1, PassGoes

LEMMA ChainDecidesAgrees ==
  ASSUME IInv, IInv', PaymentInv, ~MayStall, NEW k \in Keys, Land(k) \/ Die(k)
  PROVE  PaymentInv'
<1>1. UNCHANGED <<request, overdue, attempt, attemptKey, late, callerVars, recovererVars>>
  BY DEF Land, Die, requestVars, Money
<1>2. ChainOn({})
  BY PaymentTypes DEF Land, Die, ChainOn, ChainStates
<1> QED
  BY <1>1, <1>2, SameRows, OutsideAgrees

LEMMA RequestStepAgrees ==
  ASSUME IInv, IInv', PaymentInv, NEW r \in Requests, RequestStep(r), UNCHANGED Elsewhere
  PROVE  PaymentInv'
<1>1. UNCHANGED <<attempt, attemptKey, attemptVars, late, chain, callerVars, recovererVars>>
  BY DEF Elsewhere, attemptVars
<1>2. CASE Issue(r)
  <2>1. request' = [request EXCEPT ![r] = "pending"] /\ request[r] = "absent" /\ overdue' = overdue
    BY <1>2 DEF Issue, SetRequest
  <2>2. attempt[r] = "none"
    BY <2>1, PaymentTypes DEF PaymentInv, RequestInv, AttemptAgrees, ExpiredCharge,
       AttemptStatuses, Unfinished
  <2>3. \A x \in Requests : RowOn({}, x) /\ ~FailsRow({}, x)
    BY <1>1, <2>1, <2>2, PaymentTypes DEF RowOn, FailsRow, Unfinished
  <2>4. StepOn({})
    BY <1>1, <2>1, <2>3, SameChainOn DEF StepOn, PaymentInv, RequestInv
  <2> QED
    BY <1>1, <2>3, <2>4, OutsideAgrees
<1>3. CASE ExpiryPasses(r)
  <2>1. request' = request /\ overdue' = overdue \cup {r} /\ r \in MayExpire
    BY <1>3 DEF ExpiryPasses
  <2>2. StepOn({}) /\ \A x \in Requests : ~FailsRow({}, x)
    BY <1>1, <2>1, SameChainOn DEF StepOn, RowOn, FailsRow, PaymentInv, RequestInv, Unfinished
  <2> QED
    BY <1>1, <2>2, OutsideAgrees
<1>4. CASE Cancel(r) \/ ExpireStale(r)
  <2>1. Withdraw(r, "cancelled") \/ Withdraw(r, "expired")
    BY <1>4 DEF Cancel, ExpireStale
  <2> QED
    BY <1>1, <2>1, WithdrawRows, OutsideAgrees
<1> QED
  BY <1>2, <1>3, <1>4 DEF RequestStep

LEMMA InitAgrees ==
  ASSUME Init
  PROVE  PaymentInv
<1>1. RequestInv
  BY PaymentAssumption
  DEF Init, RequestsInit, RequestInv, AttemptAgrees, ChainAgrees, ExpiredCharge
<1>2. HoldInv /\ StepInv /\ PassInv
  BY DEF Init, RequestsInit, HoldInv, Holds, Engaged, Working, StepInv, Placed, PassInv
<1> QED
  BY <1>1, <1>2 DEF PaymentInv

LEMMA StepAgrees ==
  ASSUME IInv, IInv', PaymentInv, ~MayStall, OnePass, [Next]_vars
  PROVE  PaymentInv'
<1>1. ASSUME NEW c \in Callers, CallerStep(c) PROVE PaymentInv'
  BY <1>1, ExpireAgrees, ClaimAgrees, QuietCalls, RecoverTransferAgrees, SignAgrees,
     BroadcastAgrees, OnSubmittedAgrees, FinalizeAgrees, MarkFailedAgrees DEF CallerStep
<1>2. ASSUME NEW q \in Recoverers, RecovererStep(q) \/ PassEnds(q) PROVE PaymentInv'
  BY <1>2, QuietPasses, AttachAgrees, FinalizeRowAgrees, MarkRowFailedAgrees DEF RecovererStep
<1>3. ASSUME UNCHANGED <<request, overdue, attempt, attemptKey, late, chain, callerVars,
                         recovererVars>>
      PROVE  PaymentInv'
  BY <1>3, SameChainOn, SameRows, OutsideAgrees
<1>4. CASE ShopStep /\ UNCHANGED Elsewhere
  <2>1. UNCHANGED requestVars
    BY <1>4 DEF ShopStep, AdjustStock, CashSale, ReadRecordedSale, VoidCashSale
  <2> QED
    BY <1>3, <1>4, <2>1 DEF Elsewhere, attemptVars, requestVars
<1>5. CASE UNCHANGED vars
  BY <1>3, <1>5 DEF vars, requestVars, attemptVars
<1> QED
  BY <1>1, <1>2, <1>4, <1>5, ExecuteAgrees, CallFaultsAgree, RequestStepAgrees,
     ClaimGetsLateAgrees, ChainDecidesAgrees DEF Next

LEMMA PaymentInvariant ==
  ASSUME ~MayStall, OnePass
  PROVE  Spec => [](IInv /\ PaymentInv)
<1>1. Init => IInv /\ PaymentInv
  BY InitInv, InitAgrees
<1>2. IInv /\ PaymentInv /\ [Next]_vars => (IInv /\ PaymentInv)'
  BY NextKeeps, StepAgrees
<1> QED
  BY <1>1, <1>2, PTL DEF Spec

-------------------------------------------------------------------------------
(* The books.  Most steps leave them alone; these are the ones that do not.  *)

Purse == <<attemptKey, ledger, available, pending>>
Stock == <<onHand, reserved, adjusted, sale, voids>>

ExpiresOther(c) ==
  LET r == Pays(c)
  IN  /\ pc[c] = "expire" /\ r \in Requests /\ Kind[r] # "invoice"
      /\ SetRequest(r, "expired") /\ UNCHANGED <<Purse, Stock>>

Claims(k) ==
  LET r == RequestOf[k]
  IN  /\ request[r] = "pending" /\ attemptKey[r] = NoKey /\ available[Payer[k]] >= Amount[r]
      /\ attemptKey' = [attemptKey EXCEPT ![r] = k]
      /\ SetRequest(r, "processing")
      /\ available' = Shift(available, Payer[k], -Amount[r])
      /\ pending' = Shift(pending, Payer[k], Amount[r])
      /\ UNCHANGED <<ledger, Stock>>

PaysMerchant(k) ==
  /\ Records(k) /\ FinalizeMerchantPayment(k) /\ attemptKey[RequestOf[k]] = k
  /\ UNCHANGED <<attemptKey, adjusted, sale, voids>>

PaysCustomer(k) ==
  /\ CanMoveBalances(k) /\ FinalizeConsumerPayment(k) /\ ~Merchant(RequestOf[k])
  /\ UNCHANGED <<attemptKey, Stock>>

GivesBack(r) ==
  /\ CanFail(r) /\ MarkMerchantPaymentFailed(r) /\ attemptKey[r] \in Keys
  /\ UNCHANGED <<attemptKey, adjusted, sale, voids, chain>>

BookStep ==
  \/ UNCHANGED <<request, Purse, Stock>>
  \/ ShopStep /\ UNCHANGED <<request, Purse>>
  \/ \E r \in Requests : Issue(r) /\ UNCHANGED Purse
  \/ \E r \in Requests, s \in {"expired", "cancelled"} : Withdraw(r, s) /\ UNCHANGED Purse
  \/ \E c \in Callers : ExpiresOther(c)
  \/ \E k \in Keys : Claims(k) \/ PaysMerchant(k) \/ PaysCustomer(k)
  \/ \E r \in Requests : GivesBack(r)

\* A transaction that refuses leaves the books alone.
LEMMA FinalizeBooks ==
  ASSUME NEW k \in Keys, FinalizeMerchantPayment(k), attemptKey[RequestOf[k]] = k,
         UNCHANGED <<attemptKey, shopVars>>
  PROVE  BookStep
<1>1. CASE Records(k)
  BY <1>1 DEF PaysMerchant, BookStep, shopVars
<1>2. CASE ~Records(k)
  BY <1>2 DEF FinalizeMerchantPayment, BookStep, Purse, Stock, shopVars, stockVars
<1> QED
  BY <1>1, <1>2

LEMMA FailBooks ==
  ASSUME IInv, NEW r \in Requests, MarkMerchantPaymentFailed(r), UNCHANGED <<attemptKey, shopVars, chain>>
  PROVE  BookStep
<1>1. CASE CanFail(r)
  <2>1. attemptKey[r] \in Keys
    BY <1>1, KeyOf DEF CanFail, Unfinished
  <2> QED
    BY <1>1, <2>1 DEF GivesBack, BookStep, shopVars
<1>2. CASE ~CanFail(r)
  BY <1>2 DEF MarkMerchantPaymentFailed, BookStep, Purse, Stock, shopVars, stockVars
<1> QED
  BY <1>1, <1>2

LEMMA CallerBooks ==
  ASSUME IInv, NEW c \in Callers,
         \/ Expire(c) \/ ClaimMerchantPayment(c) \/ Finalize(c) \/ MarkFailed(c)
  PROVE  BookStep
<1> DEFINE k == call[c]
           r == Pays(c)
<1>1. k \in Keys /\ r \in Requests /\ r = RequestOf[k]
  BY ConstantTypes DEF IInv, CallInv, Expire, ClaimMerchantPayment, Finalize, MarkFailed, Pays
<1>2. CASE Expire(c)
  <2>1. UNCHANGED Purse /\ ExpireResolved(r) /\ pc[c] = "expire"
    BY <1>2 DEF Expire, Purse, attemptVars, balanceVars
  <2>2. CASE Kind[r] = "invoice" /\ request[r] = "pending"
    BY <1>1, <2>1, <2>2 DEF ExpireResolved, BookStep
  <2>3. CASE Kind[r] = "invoice" /\ request[r] # "pending"
    BY <2>1, <2>3 DEF ExpireResolved, BookStep, Stock, requestVars, stockVars, shopVars
  <2>4. CASE Kind[r] # "invoice"
    BY <1>1, <2>1, <2>4
    DEF ExpireResolved, BookStep, ExpiresOther, Stock, requestVars, stockVars, shopVars
  <2> QED
    BY <2>2, <2>3, <2>4
<1>3. CASE ClaimMerchantPayment(c)
  <2>1. UNCHANGED <<ledger, Stock>>
    BY <1>3 DEF ClaimMerchantPayment, Others, Stock, stockVars, shopVars
  <2>2. CASE CanClaim(k)
    BY <1>1, <1>3, <2>1, <2>2 DEF ClaimMerchantPayment, CanClaim, Claims, BookStep
  <2>3. CASE ~CanClaim(k)
    BY <1>3, <2>1, <2>3 DEF ClaimMerchantPayment, BookStep, Purse, balanceVars
  <2> QED
    BY <2>2, <2>3
<1>4. CASE Finalize(c)
  <2>1. UNCHANGED <<attemptKey, shopVars>>
    BY <1>4 DEF Finalize, Others
  <2>2. CASE Merchant(r)
    <3>1. FinalizeMerchantPayment(k) /\ attemptKey[r] = k
      BY <1>4, <2>2 DEF Finalize, IInv, CallInv, Working
    <3> QED
      BY <1>1, <2>1, <3>1, FinalizeBooks
  <2>3. CASE ~Merchant(r)
    <3>1. FinalizeConsumerPayment(k)
      BY <1>4, <2>3 DEF Finalize
    <3>2. UNCHANGED <<attemptKey, Stock>>
      BY <2>1, <3>1 DEF FinalizeConsumerPayment, Stock, stockVars, shopVars
    <3>3. CASE CanMoveBalances(k)
      BY <1>1, <2>3, <3>1, <3>2, <3>3 DEF PaysCustomer, BookStep
    <3>4. CASE ~CanMoveBalances(k)
      BY <3>1, <3>2, <3>4 DEF FinalizeConsumerPayment, BookStep, Purse
    <3> QED
      BY <3>3, <3>4
  <2> QED
    BY <2>2, <2>3
<1>5. CASE MarkFailed(c)
  <2>1. UNCHANGED <<attemptKey, shopVars, chain>>
    BY <1>5 DEF MarkFailed, Others
  <2>2. CASE Merchant(r)
    BY <1>1, <1>5, <2>1, <2>2, FailBooks DEF MarkFailed
  <2>3. CASE ~Merchant(r)
    BY <1>5, <2>1, <2>3
    DEF MarkFailed, Money, BookStep, Purse, Stock, shopVars, stockVars, balanceVars
  <2> QED
    BY <2>2, <2>3
<1> QED
  BY <1>2, <1>3, <1>4, <1>5

LEMMA RecovererBooks ==
  ASSUME IInv, NEW q \in Recoverers, FinalizeRow(q) \/ MarkRowFailed(q)
  PROVE  BookStep
<1>1. UNCHANGED <<attemptKey, shopVars, chain>>
  BY DEF FinalizeRow, MarkRowFailed, Unchanged
<1>2. row[q] \in Requests /\ attemptKey[row[q]] \in Keys /\ RequestOf[attemptKey[row[q]]] = row[q]
  BY DEF FinalizeRow, MarkRowFailed, IInv, RowInv, KeyInv
<1>3. CASE FinalizeRow(q)
  BY <1>1, <1>2, <1>3, FinalizeBooks DEF FinalizeRow
<1>4. CASE MarkRowFailed(q)
  BY <1>1, <1>2, <1>4, FailBooks DEF MarkRowFailed
<1> QED
  BY <1>3, <1>4

LEMMA BookSteps ==
  ASSUME IInv, [Next]_vars
  PROVE  BookStep
<1>1. ASSUME UNCHANGED <<request, attemptKey, ledger, balanceVars, stockVars, shopVars>>
      PROVE  BookStep
  BY <1>1 DEF BookStep, Purse, Stock, balanceVars, stockVars, shopVars
<1>2. ASSUME UNCHANGED <<Money, attemptKey, shopVars>> PROVE BookStep
  BY <1>1, <1>2 DEF Money
<1>3. ASSUME NEW c \in Callers, CallerStep(c) PROVE BookStep
  <2>1. CASE OnSubmitted(c)
    BY <1>1, <2>1 DEF OnSubmitted, Others
  <2>2. CASE \/ AssertAvailableBalance(c) \/ LookUp(c) \/ RecordSignature(c) \/ RecoverTransfer(c)
             \/ Sign(c) \/ CheckSaved(c) \/ Broadcast(c) \/ Confirm(c)
             \/ FailUnsubmitted(c) \/ CheckRow(c)
    BY <1>2, <2>2 DEF AssertAvailableBalance, LookUp, RecordSignature, RecoverTransfer, Sign,
       CheckSaved, Broadcast, Confirm, FailUnsubmitted, CheckRow, Others
  <2> QED
    BY <1>3, <2>1, <2>2, CallerBooks DEF CallerStep
<1>4. ASSUME NEW q \in Recoverers, RecovererStep(q) PROVE BookStep
  <2>1. CASE Attach(q)
    BY <1>1, <2>1 DEF Attach, Unchanged
  <2>2. CASE StartPass(q) \/ \E r \in Requests : LookForRow(q, r) \/ CheckChain(q, r)
    BY <1>2, <2>2 DEF StartPass, LookForRow, CheckChain, Unchanged
  <2> QED
    BY <1>4, <2>1, <2>2, RecovererBooks DEF RecovererStep
<1>5. ASSUME NEW r \in Requests, RequestStep(r), UNCHANGED Elsewhere PROVE BookStep
  <2>1. UNCHANGED Purse
    BY <1>5 DEF Elsewhere, Purse, attemptVars, balanceVars
  <2>2. CASE ExpiryPasses(r)
    BY <1>1, <2>1, <2>2 DEF ExpiryPasses, Purse, balanceVars
  <2> QED
    BY <1>5, <2>1, <2>2 DEF RequestStep, Cancel, ExpireStale, BookStep
<1>6. CASE ShopStep /\ UNCHANGED Elsewhere
  <2>1. UNCHANGED <<request, Purse>>
    BY <1>6 DEF Elsewhere, Purse, attemptVars, balanceVars, ShopStep, AdjustStock, CashSale,
       ReadRecordedSale, VoidCashSale, requestVars
  <2> QED
    BY <1>6, <2>1 DEF BookStep
<1>7. CASE UNCHANGED vars
  BY <1>1, <1>7 DEF vars, requestVars, attemptVars
<1>8. ASSUME \/ \E c \in Callers, k \in Keys : Execute(c, k)
             \/ \E c \in Callers : SignFails(c) \/ Throw(c) \/ CallEnds(c)
             \/ \E q \in Recoverers : PassEnds(q)
             \/ \E r \in Requests : ClaimGetsLate(r)
             \/ \E k \in Keys : Land(k) \/ Die(k)
      PROVE  BookStep
  BY <1>2, <1>8 DEF Execute, SignFails, Throw, CallEnds, PassEnds, ClaimGetsLate, Land, Die, Others
<1> QED
  BY <1>3, <1>4, <1>5, <1>6, <1>7, <1>8 DEF Next

\* What is given back was set aside: the payment is still being made, or the
\* charge it was for has expired meanwhile.
LEMMA GivenBackWasHeld ==
  ASSUME IInv, PaymentInv, PaymentInv', NEW r \in Requests, GivesBack(r)
  PROVE  request[r] = "processing" \/ ExpiredCharge(r)
<1>1. /\ attempt[r] \in {"processing", "submitted"} /\ attempt'[r] = "failed"
      /\ attemptKey' = attemptKey /\ chain' = chain
  BY PaymentTypes DEF GivesBack, CanFail, MarkMerchantPaymentFailed, Unfinished
<1>2. AttemptAgrees(r) /\ ChainAgrees(r) /\ ChainAgrees(r)'
  BY DEF PaymentInv, RequestInv
<1>3. chain[attemptKey[r]] \in {"none", "dead"}
  BY <1>1, <1>2 DEF ChainAgrees
<1> QED
  BY <1>1, <1>2, <1>3 DEF AttemptAgrees, ChainAgrees

\* A call that expires a request has seen its expiry pass.
LEMMA ExpiresWhatMayExpire ==
  ASSUME IInv, PaymentInv, NEW c \in Callers, ExpiresOther(c)
  PROVE  Pays(c) \in MayExpire /\ Kind[Pays(c)] # "invoice"
<1>1. StepAt(pc[c], call[c]) /\ pc[c] = "expire"
  BY CallAt DEF ExpiresOther
<1> QED
  BY <1>1 DEF StepAt, Pays, ExpiresOther, PaymentInv, RequestInv

LEMMA PurseTypes ==
  ASSUME IInv
  PROVE  /\ ledger \subseteq Keys /\ IsFiniteSet(ledger)
         /\ available \in [Wallets -> Nat] /\ pending \in [Wallets -> Nat]
         /\ onHand \in [Products -> Nat] /\ reserved \in [Products -> Nat]
         /\ request \in [Requests -> RequestStatuses]
BY PaymentAssumption, FS_Subset DEF IInv, TypeOK, RequestsTypeOK

LEMMA PurseTypesNext ==
  ASSUME IInv'
  PROVE  /\ available' \in [Wallets -> Nat] /\ pending' \in [Wallets -> Nat]
         /\ onHand' \in [Products -> Nat] /\ reserved' \in [Products -> Nat]
         /\ request' \in [Requests -> RequestStatuses]
BY DEF IInv, TypeOK, RequestsTypeOK

\* No step that writes to the books answers a request again.
LEMMA ClosedStays ==
  ASSUME IInv, PaymentInv, PaymentInv', BookStep, \A r \in MayExpire : Kind[r] = "invoice",
         NEW r \in Requests, request[r] \in Closed
  PROVE  request'[r] = request[r]
<1>1. request \in [Requests -> RequestStatuses]
  BY PurseTypes
<1>2. ASSUME NEW s \in Requests, Issue(s) \/ Withdraw(s, "expired") \/ Withdraw(s, "cancelled")
      PROVE  request'[r] = request[r]
  BY <1>1, <1>2 DEF Issue, Withdraw, SetRequest, Closed
<1>3. ASSUME NEW k \in Keys, Claims(k) \/ PaysMerchant(k) \/ PaysCustomer(k)
      PROVE  request'[r] = request[r]
  BY <1>1, <1>3 DEF Claims, PaysMerchant, PaysCustomer, SetRequest, Closed, Records,
     FinalizeMerchantPayment, FinalizeConsumerPayment, CanMoveBalances
<1>4. ASSUME NEW s \in Requests, GivesBack(s) PROVE request'[r] = request[r]
  <2>1. request[s] = "processing"
    BY <1>4, GivenBackWasHeld DEF ExpiredCharge
  <2> QED
    BY <1>1, <1>4, <2>1 DEF GivesBack, MarkMerchantPaymentFailed, SetRequest, Closed
<1>5. \A c \in Callers : ~ExpiresOther(c)
  BY ExpiresWhatMayExpire
<1> QED
  BY <1>2, <1>3, <1>4, <1>5 DEF BookStep

\* The books of the wallets: what each has paid and received.
Paid(x)     == {k \in ledger : Payer[k] = x}
Received(x) == {k \in ledger : Payee[RequestOf[k]] = x}

LEMMA LedgerMoves ==
  ASSUME IInv, NEW k \in Keys, k \notin ledger, ledger' = ledger \cup {k}, NEW x
  PROVE  /\ SumFunctionOnSet(Price, Paid(x)) \in Int
         /\ SumFunctionOnSet(Price, Received(x)) \in Int
         /\ SumFunctionOnSet(Price, Paid(x)') = SumFunctionOnSet(Price, Paid(x))
              + (IF Payer[k] = x THEN Amount[RequestOf[k]] ELSE 0)
         /\ SumFunctionOnSet(Price, Received(x)') = SumFunctionOnSet(Price, Received(x))
              + (IF Payee[RequestOf[k]] = x THEN Amount[RequestOf[k]] ELSE 0)
<1> DEFINE P == Paid(x)
           Q == Paid(x)'
           R == Received(x)
           T == Received(x)'
<1>1. \A j \in Keys : Price[j] \in Int /\ Price[j] = Amount[RequestOf[j]]
  BY ConstantTypes DEF Price
<1>2. IsFiniteSet(ledger) /\ ledger \subseteq Keys
  BY PurseTypes
<1>3. /\ P \subseteq ledger /\ R \subseteq ledger
      /\ Q \subseteq ledger \cup {k} /\ T \subseteq ledger \cup {k}
      /\ P \ {k} = Q \ {k} /\ R \ {k} = T \ {k} /\ k \notin P /\ k \notin R
      /\ (k \in Q <=> Payer[k] = x) /\ (k \in T <=> Payee[RequestOf[k]] = x)
  BY DEF Paid, Received
<1> HIDE DEF P, Q, R, T
<1>4. IsFiniteSet(P) /\ IsFiniteSet(R)
  BY <1>2, <1>3, FS_Subset
<1>5. /\ SumFunctionOnSet(Price, P) \in Int
      /\ SumFunctionOnSet(Price, Q) = SumFunctionOnSet(Price, P)
           + (IF k \in Q THEN Price[k] ELSE 0) - (IF k \in P THEN Price[k] ELSE 0)
  BY <1>1, <1>2, <1>3, <1>4, SumMoves
<1>6. /\ SumFunctionOnSet(Price, R) \in Int
      /\ SumFunctionOnSet(Price, T) = SumFunctionOnSet(Price, R)
           + (IF k \in T THEN Price[k] ELSE 0) - (IF k \in R THEN Price[k] ELSE 0)
  BY <1>1, <1>2, <1>3, <1>4, SumMoves
<1>7. /\ SumFunctionOnSet(Price, Q) = SumFunctionOnSet(Price, P)
           + (IF Payer[k] = x THEN Amount[RequestOf[k]] ELSE 0)
      /\ SumFunctionOnSet(Price, T) = SumFunctionOnSet(Price, R)
           + (IF Payee[RequestOf[k]] = x THEN Amount[RequestOf[k]] ELSE 0)
  BY <1>1, <1>3, <1>5, <1>6
<1> QED
  BY <1>5, <1>6, <1>7 DEF P, Q, R, T

LEMMA BalancesStay ==
  ASSUME BalancesMatchLedger, ledger' = ledger,
         \A x \in Wallets : available'[x] + pending'[x] = available[x] + pending[x]
  PROVE  BalancesMatchLedger'
BY DEF BalancesMatchLedger

\* A payment that is recorded takes its price from one wallet to the other.
LEMMA BalancesMove ==
  ASSUME IInv, IInv', BalancesMatchLedger, NEW k \in Keys, k \notin ledger, ledger' = ledger \cup {k},
         \A x \in Wallets : available'[x] + pending'[x] = available[x] + pending[x]
           - (IF Payer[k] = x THEN Amount[RequestOf[k]] ELSE 0)
           + (IF Payee[RequestOf[k]] = x THEN Amount[RequestOf[k]] ELSE 0)
  PROVE  BalancesMatchLedger'
<1> SUFFICES ASSUME NEW x \in Wallets
      PROVE available'[x] + pending'[x] =
              OpeningBalance[x] - SumFunctionOnSet(Price, Paid(x)')
                                + SumFunctionOnSet(Price, Received(x)')
  BY DEF BalancesMatchLedger, Paid, Received
<1>2. available[x] + pending[x] =
        OpeningBalance[x] - SumFunctionOnSet(Price, Paid(x)) + SumFunctionOnSet(Price, Received(x))
  BY DEF BalancesMatchLedger, Paid, Received
<1>3. /\ OpeningBalance[x] \in Int /\ Amount[RequestOf[k]] \in Int
      /\ available[x] \in Int /\ pending[x] \in Int
      /\ available'[x] \in Int /\ pending'[x] \in Int
  BY PaymentAssumption, ConstantTypes, PurseTypes, PurseTypesNext
<1> DEFINE debit == IF Payer[k] = x THEN Amount[RequestOf[k]] ELSE 0
           credit == IF Payee[RequestOf[k]] = x THEN Amount[RequestOf[k]] ELSE 0
           paid == SumFunctionOnSet(Price, Paid(x))
           received == SumFunctionOnSet(Price, Received(x))
<1>4. available'[x] + pending'[x] = available[x] + pending[x] - debit + credit
  OBVIOUS
<1>5. paid \in Int /\ received \in Int
  BY LedgerMoves
<1>6. /\ SumFunctionOnSet(Price, Paid(x)') = paid + debit
      /\ SumFunctionOnSet(Price, Received(x)') = received + credit
  BY LedgerMoves
<1>7. debit \in Int /\ credit \in Int
  BY <1>3
<1>8. available[x] + pending[x] = OpeningBalance[x] - paid + received
  BY <1>2
<1> HIDE DEF debit, credit, paid, received
<1> QED
  BY <1>3, <1>4, <1>5, <1>6, <1>7, <1>8

LEMMA BalancesKept ==
  ASSUME IInv, IInv', BalancesMatchLedger, BookStep
  PROVE  BalancesMatchLedger'
<1> USE PurseTypes
<1>1. ASSUME UNCHANGED Purse PROVE BalancesMatchLedger'
  BY <1>1, BalancesStay DEF Purse
<1>2. ASSUME NEW k \in Keys, Claims(k) PROVE BalancesMatchLedger'
  <2>1. \A x \in Wallets : available'[x] + pending'[x] = available[x] + pending[x]
    BY <1>2, ConstantTypes DEF Claims, Shift
  <2> QED
    BY <1>2, <2>1, BalancesStay DEF Claims
<1>3. ASSUME NEW r \in Requests, GivesBack(r) PROVE BalancesMatchLedger'
  <2>1. attemptKey[r] \in Keys /\ Amount[r] \in Nat
    BY <1>3, PaymentAssumption DEF GivesBack
  <2>2. Payer[attemptKey[r]] \in Wallets
    BY <2>1, ConstantTypes
  <2>3. \A x \in Wallets : available'[x] + pending'[x] = available[x] + pending[x]
    BY <1>3, <2>1, <2>2 DEF GivesBack, MarkMerchantPaymentFailed, Shift
  <2> QED
    BY <1>3, <2>3, BalancesStay DEF GivesBack, MarkMerchantPaymentFailed
<1>4. ASSUME NEW k \in Keys, PaysMerchant(k) PROVE BalancesMatchLedger'
  <2>1. k \notin ledger /\ ledger' = ledger \cup {k}
    BY <1>4 DEF PaysMerchant, Records, Receipted, FinalizeMerchantPayment
  <2>2. \A x \in Wallets : available'[x] + pending'[x] = available[x] + pending[x]
           - (IF Payer[k] = x THEN Amount[RequestOf[k]] ELSE 0)
           + (IF Payee[RequestOf[k]] = x THEN Amount[RequestOf[k]] ELSE 0)
    BY <1>4, ConstantTypes DEF PaysMerchant, FinalizeMerchantPayment, Shift
  <2> QED
    BY <2>1, <2>2, BalancesMove
<1>5. ASSUME NEW k \in Keys, PaysCustomer(k) PROVE BalancesMatchLedger'
  <2>1. k \notin ledger /\ ledger' = ledger \cup {k}
    BY <1>5 DEF PaysCustomer, CanMoveBalances, FinalizeConsumerPayment
  <2>2. \A x \in Wallets : available'[x] + pending'[x] = available[x] + pending[x]
           - (IF Payer[k] = x THEN Amount[RequestOf[k]] ELSE 0)
           + (IF Payee[RequestOf[k]] = x THEN Amount[RequestOf[k]] ELSE 0)
    BY <1>5, ConstantTypes DEF PaysCustomer, FinalizeConsumerPayment, Shift
  <2> QED
    BY <2>1, <2>2, BalancesMove
<1> QED
  BY <1>1, <1>2, <1>3, <1>4, <1>5 DEF BookStep, ExpiresOther

\* The payments that set money of a wallet aside.
Backs(r, x) == request[r] = "processing" /\ Payer[attemptKey[r]] = x
Backing(x)  == {r \in Requests : Backs(r, x)}

LEMMA BackingMoves ==
  ASSUME NEW r \in Requests, NEW x,
         \A s \in Requests \ {r} : request'[s] = request[s] /\ attemptKey'[s] = attemptKey[s]
  PROVE  /\ SumFunctionOnSet(Amount, Backing(x)) \in Int
         /\ SumFunctionOnSet(Amount, Backing(x)') = SumFunctionOnSet(Amount, Backing(x))
              + (IF Backs(r, x)' THEN Amount[r] ELSE 0) - (IF Backs(r, x) THEN Amount[r] ELSE 0)
<1> DEFINE S == Backing(x)
           T == Backing(x)'
<1>1. /\ S \subseteq Requests /\ T \subseteq Requests
      /\ (r \in S <=> Backs(r, x)) /\ (r \in T <=> Backs(r, x)')
  BY DEF Backing
<1>2. ASSUME NEW s \in Requests \ {r} PROVE s \in S <=> s \in T
  BY <1>2 DEF Backing, Backs
<1>3. IsFiniteSet(Requests) /\ \A s \in Requests : Amount[s] \in Int
  BY PaymentAssumption, RequestsAssumption
<1> HIDE DEF S, T
<1>4. S \ {r} = T \ {r}
  BY <1>1, <1>2
<1>5. /\ SumFunctionOnSet(Amount, S) \in Int
      /\ SumFunctionOnSet(Amount, T) = SumFunctionOnSet(Amount, S)
           + (IF r \in T THEN Amount[r] ELSE 0) - (IF r \in S THEN Amount[r] ELSE 0)
  BY <1>1, <1>3, <1>4, FS_Subset, SumMoves
<1>6. SumFunctionOnSet(Amount, T) = SumFunctionOnSet(Amount, S)
        + (IF Backs(r, x)' THEN Amount[r] ELSE 0) - (IF Backs(r, x) THEN Amount[r] ELSE 0)
  BY <1>1, <1>5
<1> QED
  BY <1>5, <1>6 DEF S, T

\* What a step does to a payment, it does to what the payer has set aside.
LEMMA PendingMoves ==
  ASSUME PendingIsBacked, NEW r \in Requests,
         \A s \in Requests \ {r} : request'[s] = request[s] /\ attemptKey'[s] = attemptKey[s],
         \A x \in Wallets : pending'[x] = pending[x]
           + (IF Backs(r, x)' THEN Amount[r] ELSE 0) - (IF Backs(r, x) THEN Amount[r] ELSE 0)
  PROVE  PendingIsBacked'
<1> SUFFICES ASSUME NEW x \in Wallets
      PROVE pending'[x] = SumFunctionOnSet(Amount, Backing(x)')
  BY DEF PendingIsBacked, Backing, Backs
<1>2. pending[x] = SumFunctionOnSet(Amount, Backing(x))
  BY DEF PendingIsBacked, Backing, Backs
<1>3. pending'[x] = pending[x]
           + (IF Backs(r, x)' THEN Amount[r] ELSE 0) - (IF Backs(r, x) THEN Amount[r] ELSE 0)
  OBVIOUS
<1>4. SumFunctionOnSet(Amount, Backing(x)') = SumFunctionOnSet(Amount, Backing(x))
           + (IF Backs(r, x)' THEN Amount[r] ELSE 0) - (IF Backs(r, x) THEN Amount[r] ELSE 0)
  BY BackingMoves
<1> QED
  BY <1>2, <1>3, <1>4

LEMMA PendingStays ==
  ASSUME IInv, PendingIsBacked, NEW r \in Requests,
         \A s \in Requests \ {r} : request'[s] = request[s],
         request[r] # "processing", request'[r] # "processing",
         attemptKey' = attemptKey, pending' = pending
  PROVE  PendingIsBacked'
<1>1. \A x \in Wallets : ~Backs(r, x) /\ ~Backs(r, x)'
  BY DEF Backs
<1>2. \A x \in Wallets : pending'[x] = pending[x]
           + (IF Backs(r, x)' THEN Amount[r] ELSE 0) - (IF Backs(r, x) THEN Amount[r] ELSE 0)
  BY <1>1, PurseTypes
<1> QED
  BY <1>2, PendingMoves

LEMMA PendingKept ==
  ASSUME IInv, PaymentInv, PaymentInv', PendingIsBacked, BookStep,
         \A r \in MayExpire : Kind[r] = "invoice"
  PROVE  PendingIsBacked'
<1> USE PurseTypes
<1>1. ASSUME UNCHANGED <<request, Purse>> PROVE PendingIsBacked'
  BY <1>1 DEF PendingIsBacked, Purse
<1>2. ASSUME NEW r \in Requests, UNCHANGED Purse,
             Issue(r) \/ \E s \in {"expired", "cancelled"} : Withdraw(r, s)
      PROVE  PendingIsBacked'
  <2>1. /\ \A s \in Requests \ {r} : request'[s] = request[s]
        /\ request[r] # "processing" /\ request'[r] # "processing"
    BY <1>2 DEF Issue, Withdraw, SetRequest
  <2> QED
    BY <1>2, <2>1, PendingStays DEF Purse
<1>3. \A c \in Callers : ~ExpiresOther(c)
  BY ExpiresWhatMayExpire
<1>4. ASSUME NEW k \in Keys, Claims(k) PROVE PendingIsBacked'
  <2> DEFINE r == RequestOf[k]
  <2>1. r \in Requests /\ request[r] = "pending" /\ request'[r] = "processing" /\ attemptKey'[r] = k
    BY <1>4, ConstantTypes, PaymentTypes DEF Claims, SetRequest
  <2>2. \A s \in Requests \ {r} : request'[s] = request[s] /\ attemptKey'[s] = attemptKey[s]
    BY <1>4, <2>1, PaymentTypes DEF Claims, SetRequest
  <2>3. \A x \in Wallets : ~Backs(r, x) /\ (Backs(r, x)' <=> Payer[k] = x)
    BY <2>1 DEF Backs
  <2>4. \A x \in Wallets : pending'[x] = pending[x]
           + (IF Backs(r, x)' THEN Amount[r] ELSE 0) - (IF Backs(r, x) THEN Amount[r] ELSE 0)
    BY <1>4, <2>3, ConstantTypes DEF Claims, Shift
  <2> QED
    BY <2>1, <2>2, <2>4, PendingMoves
<1>5. ASSUME NEW r \in Requests, NEW k \in Keys, request[r] = "processing", attemptKey[r] = k,
             request'[r] # "processing", \A s \in Requests \ {r} : request'[s] = request[s],
             attemptKey' = attemptKey, pending' = Shift(pending, Payer[k], -Amount[r])
      PROVE  PendingIsBacked'
  <2>1. \A x \in Wallets : ~Backs(r, x)' /\ (Backs(r, x) <=> Payer[k] = x)
    BY <1>5 DEF Backs
  <2>2. Amount[r] \in Nat /\ Payer[k] \in Wallets
    BY PaymentAssumption
  <2>3. \A x \in Wallets : pending'[x] = pending[x]
           + (IF Backs(r, x)' THEN Amount[r] ELSE 0) - (IF Backs(r, x) THEN Amount[r] ELSE 0)
    BY <1>5, <2>1, <2>2 DEF Shift
  <2> QED
    BY <1>5, <2>3, PendingMoves
<1>6. ASSUME NEW k \in Keys, PaysMerchant(k) PROVE PendingIsBacked'
  <2> DEFINE r == RequestOf[k]
  <2>1. /\ r \in Requests /\ request[r] = "processing" /\ attemptKey[r] = k
        /\ request' = [request EXCEPT ![r] = "completed"] /\ attemptKey' = attemptKey
        /\ pending' = Shift(pending, Payer[k], -Amount[r])
    BY <1>6, ConstantTypes DEF PaysMerchant, Records, FinalizeMerchantPayment, SetRequest
  <2> QED
    BY <1>5, <2>1
<1>7. ASSUME NEW k \in Keys, PaysCustomer(k) PROVE PendingIsBacked'
  <2> DEFINE r == RequestOf[k]
  <2>1. /\ r \in Requests /\ ~Merchant(r) /\ attemptKey' = attemptKey /\ pending' = pending
        /\ request' = [request EXCEPT ![r] = "completed"] \/ request' = request
    BY <1>7, ConstantTypes DEF PaysCustomer, FinalizeConsumerPayment, SetRequest
  <2>2. request[r] # "processing"
    BY <2>1 DEF PaymentInv, RequestInv, AttemptAgrees
  <2> QED
    BY <2>1, <2>2, PendingStays
<1>8. ASSUME NEW r \in Requests, GivesBack(r) PROVE PendingIsBacked'
  <2>1. /\ request[r] = "processing" /\ attemptKey[r] \in Keys /\ attemptKey' = attemptKey
        /\ request' = [request EXCEPT ![r] = "failed"]
        /\ pending' = Shift(pending, Payer[attemptKey[r]], -Amount[r])
    BY <1>8, GivenBackWasHeld
    DEF GivesBack, MarkMerchantPaymentFailed, SetRequest, ExpiredCharge
  <2> QED
    BY <1>5, <2>1
<1> QED
  BY <1>1, <1>2, <1>3, <1>4, <1>6, <1>7, <1>8 DEF BookStep, Purse

\* The stock.
Standing == {s \in Sales : sale[s] = "recorded"}
With(statuses) == {r \in Requests : request[r] \in statuses}
Open == {"pending", "processing"}

\* With one request to void a sale at a time, a sale is put back once.
VoidInv == \A s \in Sales : voids[s] > 0 => sale[s] = "recorded"

LEMMA UnitsMove ==
  ASSUME NEW lines, NEW p, NEW S, NEW T, IsFiniteSet(S), NEW e, S \ {e} = T \ {e},
         S \cup T \subseteq DOMAIN lines, \A x \in DOMAIN lines : lines[x][p] \in Int
  PROVE  /\ Units(S, lines, p) \in Int
         /\ Units(T, lines, p) = Units(S, lines, p) + (IF e \in T THEN lines[e][p] ELSE 0)
                                   - (IF e \in S THEN lines[e][p] ELSE 0)
<1> DEFINE f == [x \in DOMAIN lines |-> lines[x][p]]
<1>1. \A x \in S \cup T : f[x] \in Int
  OBVIOUS
<1>2. (e \in T => f[e] = lines[e][p]) /\ (e \in S => f[e] = lines[e][p])
  OBVIOUS
<1> HIDE DEF f
<1>3. /\ SumFunctionOnSet(f, S) \in Int
      /\ SumFunctionOnSet(f, T) = SumFunctionOnSet(f, S) + (IF e \in T THEN f[e] ELSE 0)
                                    - (IF e \in S THEN f[e] ELSE 0)
  BY <1>1, SumMoves
<1>4. SumFunctionOnSet(f, T) = SumFunctionOnSet(f, S) + (IF e \in T THEN lines[e][p] ELSE 0)
                                    - (IF e \in S THEN lines[e][p] ELSE 0)
  BY <1>2, <1>3
<1> QED
  BY <1>3, <1>4 DEF Units, f

LEMMA LinesTypes ==
  /\ DOMAIN Lines = Requests /\ DOMAIN Change = Adjustments /\ DOMAIN SaleLines = Sales
  /\ \A p \in Products :
       /\ \A r \in Requests : Lines[r][p] \in Nat
       /\ \A a \in Adjustments : Change[a][p] \in Int
       /\ \A s \in Sales : SaleLines[s][p] \in Nat
       /\ Opening[p] \in Nat
BY RequestsAssumption

LEMMA RequestUnitsMove ==
  ASSUME NEW r \in Requests, \A s \in Requests \ {r} : request'[s] = request[s],
         NEW p \in Products, NEW statuses
  PROVE  /\ Units(With(statuses), Lines, p) \in Int
         /\ Units(With(statuses)', Lines, p) = Units(With(statuses), Lines, p)
              + (IF request'[r] \in statuses THEN Lines[r][p] ELSE 0)
              - (IF request[r] \in statuses THEN Lines[r][p] ELSE 0)
<1> DEFINE S == With(statuses)
           T == With(statuses)'
<1>1. /\ S \subseteq Requests /\ T \subseteq Requests /\ IsFiniteSet(Requests)
      /\ (r \in S <=> request[r] \in statuses) /\ (r \in T <=> request'[r] \in statuses)
  BY RequestsAssumption DEF With
<1>2. \A s \in Requests \ {r} : s \in S <=> s \in T
  BY DEF With
<1> HIDE DEF S, T
<1>3. S \ {r} = T \ {r} /\ IsFiniteSet(S)
  BY <1>1, <1>2, FS_Subset
<1>4. /\ Units(S, Lines, p) \in Int
      /\ Units(T, Lines, p) = Units(S, Lines, p) + (IF r \in T THEN Lines[r][p] ELSE 0)
           - (IF r \in S THEN Lines[r][p] ELSE 0)
  BY <1>1, <1>3, LinesTypes, UnitsMove
<1>5. Units(T, Lines, p) = Units(S, Lines, p)
        + (IF request'[r] \in statuses THEN Lines[r][p] ELSE 0)
        - (IF request[r] \in statuses THEN Lines[r][p] ELSE 0)
  BY <1>1, <1>4
<1> QED
  BY <1>4, <1>5 DEF S, T

\* A product's shelf and what is set aside of it, in the terms of the sums.
ProductIsAccounted(p) ==
  /\ reserved[p] = Units(With(Open), Lines, p)
  /\ onHand[p] = Opening[p] + Units(adjusted, Change, p) - Units(With({"completed"}), Lines, p)
                   - Units(Standing, SaleLines, p)
  /\ onHand[p] >= reserved[p]

LEMMA StockByProduct == StockIsAccounted <=> \A p \in Products : ProductIsAccounted(p)
<1>1. With({"completed"}) = {r \in Requests : request[r] = "completed"}
  BY DEF With
<1> QED
  BY <1>1 DEF StockIsAccounted, ReservedStockIsBacked, StockIsConserved, ProductIsAccounted,
     With, Open, Standing

LEMMA StockNext ==
  ASSUME \A p \in Products : ProductIsAccounted(p)'
  PROVE  StockIsAccounted'
<1>1. With({"completed"})' = {r \in Requests : request'[r] = "completed"}
  BY DEF With
<1> QED
  BY <1>1 DEF StockIsAccounted, ReservedStockIsBacked, StockIsConserved, ProductIsAccounted,
     With, Open, Standing

LEMMA ShopSums ==
  ASSUME IInv, NEW p \in Products
  PROVE  /\ Units(adjusted, Change, p) \in Int /\ Units(Standing, SaleLines, p) \in Int
         /\ Units(With(Open), Lines, p) \in Int /\ Units(With({"completed"}), Lines, p) \in Int
<1>1. adjusted \subseteq Adjustments /\ IsFiniteSet(adjusted)
  BY RequestsAssumption, FS_Subset DEF IInv, TypeOK, RequestsTypeOK
<1>2. Standing \subseteq Sales /\ IsFiniteSet(Standing)
  BY RequestsAssumption, FS_Subset DEF Standing
<1>3. With(Open) \subseteq Requests /\ IsFiniteSet(With(Open))
  BY RequestsAssumption, FS_Subset DEF With
<1>4. With({"completed"}) \subseteq Requests /\ IsFiniteSet(With({"completed"}))
  BY RequestsAssumption, FS_Subset DEF With
<1> QED
  BY <1>1, <1>2, <1>3, <1>4, LinesTypes, UnitsMove

\* What a step does to a request, it does to the stock the request asks for.
LEMMA RequestStock ==
  ASSUME IInv, IInv', StockIsAccounted, NEW r \in Requests,
         \A s \in Requests \ {r} : request'[s] = request[s],
         UNCHANGED <<adjusted, sale>>,
         \A p \in Products :
           /\ reserved'[p] = reserved[p] + (IF request'[r] \in Open THEN Lines[r][p] ELSE 0)
                               - (IF request[r] \in Open THEN Lines[r][p] ELSE 0)
           /\ onHand'[p] = onHand[p] - (IF request'[r] \in {"completed"} THEN Lines[r][p] ELSE 0)
                             + (IF request[r] \in {"completed"} THEN Lines[r][p] ELSE 0)
           /\ onHand'[p] >= reserved'[p]
  PROVE  StockIsAccounted'
<1> SUFFICES ASSUME NEW p \in Products PROVE ProductIsAccounted(p)'
  BY StockNext
<1> DEFINE opens  == IF request'[r] \in Open THEN Lines[r][p] ELSE 0
           leaves == IF request[r] \in Open THEN Lines[r][p] ELSE 0
           sells  == IF request'[r] \in {"completed"} THEN Lines[r][p] ELSE 0
           returns == IF request[r] \in {"completed"} THEN Lines[r][p] ELSE 0
           set == Units(With(Open), Lines, p)
           sold == Units(With({"completed"}), Lines, p)
           other == Units(adjusted, Change, p)
           cash == Units(Standing, SaleLines, p)
<1>1. set \in Int /\ sold \in Int /\ other \in Int /\ cash \in Int
  BY ShopSums
<1>2. opens \in Int /\ leaves \in Int /\ sells \in Int /\ returns \in Int /\ Opening[p] \in Int
  BY LinesTypes
<1>3. /\ reserved[p] \in Int /\ onHand[p] \in Int /\ reserved'[p] \in Int /\ onHand'[p] \in Int
  BY PurseTypes, PurseTypesNext
<1>4. reserved[p] = set /\ onHand[p] = Opening[p] + other - sold - cash
  BY StockByProduct DEF ProductIsAccounted
<1>5. /\ reserved'[p] = reserved[p] + opens - leaves
      /\ onHand'[p] = onHand[p] - sells + returns
      /\ onHand'[p] >= reserved'[p]
  OBVIOUS
<1>6. Units(With(Open)', Lines, p) = set + opens - leaves
  BY RequestUnitsMove
<1>7. Units(With({"completed"})', Lines, p) = sold + sells - returns
  BY RequestUnitsMove
<1>8. Units(adjusted', Change, p) = other /\ Units(Standing', SaleLines, p) = cash
  BY DEF Standing
<1>9. SUFFICES /\ reserved'[p] = Units(With(Open)', Lines, p)
               /\ onHand'[p] = Opening[p] + Units(adjusted', Change, p)
                     - Units(With({"completed"})', Lines, p) - Units(Standing', SaleLines, p)
               /\ onHand'[p] >= reserved'[p]
  BY DEF ProductIsAccounted
<1> HIDE DEF opens, leaves, sells, returns, set, sold, other, cash
<1> QED
  BY <1>1, <1>2, <1>3, <1>4, <1>5, <1>6, <1>7, <1>8

\* A request without lines of products, or whose status the stock does not
\* tell apart, has no say in it.
LEMMA StockStays ==
  ASSUME IInv, IInv', StockIsAccounted, NEW r \in Requests,
         \A s \in Requests \ {r} : request'[s] = request[s],
         UNCHANGED <<adjusted, sale, onHand, reserved>>,
         \/ \A p \in Products : Lines[r][p] = 0
         \/ request[r] \in Open /\ request'[r] \in Open
         \/ request'[r] = request[r]
  PROVE  StockIsAccounted'
<1>1. \A p \in Products : /\ reserved[p] \in Int /\ onHand[p] \in Int /\ onHand[p] >= reserved[p]
                          /\ Lines[r][p] \in Int
  BY StockByProduct, PurseTypes, LinesTypes DEF ProductIsAccounted
<1>2. \A p \in Products :
        \/ Lines[r][p] = 0
        \/ /\ request[r] \in Open <=> request'[r] \in Open
           /\ request[r] \in {"completed"} <=> request'[r] \in {"completed"}
  BY DEF Open
<1>3. \A p \in Products :
           /\ reserved'[p] = reserved[p] + (IF request'[r] \in Open THEN Lines[r][p] ELSE 0)
                               - (IF request[r] \in Open THEN Lines[r][p] ELSE 0)
           /\ onHand'[p] = onHand[p] - (IF request'[r] \in {"completed"} THEN Lines[r][p] ELSE 0)
                             + (IF request[r] \in {"completed"} THEN Lines[r][p] ELSE 0)
           /\ onHand'[p] >= reserved'[p]
  BY <1>1, <1>2
<1> QED
  BY <1>3, RequestStock

\* The request stops asking for its units: they are no longer set aside, and
\* off the shelf if it was paid.
LEMMA StockLeaves ==
  ASSUME IInv, IInv', StockIsAccounted, NEW r \in Requests,
         \A s \in Requests \ {r} : request'[s] = request[s],
         UNCHANGED <<adjusted, sale>>, reserved' = Minus(reserved, Lines[r]),
         request[r] \in Open \/ \A p \in Products : Lines[r][p] = 0,
         \/ request'[r] \in {"failed", "expired", "cancelled"} /\ onHand' = onHand
            /\ request[r] # "completed"
         \/ request'[r] = "completed" /\ onHand' = Minus(onHand, Lines[r])
            /\ request[r] # "completed"
  PROVE  StockIsAccounted'
<1>1. \A p \in Products : /\ reserved[p] \in Int /\ onHand[p] \in Int /\ onHand[p] >= reserved[p]
                          /\ Lines[r][p] \in Int /\ Lines[r][p] >= 0
  BY StockByProduct, PurseTypes, LinesTypes DEF ProductIsAccounted
<1>2. \A p \in Products : reserved'[p] = reserved[p] - Lines[r][p]
  BY DEF Minus
<1>3. \A p \in Products :
        onHand'[p] = IF request'[r] = "completed" THEN onHand[p] - Lines[r][p] ELSE onHand[p]
  BY DEF Minus
<1>4. \A p \in Products : Lines[r][p] = (IF request[r] \in Open THEN Lines[r][p] ELSE 0)
  OBVIOUS
<1>5. request'[r] \notin Open /\ request[r] # "completed"
  BY DEF Open
<1>6. \A p \in Products :
           /\ reserved'[p] = reserved[p] + (IF request'[r] \in Open THEN Lines[r][p] ELSE 0)
                               - (IF request[r] \in Open THEN Lines[r][p] ELSE 0)
           /\ onHand'[p] = onHand[p] - (IF request'[r] \in {"completed"} THEN Lines[r][p] ELSE 0)
                             + (IF request[r] \in {"completed"} THEN Lines[r][p] ELSE 0)
           /\ onHand'[p] >= reserved'[p]
  BY <1>1, <1>2, <1>3, <1>4, <1>5
<1> QED
  BY <1>6, RequestStock

\* A step of the shop puts on the shelf what it says it does.
LEMMA ShelfMoves ==
  ASSUME IInv, IInv', StockIsAccounted, UNCHANGED <<request, reserved>>,
         \A p \in Products :
           /\ onHand'[p] - onHand[p] =
                (Units(adjusted', Change, p) - Units(adjusted, Change, p))
                - (Units(Standing', SaleLines, p) - Units(Standing, SaleLines, p))
           /\ onHand'[p] >= reserved[p]
           /\ Units(adjusted', Change, p) \in Int /\ Units(Standing', SaleLines, p) \in Int
  PROVE  StockIsAccounted'
<1> SUFFICES ASSUME NEW p \in Products PROVE ProductIsAccounted(p)'
  BY StockNext
<1> DEFINE set == Units(With(Open), Lines, p)
           sold == Units(With({"completed"}), Lines, p)
           other == Units(adjusted, Change, p)
           cash == Units(Standing, SaleLines, p)
           otherNext == Units(adjusted', Change, p)
           cashNext == Units(Standing', SaleLines, p)
<1>1. /\ set \in Int /\ sold \in Int /\ other \in Int /\ cash \in Int
      /\ otherNext \in Int /\ cashNext \in Int /\ Opening[p] \in Int
  BY ShopSums, LinesTypes
<1>2. reserved[p] \in Int /\ onHand[p] \in Int /\ onHand'[p] \in Int
  BY PurseTypes, PurseTypesNext
<1>3. reserved[p] = set /\ onHand[p] = Opening[p] + other - sold - cash
  BY StockByProduct DEF ProductIsAccounted
<1>4. /\ onHand'[p] - onHand[p] = (otherNext - other) - (cashNext - cash)
      /\ onHand'[p] >= reserved[p]
  OBVIOUS
<1>5. Units(With(Open)', Lines, p) = set /\ Units(With({"completed"})', Lines, p) = sold
  BY DEF With
<1>6. SUFFICES /\ reserved[p] = Units(With(Open)', Lines, p)
               /\ onHand'[p] = Opening[p] + otherNext
                     - Units(With({"completed"})', Lines, p) - cashNext
               /\ onHand'[p] >= reserved[p]
  BY DEF ProductIsAccounted
<1> HIDE DEF set, sold, other, cash, otherNext, cashNext
<1> QED
  BY <1>1, <1>2, <1>3, <1>4, <1>5

LEMMA ShopTypes ==
  ASSUME IInv
  PROVE  /\ adjusted \subseteq Adjustments /\ IsFiniteSet(adjusted)
         /\ Standing \subseteq Sales /\ IsFiniteSet(Standing)
         /\ sale \in [Sales -> {"absent", "recorded", "voided"}]
         /\ voids \in [Sales -> 0..MaxVoids] /\ MaxVoids \in Nat
BY RequestsAssumption, FS_Subset DEF IInv, TypeOK, RequestsTypeOK, Standing

LEMMA AdjustStockKept ==
  ASSUME IInv, IInv', StockIsAccounted, NEW a \in Adjustments, AdjustStock(a)
  PROVE  StockIsAccounted'
<1>1. /\ a \notin adjusted /\ adjusted' = adjusted \cup {a} /\ adjusted' \subseteq Adjustments
      /\ adjusted \ {a} = adjusted' \ {a}
  BY ShopTypes DEF AdjustStock
<1>2. Standing' = Standing
  BY DEF AdjustStock, Standing
<1>3. ASSUME NEW p \in Products
      PROVE  /\ onHand'[p] - onHand[p] =
                  (Units(adjusted', Change, p) - Units(adjusted, Change, p))
                  - (Units(Standing', SaleLines, p) - Units(Standing, SaleLines, p))
             /\ onHand'[p] >= reserved[p]
             /\ Units(adjusted', Change, p) \in Int /\ Units(Standing', SaleLines, p) \in Int
  <2>1. /\ Units(adjusted, Change, p) \in Int
        /\ Units(adjusted', Change, p) = Units(adjusted, Change, p)
             + (IF a \in adjusted' THEN Change[a][p] ELSE 0)
             - (IF a \in adjusted THEN Change[a][p] ELSE 0)
    BY <1>1, ShopTypes, LinesTypes, UnitsMove
  <2>2. Units(adjusted', Change, p) = Units(adjusted, Change, p) + Change[a][p]
        /\ Change[a][p] \in Int
    BY <1>1, <2>1, LinesTypes
  <2>3. onHand'[p] = onHand[p] + Change[a][p] /\ onHand'[p] >= reserved[p]
    BY DEF AdjustStock, Plus
  <2>4. Units(Standing, SaleLines, p) \in Int /\ onHand[p] \in Int
    BY ShopSums, PurseTypes
  <2> QED
    BY <1>2, <2>1, <2>2, <2>3, <2>4
<1> QED
  BY <1>3, ShelfMoves DEF AdjustStock, requestVars

\* A cash sale is made, or put back.
LEMMA SaleMoves ==
  ASSUME IInv, IInv', StockIsAccounted, NEW s \in Sales, UNCHANGED <<request, reserved, adjusted>>,
         \A t \in Sales \ {s} : sale'[t] = sale[t],
         \A p \in Products :
           /\ onHand'[p] = onHand[p] + (IF sale[s] = "recorded" THEN SaleLines[s][p] ELSE 0)
                             - (IF sale'[s] = "recorded" THEN SaleLines[s][p] ELSE 0)
           /\ onHand'[p] >= reserved[p]
  PROVE  StockIsAccounted'
<1> DEFINE S == Standing
           T == Standing'
<1>1. /\ S \subseteq Sales /\ T \subseteq Sales /\ IsFiniteSet(S)
      /\ (s \in S <=> sale[s] = "recorded") /\ (s \in T <=> sale'[s] = "recorded")
  BY ShopTypes DEF Standing
<1>2. \A t \in Sales \ {s} : t \in S <=> t \in T
  BY DEF Standing
<1> HIDE DEF S, T
<1>3. S \ {s} = T \ {s}
  BY <1>1, <1>2
<1>4. ASSUME NEW p \in Products
      PROVE  /\ onHand'[p] - onHand[p] =
                  (Units(adjusted', Change, p) - Units(adjusted, Change, p))
                  - (Units(T, SaleLines, p) - Units(S, SaleLines, p))
             /\ onHand'[p] >= reserved[p]
             /\ Units(adjusted', Change, p) \in Int /\ Units(T, SaleLines, p) \in Int
  <2> DEFINE before == IF sale[s] = "recorded" THEN SaleLines[s][p] ELSE 0
             after == IF sale'[s] = "recorded" THEN SaleLines[s][p] ELSE 0
  <2>1. /\ Units(S, SaleLines, p) \in Int
        /\ Units(T, SaleLines, p) = Units(S, SaleLines, p)
             + (IF s \in T THEN SaleLines[s][p] ELSE 0) - (IF s \in S THEN SaleLines[s][p] ELSE 0)
    BY <1>1, <1>3, LinesTypes, UnitsMove
  <2>2. Units(T, SaleLines, p) = Units(S, SaleLines, p) + after - before
    BY <1>1, <2>1
  <2>3. before \in Int /\ after \in Int
    BY LinesTypes
  <2>4. onHand'[p] = onHand[p] + before - after /\ onHand'[p] >= reserved[p]
    OBVIOUS
  <2>5. adjusted' = adjusted /\ Units(adjusted, Change, p) \in Int /\ onHand[p] \in Int
    BY ShopSums, PurseTypes
  <2> HIDE DEF before, after
  <2> QED
    BY <2>1, <2>2, <2>3, <2>4, <2>5
<1> QED
  BY <1>4, ShelfMoves DEF S, T

LEMMA ShopStockKept ==
  ASSUME IInv, IInv', VoidInv, StockIsAccounted, ShopStep, UNCHANGED request
  PROVE  StockIsAccounted'
<1>1. \A p \in Products : /\ reserved[p] \in Int /\ onHand[p] \in Int /\ onHand[p] >= reserved[p]
  BY StockByProduct, PurseTypes DEF ProductIsAccounted
<1>2. ASSUME NEW s \in Sales, CashSale(s) PROVE StockIsAccounted'
  <2>1. /\ sale[s] # "recorded" /\ sale'[s] = "recorded"
        /\ \A t \in Sales \ {s} : sale'[t] = sale[t]
    BY <1>2, ShopTypes DEF CashSale
  <2>2. \A p \in Products : onHand'[p] = onHand[p] - SaleLines[s][p] /\ onHand'[p] >= reserved[p]
    BY <1>1, <1>2, LinesTypes DEF CashSale, Minus, Available
  <2>3. \A p \in Products :
           /\ onHand'[p] = onHand[p] + (IF sale[s] = "recorded" THEN SaleLines[s][p] ELSE 0)
                             - (IF sale'[s] = "recorded" THEN SaleLines[s][p] ELSE 0)
           /\ onHand'[p] >= reserved[p]
    BY <1>1, <2>1, <2>2, LinesTypes
  <2> QED
    BY <1>2, <2>1, <2>3, SaleMoves DEF CashSale
<1>3. ASSUME NEW s \in Sales, ReadRecordedSale(s) PROVE StockIsAccounted'
  BY <1>3 DEF ReadRecordedSale, StockIsAccounted, ReservedStockIsBacked, StockIsConserved,
     stockVars
<1>4. ASSUME NEW s \in Sales, VoidCashSale(s) PROVE StockIsAccounted'
  <2>1. /\ sale[s] = "recorded" /\ sale'[s] # "recorded"
        /\ \A t \in Sales \ {s} : sale'[t] = sale[t]
    BY <1>4, ShopTypes DEF VoidCashSale, VoidInv
  <2>2. \A p \in Products : onHand'[p] = onHand[p] + SaleLines[s][p] /\ onHand'[p] >= reserved[p]
    BY <1>1, <1>4, LinesTypes DEF VoidCashSale, Plus
  <2>3. \A p \in Products :
           /\ onHand'[p] = onHand[p] + (IF sale[s] = "recorded" THEN SaleLines[s][p] ELSE 0)
                             - (IF sale'[s] = "recorded" THEN SaleLines[s][p] ELSE 0)
           /\ onHand'[p] >= reserved[p]
    BY <1>1, <2>1, <2>2, LinesTypes
  <2> QED
    BY <1>4, <2>1, <2>3, SaleMoves DEF VoidCashSale
<1> QED
  BY <1>2, <1>3, <1>4, AdjustStockKept DEF ShopStep

LEMMA VoidsKept ==
  ASSUME IInv, VoidInv, MaxVoids <= 1, ShopStep \/ UNCHANGED <<sale, voids>>
  PROVE  VoidInv'
<1>1. ASSUME NEW s \in Sales, CashSale(s) \/ ReadRecordedSale(s) \/ VoidCashSale(s)
      PROVE  VoidInv'
  <2>1. \A t \in Sales : voids[t] \in 0..1
    BY ShopTypes
  <2> QED
    BY <1>1, <2>1, ShopTypes DEF CashSale, ReadRecordedSale, VoidCashSale, VoidInv
<1>2. ASSUME UNCHANGED <<sale, voids>> PROVE VoidInv'
  BY <1>2 DEF VoidInv
<1> QED
  BY <1>1, <1>2 DEF ShopStep, AdjustStock

LEMMA StockKept ==
  ASSUME IInv, IInv', PaymentInv, PaymentInv', VoidInv, StockIsAccounted, BookStep
  PROVE  StockIsAccounted'
<1> USE PurseTypes
<1>1. ASSUME UNCHANGED <<request, Stock>> PROVE StockIsAccounted'
  BY <1>1 DEF Stock, StockIsAccounted, ReservedStockIsBacked, StockIsConserved
<1>2. ASSUME NEW r \in Requests, Issue(r) PROVE StockIsAccounted'
  <2>1. /\ \A s \in Requests \ {r} : request'[s] = request[s]
        /\ request[r] = "absent" /\ request'[r] = "pending"
    BY <1>2 DEF Issue, SetRequest
  <2>2. \A p \in Products : /\ reserved'[p] = reserved[p] + Lines[r][p] /\ onHand'[p] = onHand[p]
                            /\ onHand'[p] >= reserved'[p]
                            /\ reserved[p] \in Int /\ onHand[p] \in Int /\ Lines[r][p] \in Int
    BY <1>2, LinesTypes DEF Issue, Plus, Available
  <2>3. \A p \in Products :
           /\ reserved'[p] = reserved[p] + (IF request'[r] \in Open THEN Lines[r][p] ELSE 0)
                               - (IF request[r] \in Open THEN Lines[r][p] ELSE 0)
           /\ onHand'[p] = onHand[p] - (IF request'[r] \in {"completed"} THEN Lines[r][p] ELSE 0)
                             + (IF request[r] \in {"completed"} THEN Lines[r][p] ELSE 0)
           /\ onHand'[p] >= reserved'[p]
    BY <2>1, <2>2 DEF Open
  <2> QED
    BY <1>2, <2>1, <2>3, RequestStock DEF Issue, shopVars
<1>3. ASSUME NEW r \in Requests, NEW s \in {"expired", "cancelled"}, Withdraw(r, s)
      PROVE  StockIsAccounted'
  <2>1. /\ request[r] \in Open /\ request[r] # "completed" /\ request'[r] = s
        /\ \A t \in Requests \ {r} : request'[t] = request[t]
    BY <1>3 DEF Withdraw, SetRequest, Open
  <2> QED
    BY <1>3, <2>1, StockLeaves DEF Withdraw, ReleaseReservedInventory, shopVars
<1>4. ASSUME NEW c \in Callers, ExpiresOther(c) PROVE StockIsAccounted'
  <2> DEFINE r == Pays(c)
  <2>1. r \in Requests /\ \A s \in Requests \ {r} : request'[s] = request[s]
    BY <1>4 DEF ExpiresOther, SetRequest
  <2>2. \A p \in Products : Lines[r][p] = 0
    BY <1>4, <2>1, RequestsAssumption DEF ExpiresOther
  <2> QED
    BY <1>4, <2>1, <2>2, StockStays DEF ExpiresOther, Stock
<1>5. ASSUME NEW k \in Keys, Claims(k) PROVE StockIsAccounted'
  <2> DEFINE r == RequestOf[k]
  <2>1. /\ r \in Requests /\ request[r] \in Open /\ request'[r] \in Open
        /\ \A s \in Requests \ {r} : request'[s] = request[s]
    BY <1>5, ConstantTypes DEF Claims, SetRequest, Open
  <2> QED
    BY <1>5, <2>1, StockStays DEF Claims, Stock
<1>6. ASSUME NEW k \in Keys, PaysMerchant(k) PROVE StockIsAccounted'
  <2> DEFINE r == RequestOf[k]
  <2>1. /\ r \in Requests /\ request[r] \in Open /\ request[r] # "completed"
        /\ request'[r] = "completed" /\ \A s \in Requests \ {r} : request'[s] = request[s]
    BY <1>6, ConstantTypes DEF PaysMerchant, Records, FinalizeMerchantPayment, SetRequest, Open
  <2>2. reserved' = Minus(reserved, Lines[r]) /\ onHand' = Minus(onHand, Lines[r])
    BY <1>6 DEF PaysMerchant, FinalizeMerchantPayment, SettleReservedInventory
  <2> QED
    BY <1>6, <2>1, <2>2, StockLeaves DEF PaysMerchant
<1>7. ASSUME NEW k \in Keys, PaysCustomer(k) PROVE StockIsAccounted'
  <2> DEFINE r == RequestOf[k]
  <2>1. r \in Requests /\ \A s \in Requests \ {r} : request'[s] = request[s]
    BY <1>7, ConstantTypes DEF PaysCustomer, FinalizeConsumerPayment, SetRequest
  <2>2. \A p \in Products : Lines[r][p] = 0
    BY <1>7, <2>1, RequestsAssumption DEF PaysCustomer, Merchant, MerchantKinds
  <2> QED
    BY <1>7, <2>1, <2>2, StockStays DEF PaysCustomer, Stock
<1>8. ASSUME NEW r \in Requests, GivesBack(r) PROVE StockIsAccounted'
  <2>1. /\ request'[r] = "failed" /\ \A s \in Requests \ {r} : request'[s] = request[s]
        /\ reserved' = Minus(reserved, Lines[r]) /\ onHand' = onHand
    BY <1>8 DEF GivesBack, MarkMerchantPaymentFailed, SetRequest, ReleaseReservedInventory
  <2>2. request[r] = "processing" \/ ExpiredCharge(r)
    BY <1>8, GivenBackWasHeld
  <2>3. /\ request[r] \in Open \/ \A p \in Products : Lines[r][p] = 0
        /\ request[r] # "completed"
    BY <2>2, RequestsAssumption DEF ExpiredCharge, Open
  <2> QED
    BY <1>8, <2>1, <2>3, StockLeaves DEF GivesBack
<1> QED
  BY <1>1, <1>2, <1>3, <1>4, <1>5, <1>6, <1>7, <1>8, ShopStockKept DEF BookStep

\* Voids are requests of the shop and of nobody else.
LEMMA VoidSteps ==
  ASSUME [Next]_vars
  PROVE  ShopStep \/ UNCHANGED <<sale, voids>>
<1>1. ASSUME UNCHANGED shopVars PROVE UNCHANGED <<sale, voids>>
  BY <1>1 DEF shopVars
<1>2. ASSUME NEW c \in Callers, CallerStep(c) \/ SignFails(c) \/ Throw(c) \/ CallEnds(c)
      PROVE  UNCHANGED <<sale, voids>>
  <2>1. CASE Expire(c)
    BY <1>1, <2>1 DEF Expire, ExpireResolved, Withdraw
  <2> QED
    BY <1>1, <1>2, <2>1 DEF CallerStep, SignFails, Throw, CallEnds, ClaimMerchantPayment,
       AssertAvailableBalance, LookUp, RecordSignature, RecoverTransfer, Sign, CheckSaved,
       Broadcast, OnSubmitted, Confirm, Finalize, MarkFailed, FailUnsubmitted, CheckRow, Others
<1>3. ASSUME NEW q \in Recoverers, RecovererStep(q) \/ PassEnds(q) PROVE UNCHANGED <<sale, voids>>
  BY <1>1, <1>3 DEF RecovererStep, PassEnds, StartPass, Attach, FinalizeRow, MarkRowFailed,
     LookForRow, CheckChain, Unchanged
<1>4. ASSUME NEW r \in Requests, RequestStep(r) PROVE UNCHANGED <<sale, voids>>
  BY <1>1, <1>4 DEF RequestStep, Issue, ExpiryPasses, Cancel, ExpireStale, Withdraw
<1>5. ASSUME \/ \E c \in Callers, k \in Keys : Execute(c, k)
             \/ \E r \in Requests : ClaimGetsLate(r)
             \/ \E k \in Keys : Land(k) \/ Die(k)
             \/ UNCHANGED vars
      PROVE  UNCHANGED <<sale, voids>>
  BY <1>1, <1>5 DEF Execute, ClaimGetsLate, Land, Die, Others, vars
<1> QED
  BY <1>2, <1>3, <1>4, <1>5 DEF Next

\* Before anything happened, the books are empty.
LEMMA InitBooks ==
  ASSUME Init
  PROVE  BalancesMatchLedger /\ PendingIsBacked /\ StockIsAccounted /\ VoidInv
<1>1. ASSUME NEW x \in Wallets
      PROVE  {k \in ledger : Payer[k] = x} = {} /\ {k \in ledger : Payee[RequestOf[k]] = x} = {}
             /\ {r \in Requests : request[r] = "processing" /\ Payer[attemptKey[r]] = x} = {}
  BY DEF Init, RequestsInit
<1>2. available = OpeningBalance /\ \A x \in Wallets : pending[x] = 0 /\ OpeningBalance[x] \in Nat
  BY PaymentAssumption DEF Init
<1>3. BalancesMatchLedger
  <2> SUFFICES ASSUME NEW x \in Wallets
               PROVE  available[x] + pending[x] = OpeningBalance[x]
                        - SumFunctionOnSet(Price, {k \in ledger : Payer[k] = x})
                        + SumFunctionOnSet(Price, {k \in ledger : Payee[RequestOf[k]] = x})
    BY DEF BalancesMatchLedger
  <2>1. SumFunctionOnSet(Price, {k \in ledger : Payer[k] = x}) = 0
    BY <1>1, SumOfNone, Zenon
  <2>2. SumFunctionOnSet(Price, {k \in ledger : Payee[RequestOf[k]] = x}) = 0
    BY <1>1, SumOfNone, Zenon
  <2>3. available[x] = OpeningBalance[x] /\ pending[x] = 0 /\ OpeningBalance[x] \in Nat
    BY <1>2
  <2> QED
    BY <2>1, <2>2, <2>3
<1>4. PendingIsBacked
  BY <1>1, <1>2, SumOfNone DEF PendingIsBacked
<1>5. /\ adjusted = {} /\ {r \in Requests : request[r] = "completed"} = {}
      /\ {s \in Sales : sale[s] = "recorded"} = {}
      /\ {r \in Requests : request[r] \in {"pending", "processing"}} = {}
  BY DEF Init, RequestsInit
<1>6. onHand = Opening /\ \A p \in Products : reserved[p] = 0 /\ Opening[p] \in Nat
  BY RequestsAssumption DEF Init, RequestsInit
<1>7. \A lines, p : Units({}, lines, p) = 0
  BY SumOfNone DEF Units
<1>8. StockIsAccounted
  <2>1. ReservedStockIsBacked
    BY <1>5, <1>6, <1>7 DEF ReservedStockIsBacked
  <2>2. StockIsConserved
    <3> SUFFICES ASSUME NEW p \in Products
                 PROVE  /\ onHand[p] = Opening[p] + Units({}, Change, p) - Units({}, Lines, p)
                                          - Units({}, SaleLines, p)
                        /\ onHand[p] >= reserved[p]
      BY <1>5 DEF StockIsConserved
    <3>1. onHand[p] = Opening[p] /\ reserved[p] = 0 /\ Opening[p] \in Nat
      BY <1>6
    <3>2. Units({}, Change, p) = 0 /\ Units({}, Lines, p) = 0 /\ Units({}, SaleLines, p) = 0
      BY <1>7, Zenon
    <3> QED
      BY <3>1, <3>2
  <2> QED
    BY <2>1, <2>2 DEF StockIsAccounted
<1>9. VoidInv
  BY DEF Init, RequestsInit, VoidInv
<1> QED
  BY <1>3, <1>4, <1>8, <1>9

-------------------------------------------------------------------------------
(* The theorems                                                            *)

\* Requests, stock, attempts, balances and calls stay within their types, so
\* that no wallet and no product ever goes below zero: every transaction of
\* PaymentsService takes only what is there.
THEOREM TypeCorrect == Spec => []TypeOK
<1>1. IInv => TypeOK
  BY DEF IInv
<1>2. QED
  BY <1>1, Invariant, PTL

\* A merchant's request is paid by one key only, for any number of payers,
\* repeated calls, recoverers, crashes and stalls (claimMerchantPayment and
\* the intent row of the transfer).
THEOREM OnePayment == Spec => []OnePaymentPerRequest
<1>1. IInv => OnePaymentPerRequest
  BY DEF IInv
<1>2. QED
  BY <1>1, Invariant, PTL

\* The ledger records a payment only when its tokens have landed, whoever of
\* call and recovery records it (finalizeMerchantPayment, finalizeConsumerPayment).
THEOREM RecordedAfterLanding == Spec => []RecordedOnlyAfterLanding
<1>1. IInv => RecordedOnlyAfterLanding
  BY DEF IInv
<1>2. QED
  BY <1>1, Invariant, PTL

\* A merchant payment that failed has moved nothing and never will, whoever of
\* call and recovery failed it (markMerchantPaymentFailed), while one recovery
\* pass runs at a time and nobody sleeps for minutes between two steps.
THEOREM FailedMovedNothing ==
  ASSUME ~MayStall, OnePass
  PROVE  Spec => []FailureMovedNothing
<1>1. IInv /\ PaymentInv => FailureMovedNothing
  <2> SUFFICES ASSUME IInv, PaymentInv, NEW r \in Requests, request[r] = "failed"
               PROVE  chain[attemptKey[r]] \in {"none", "dead"}
    BY DEF FailureMovedNothing
  <2>1. AttemptAgrees(r) /\ ChainAgrees(r)
    BY DEF PaymentInv, RequestInv
  <2>2. attempt[r] = "failed"
    BY <2>1, PaymentTypes DEF AttemptAgrees, ExpiredCharge, AttemptStatuses, Unfinished
  <2> QED
    BY <2>1, <2>2 DEF ChainAgrees
<1>2. QED
  BY <1>1, PaymentInvariant, PTL

\* Every wallet holds what it opened with, less what the ledger debits and plus
\* what it credits, whatever stalls, crashes and overlaps: the claim, the
\* return of a reservation and the two finalizations move whole amounts.
THEOREM BalancesFollowLedger == Spec => []BalancesMatchLedger
<1>1. Init => BalancesMatchLedger
  BY InitBooks
<1>2. IInv /\ IInv' /\ BalancesMatchLedger /\ [Next]_vars => BalancesMatchLedger'
  BY BookSteps, BalancesKept
<1>3. QED
  BY <1>1, <1>2, Invariant, PTL DEF Spec

\* What is pending in a wallet is the sum of the payments that are being made
\* from it, while one recovery pass runs at a time, nobody sleeps for minutes
\* between two steps and only invoices expire (resolveInternal expires a charge
\* under way, and then keeps its reservation).
THEOREM PendingBacked ==
  ASSUME ~MayStall, OnePass, \A r \in MayExpire : Kind[r] = "invoice"
  PROVE  Spec => []PendingIsBacked
<1>1. Init => PendingIsBacked
  BY InitBooks
<1>2. /\ IInv /\ PaymentInv /\ (IInv /\ PaymentInv)' /\ PendingIsBacked /\ [Next]_vars
      => PendingIsBacked'
  BY BookSteps, PendingKept
<1>3. QED
  BY <1>1, <1>2, PaymentInvariant, PTL DEF Spec

\* The stock adds up: what is set aside is what open invoices ask for, and the
\* shelf is what sales, adjustments and paid invoices leave and covers it
\* (merchant-inventory.service.ts with its callers), while one recovery pass
\* and one request to void a sale run at a time and nobody sleeps for minutes
\* between two steps.
THEOREM StockAddsUp ==
  ASSUME ~MayStall, OnePass, MaxVoids <= 1
  PROVE  Spec => []StockIsAccounted
<1>1. Init => StockIsAccounted /\ VoidInv
  BY InitBooks
<1>2. /\ IInv /\ PaymentInv /\ (IInv /\ PaymentInv)' /\ StockIsAccounted /\ VoidInv /\ [Next]_vars
      => (StockIsAccounted /\ VoidInv)'
  BY BookSteps, StockKept, VoidSteps, VoidsKept
<1>3. QED
  BY <1>1, <1>2, PaymentInvariant, PTL DEF Spec

\* No late call, pass or sweep takes back how a request was answered, under the
\* hypotheses of PendingBacked.
THEOREM ClosedStaysClosed ==
  ASSUME ~MayStall, OnePass, \A r \in MayExpire : Kind[r] = "invoice"
  PROVE  Spec => ClosedIsFinal
<1>1. IInv /\ PaymentInv /\ (IInv /\ PaymentInv)' /\ [Next]_vars
      => [\A r \in Requests : request[r] \in Closed => request'[r] = request[r]]_vars
  BY BookSteps, ClosedStays
<1>2. QED
  BY <1>1, PaymentInvariant, PTL DEF Spec, ClosedIsFinal

===============================================================================
