---------------------------- MODULE OperationState ----------------------------
(***************************************************************************)
(* The lifecycle of a durable money movement                               *)
(* (src/apps/api/src/financial-operations/operation-state.ts).  Pure       *)
(* definitions: which statuses a kind of operation goes through, which     *)
(* changes of status are legal, and what a worker does for an operation it *)
(* finds at a status.  No recursion, so that proofs may use the module.    *)
(***************************************************************************)
EXTENDS Naturals, Sequences

FundingKinds    == {"funding_card", "funding_bank"}
TransferKinds   == {"internal_transfer", "merchant_dayend"}
WithdrawalKinds == {"withdrawal_bank", "withdrawal_card"}

OperationKinds ==
  FundingKinds \cup TransferKinds \cup WithdrawalKinds \cup {"reversal"}

\* The statuses a worker may find and step.
InFlight ==
  {"created", "reserved", "collection_pending", "collection_settled",
   "chain_submitted", "chain_confirmed", "payout_submitted",
   "payout_settled", "compensating"}

Terminal == {"finalized", "failed", "reversed"}

OperationStatuses == InFlight \cup Terminal

\* Statuses at which value has genuinely moved.
Irreversible == {"chain_confirmed", "payout_submitted", "payout_settled"}

FundingSequence ==
  <<"created", "collection_pending", "collection_settled",
    "chain_submitted", "chain_confirmed", "finalized">>

TransferSequence ==
  <<"created", "reserved", "chain_submitted", "chain_confirmed", "finalized">>

WithdrawalSequence ==
  <<"created", "reserved", "chain_submitted", "chain_confirmed",
    "payout_submitted", "payout_settled", "finalized">>

ReversalSequence ==
  <<"created", "chain_submitted", "chain_confirmed", "finalized">>

StepSequence(kind) ==
  CASE kind \in FundingKinds    -> FundingSequence
    [] kind \in TransferKinds   -> TransferSequence
    [] kind \in WithdrawalKinds -> WithdrawalSequence
    [] OTHER                    -> ReversalSequence

\* nextStatus(kind, from) = to
IsNextStatus(kind, from, to) ==
  LET seq == StepSequence(kind)
  IN  \E i \in 1 .. Len(seq) - 1 : seq[i] = from /\ seq[i + 1] = to

\* A funding whose collection has settled: the customer's money is with the
\* platform, so failing it outright is no longer possible.
CollectedFunding(kind, from) ==
  /\ kind \in FundingKinds
  /\ from \in {"collection_settled", "chain_submitted", "chain_confirmed"}

CanTransition(kind, from, to) ==
  /\ from \notin Terminal
  /\ IF from = "compensating" THEN to = "reversed"
     ELSE CASE to = "failed" ->
                 ~CollectedFunding(kind, from) /\ from \notin Irreversible
            [] to = "compensating" ->
                 IF CollectedFunding(kind, from) THEN from # "chain_confirmed"
                                                 ELSE from \in Irreversible
            [] to = "reversed" -> FALSE
            [] OTHER -> IsNextStatus(kind, from, to)

ResumeAction(kind, status) ==
  CASE status = "created"            -> "start"
    [] status = "collection_pending" -> "poll_collection"
    [] status \in {"collection_settled", "reserved"} -> "submit_chain"
    [] status = "chain_submitted"    -> "check_chain"
    [] status = "chain_confirmed" ->
         IF kind \in WithdrawalKinds THEN "submit_payout" ELSE "finalize"
    [] status = "payout_submitted"   -> "poll_payout"
    [] status = "payout_settled"     -> "finalize"
    [] status = "compensating"       -> "complete_compensation"
    [] OTHER                         -> "none"

===============================================================================
