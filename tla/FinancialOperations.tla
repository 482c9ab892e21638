-------------------------- MODULE FinancialOperations --------------------------
(***************************************************************************)
(* The operation table, the leases workers take on its rows, the balances  *)
(* and the ledger: the state behind FinancialOperationsService             *)
(* (financial-operations.service.ts) and OperationLedgerService            *)
(* (operation-ledger.service.ts), and the effects of their methods.  Each  *)
(* method is one SQL statement or one transaction with the status guard    *)
(* inside it, so each is one atomic effect here; what happens between two  *)
(* calls is left to the modules that compose them.                         *)
(*                                                                         *)
(* A wallet column that is null in the row stands for the platform side of *)
(* the movement and is written Treasury: a withdrawal goes from a wallet   *)
(* to the Treasury, a funding from the Treasury to a wallet.               *)
(***************************************************************************)
EXTENDS OperationState, FiniteSets

CONSTANTS
  Operations,     \* operations that may be created
  Workers,        \* runners: a sweep or a webhook's nudge, each with its id
  NoWorker,       \* claimedBy of an unclaimed row
  Wallets,        \* wallets with a balance row
  Treasury,       \* the platform's side of a movement
  Kind,           \* kind of each operation
  Amount,         \* amountBaseUnits of each operation
  Source,         \* sourceWalletId, Treasury when null
  Destination,    \* destinationWalletId, Treasury when null
  Opening,        \* available balance of each wallet before any operation
  LeaseMayLapse   \* whether the lease of a live worker can run out

ASSUME WorkersAssumption == NoWorker \notin Workers
ASSUME WalletsAssumption == Treasury \notin Wallets
ASSUME OperationsAssumption == IsFiniteSet(Operations)
ASSUME KindAssumption    == Kind \in [Operations -> OperationKinds]
ASSUME AmountAssumption  == Amount \in [Operations -> Nat \ {0}]
ASSUME RouteAssumption ==
  /\ Source \in [Operations -> Wallets \cup {Treasury}]
  /\ Destination \in [Operations -> Wallets \cup {Treasury}]
  /\ \A o \in Operations : Source[o] # Destination[o]
ASSUME OpeningAssumption == Opening \in [Wallets -> Nat]
ASSUME LeaseAssumption   == LeaseMayLapse \in BOOLEAN

VARIABLES
  status,          \* the row's status, "absent" while there is no row
  chainSignature,  \* whether the row carries a chain signature
  claimedBy,       \* claimedBy
  claimLive,       \* whether claimedUntil is in the future
  available,       \* balances.available
  pending,         \* balances.pending
  ledger           \* operations with an entry keyed operation:<id>

rowVars     == <<status, chainSignature>>
leaseVars   == <<claimedBy, claimLive>>
balanceVars == <<available, pending>>

RowsTypeOK ==
  /\ status \in [Operations -> OperationStatuses \cup {"absent"}]
  /\ chainSignature \in [Operations -> BOOLEAN]
  /\ claimedBy \in [Operations -> Workers \cup {NoWorker}]
  /\ claimLive \in [Operations -> BOOLEAN]
  /\ available \in [Wallets -> Nat]
  /\ pending \in [Wallets -> Nat]
  /\ ledger \subseteq Operations

RowsInit ==
  /\ status = [o \in Operations |-> "absent"]
  /\ chainSignature = [o \in Operations |-> FALSE]
  /\ claimedBy = [o \in Operations |-> NoWorker]
  /\ claimLive = [o \in Operations |-> FALSE]
  /\ available = Opening
  /\ pending = [x \in Wallets |-> 0]
  /\ ledger = {}

-------------------------------------------------------------------------------
(* Status changes                                                          *)

CanMove(o, to) ==
  /\ status[o] # "absent"
  /\ CanTransition(Kind[o], status[o], to)

\* advance, fail, beginCompensation: the guarded UPDATE moves the row, or the
\* call throws and nothing is written.
MoveOrThrow(o, to) ==
  status' = IF CanMove(o, to) THEN [status EXCEPT ![o] = to] ELSE status

\* begin, for an idempotency key that is not in the table yet.
InsertRow(o) ==
  /\ status[o] = "absent"
  /\ status' = [status EXCEPT ![o] = "created"]

-------------------------------------------------------------------------------
(* Leases                                                                  *)

\* claim: the row is free, or its lease has run out.
TakeLease(o, w) ==
  /\ ~claimLive[o]
  /\ claimedBy' = [claimedBy EXCEPT ![o] = w]
  /\ claimLive' = [claimLive EXCEPT ![o] = TRUE]

\* release: only the row's own claimant clears it.
DropLease(o, w) ==
  IF claimedBy[o] = w
    THEN /\ claimedBy' = [claimedBy EXCEPT ![o] = NoWorker]
         /\ claimLive' = [claimLive EXCEPT ![o] = FALSE]
    ELSE UNCHANGED leaseVars

\* renew: a heartbeat prolongs the lease of the row's claimant.
RenewLease(o, w) ==
  /\ claimedBy[o] = w
  /\ claimLive' = [claimLive EXCEPT ![o] = TRUE]
  /\ UNCHANGED claimedBy

-------------------------------------------------------------------------------
(* Balances and the ledger                                                 *)

Shift(balance, x, by) == [balance EXCEPT ![x] = @ + by]
Less(balance, x, by)  == [balance EXCEPT ![x] = @ - by]

\* Mutant of ReserveBalance: the status guard of the UPDATE is missing.
ReserveAnyStatus(o) ==
  IF available[Source[o]] >= Amount[o]
    THEN /\ status' = [status EXCEPT ![o] = "reserved"]
         /\ available' = Less(available, Source[o], Amount[o])
         /\ pending' = Shift(pending, Source[o], Amount[o])
    ELSE /\ status' = [status EXCEPT ![o] = "failed"]
         /\ UNCHANGED balanceVars

\* reserveBalance: a refusal for lack of funds is committed as a failure.
ReserveBalance(o) ==
  IF status[o] # "created" THEN UNCHANGED <<status, balanceVars>>
  ELSE IF available[Source[o]] >= Amount[o]
    THEN /\ status' = [status EXCEPT ![o] = "reserved"]
         /\ available' = Less(available, Source[o], Amount[o])
         /\ pending' = Shift(pending, Source[o], Amount[o])
    ELSE /\ status' = [status EXCEPT ![o] = "failed"]
         /\ UNCHANGED balanceVars

\* releaseBalanceAndEnd: the row is locked, checked and ended together with
\* its balance; a call that finds it ended already, or not endable, does nothing.
ReleaseBalanceAndEnd(o, end) ==
  IF CanMove(o, end) /\ pending[Source[o]] >= Amount[o]
    THEN /\ status' = [status EXCEPT ![o] = end]
         /\ available' = Shift(available, Source[o], Amount[o])
         /\ pending' = Less(pending, Source[o], Amount[o])
    ELSE UNCHANGED <<status, balanceVars>>

\* Whether the transaction around recordOnce commits: consumeReservation
\* throws, and rolls the entry back, when the reservation is not there.
CanRecord(o) ==
  o \in ledger \/ Source[o] = Treasury \/ pending[Source[o]] >= Amount[o]

\* Mutant of RecordOnce: the balances move even when the entry was there.
RecordAgain(o) ==
  /\ ledger' = ledger \cup {o}
  /\ pending' = IF Source[o] = Treasury THEN pending
                ELSE Less(pending, Source[o], Amount[o])
  /\ available' = IF Destination[o] = Treasury THEN available
                  ELSE Shift(available, Destination[o], Amount[o])

\* recordOnce, and with a new entry consumeReservation on the source wallet
\* and credit on the destination wallet, in one transaction.
RecordOnce(o) ==
  IF o \in ledger \/ ~CanRecord(o) THEN UNCHANGED <<ledger, balanceVars>>
  ELSE /\ ledger' = ledger \cup {o}
       /\ pending' = IF Source[o] = Treasury THEN pending
                     ELSE Less(pending, Source[o], Amount[o])
       /\ available' = IF Destination[o] = Treasury THEN available
                       ELSE Shift(available, Destination[o], Amount[o])

-------------------------------------------------------------------------------
(* What the books hold                                                     *)

\* Statuses at which an operation's amount is set aside on its source wallet.
HoldsReservation(o) ==
  /\ Source[o] # Treasury
  /\ status[o] \in InFlight \ {"created"}
  /\ o \notin ledger

===============================================================================
