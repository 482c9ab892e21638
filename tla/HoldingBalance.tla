---------------------------- MODULE HoldingBalance ----------------------------
(***************************************************************************)
(* The USDC balance of a customer's Holding account (savings wallet) as    *)
(* the off-ramp and the on-ramp write it, with one update each.            *)
(***************************************************************************)
EXTENDS Integers, FiniteSets, Functions

CONSTANT Opening

ASSUME OpeningAssumption == Opening \in Nat

VARIABLES available, pending

balanceVars == <<available, pending>>

BalanceTypeOK == available \in Nat /\ pending \in Nat

BalanceInit == available = Opening /\ pending = 0

\* Conditional on the balance: the transaction it is part of fails otherwise.
Reserve(n) ==
  /\ available >= n
  /\ available' = available - n
  /\ pending' = pending + n

CanTakePending(n) == pending >= n

Settle(n) == pending' = pending - n /\ UNCHANGED available

Release(n) == pending' = pending - n /\ available' = available + n

Credit(n) == available' = available + n /\ UNCHANGED pending

===============================================================================
