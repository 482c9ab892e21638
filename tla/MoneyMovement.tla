----------------------------- MODULE MoneyMovement -----------------------------
(***************************************************************************)
(* What the platform promises about a transfer between two of its wallets, *)
(* whoever steps it and whatever fails on the way: the tokens move at most *)
(* once, the books record it only after that, and a transfer the customer  *)
(* is told has failed moved nothing and never will.                        *)
(***************************************************************************)
CONSTANT Movements

VARIABLES
  moved,     \* the tokens have moved
  recorded,  \* the books show it
  refused    \* the customer was told that nothing happened

vars == <<moved, recorded, refused>>

Init == moved = {} /\ recorded = {} /\ refused = {}

Move(m) ==
  /\ m \notin moved \cup refused
  /\ moved' = moved \cup {m}
  /\ UNCHANGED <<recorded, refused>>

Record(m) ==
  /\ m \in moved \ recorded
  /\ recorded' = recorded \cup {m}
  /\ UNCHANGED <<moved, refused>>

Refuse(m) ==
  /\ m \notin moved \cup refused
  /\ refused' = refused \cup {m}
  /\ UNCHANGED <<moved, recorded>>

Next == \E m \in Movements : Move(m) \/ Record(m) \/ Refuse(m)

Spec == Init /\ [][Next]_vars

===============================================================================
