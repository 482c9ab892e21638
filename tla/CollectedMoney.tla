---------------------------- MODULE CollectedMoney ----------------------------
(***************************************************************************)
(* What the platform owes for money it collects from a customer's card or  *)
(* bank: it delivers the matching tokens or it refunds the money, and it   *)
(* does not do both; a collection is closed, finalized or reversed in the  *)
(* customer's eyes, only after one of the two.                             *)
(***************************************************************************)
CONSTANT Collections

VARIABLES
  collected,  \* the customer's money has been taken
  delivered,  \* the tokens are in the customer's wallet
  refunded,   \* a refund has been ordered
  closed      \* the customer is told that all is settled

vars == <<collected, delivered, refunded, closed>>

Init == collected = {} /\ delivered = {} /\ refunded = {} /\ closed = {}

Collect(c) ==
  /\ c \notin collected
  /\ collected' = collected \cup {c}
  /\ UNCHANGED <<delivered, refunded, closed>>

Deliver(c) ==
  /\ c \in collected \ (delivered \cup refunded)
  /\ delivered' = delivered \cup {c}
  /\ UNCHANGED <<collected, refunded, closed>>

Refund(c) ==
  /\ c \in collected \ (delivered \cup refunded)
  /\ refunded' = refunded \cup {c}
  /\ UNCHANGED <<collected, delivered, closed>>

Close(c) ==
  /\ c \in (delivered \cup refunded) \ closed
  /\ closed' = closed \cup {c}
  /\ UNCHANGED <<collected, delivered, refunded>>

Next == \E c \in Collections : Collect(c) \/ Deliver(c) \/ Refund(c) \/ Close(c)

Spec == Init /\ [][Next]_vars

===============================================================================
