------------------------------ MODULE RevisionLog ------------------------------
(***************************************************************************)
(* What the change queue promises about the changes of one merchant: they  *)
(* are numbered as they are committed, a position moves along the numbers, *)
(* and each change is evaluated once, when the position passes it.  No     *)
(* change is skipped, none is evaluated twice, whatever the workers do.    *)
(***************************************************************************)
EXTENDS Integers

CONSTANT MaxRevision

VARIABLES
  length,    \* the last number that was given
  changes,   \* the numbers that stand for a change, and not for a mere request
  position,  \* everything up to here has been evaluated
  handled    \* how often each change has been

vars == <<length, changes, position, handled>>

Init ==
  /\ length = 0 /\ changes = {} /\ position = 0
  /\ handled = [n \in 1..MaxRevision |-> 0]

Append ==
  /\ length < MaxRevision
  /\ length' = length + 1
  /\ changes' \in {changes, changes \cup {length'}}
  /\ UNCHANGED <<position, handled>>

Advance ==
  /\ \E to \in (position + 1)..length :
       /\ position' = to
       /\ handled' = [n \in 1..MaxRevision |->
            IF n \in changes /\ position < n /\ n <= to THEN handled[n] + 1 ELSE handled[n]]
  /\ UNCHANGED <<length, changes>>

Next == Append \/ Advance

Spec == Init /\ [][Next]_vars

===============================================================================
