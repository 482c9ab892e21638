----------------------------- MODULE MCChangeCases -----------------------------
(* An instance of ChangeCases for TLC.                                        *)
EXTENDS ChangeCases

CONSTANT p1

OneProduct == {p1}

Week(trade, gap) == [trade |-> trade, gap |-> gap]

\* While little is recorded, a week can be a rise or nothing.
SomeWeeks ==
  {Week(t, FALSE) : t \in {"rising", "falling", "usual"}}
    \cup {Week(t, TRUE) : t \in {"rising", "usual"}}

===============================================================================
