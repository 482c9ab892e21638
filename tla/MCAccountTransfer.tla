-------------------------- MODULE MCAccountTransfer ---------------------------
(* Instances of AccountTransfer for TLC.  Same: two transfers of one wallet,  *)
(* both covered, in flight together.  Back: the second transfer pays back out *)
(* of the first one's destination, and is covered only once that is credited. *)
EXTENDS AccountTransfer, TLC

CONSTANTS o1, o2, w1, w2, main, spend

Workers2       == {w1, w2}
WorkerSymmetry == Permutations(Workers2)
TwoWallets     == {main, spend}

Pair        == {o1, o2}
PairKind    == o1 :> "internal_transfer" @@ o2 :> "merchant_dayend"
PairAmount  == o1 :> 2 @@ o2 :> 1

SameSource  == o1 :> main @@ o2 :> main
SameTarget  == o1 :> spend @@ o2 :> spend
SameOpening == main :> 4 @@ spend :> 0


===============================================================================
