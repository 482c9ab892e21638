------------------------- MODULE MCAccountWithdrawal --------------------------
(* An instance of AccountWithdrawal for TLC: a withdrawal stepped by two      *)
(* workers.                                                                   *)
EXTENDS AccountWithdrawal, TLC

CONSTANTS o1, w1, w2, main

Workers2       == {w1, w2}
OneWallet      == {main}

One            == {o1}
OneKind        == o1 :> "withdrawal_bank"
OneAmount      == o1 :> 1
OneSource      == o1 :> main
OneTarget      == o1 :> Treasury
OneOpening     == main :> 2

===============================================================================
