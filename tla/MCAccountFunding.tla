--------------------------- MODULE MCAccountFunding ---------------------------
(* An instance of AccountFunding for TLC: a bank debit, which may fail after *)
(* Checkout is completed, two runners and one webhook handler.               *)
EXTENDS AccountFunding, TLC

CONSTANTS o1, w1, w2, hook, main

Workers3    == {w1, w2, hook}
Runners2    == {w1, w2}
OneWallet   == {main}
One         == {o1}
OneAmount   == o1 :> 2
OneSource   == o1 :> Treasury
OneTarget   == o1 :> main
OneOpening  == main :> 1
OneKind     == o1 :> "funding_bank"

===============================================================================
