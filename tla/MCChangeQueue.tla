----------------------------- MODULE MCChangeQueue -----------------------------
(* An instance of ChangeQueue for TLC.                                        *)
EXTENDS ChangeQueue

CONSTANTS w1, w2

TwoWorkers == {w1, w2}

===============================================================================
