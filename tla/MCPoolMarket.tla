---------------------------- MODULE MCPoolMarket ----------------------------
(***************************************************************************)
(* Small instances of PoolMarket.  The clock has one instant before close, *)
(* one at close (= resolution available) and one at the deadline.          *)
(***************************************************************************)
EXTENDS PoolMarket, TLC

CONSTANTS m1, m2, a1, a2, a3

OneMarket  == {m1}
TwoMarkets == {m1, m2}

CreatorIsTrader == [m \in Markets |-> a1]
CloseAtOne      == [m \in Markets |-> 1]

TraderSymmetry == Permutations({a2, a3})
=============================================================================
