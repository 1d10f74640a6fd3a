----------------------------- MODULE MCPayouts -----------------------------
(***************************************************************************)
(* Instances of Tracker for TLC: one player with a withdrawal and a prize, *)
(* or with a withdrawal alone.                                             *)
(***************************************************************************)
EXTENDS Tracker, TLC

CONSTANTS u1, w1, z1, k1, k2

OneOwner == [p \in Payouts |-> u1]
UnitAmount == [p \in Payouts |-> 1]
OpeningOne == [u \in Users |-> 1]

MinusOne == -1
NoAmounts == {}
Debit == {-1}
WorkerSymmetry == Permutations(Workers)
============================================================================
