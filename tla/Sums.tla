-------------------------------- MODULE Sums --------------------------------
(* The sum of f[x] for x in S: how the properties count the tokens of a set *)
(* of withdrawals, orders, fees or wallets.                                 *)
EXTENDS Integers, FiniteSetsExt
SumOver(f, S) == MapThenSumSet(LAMBDA x : f[x], S)
=============================================================================
