------------------------------ MODULE LedgerOps ------------------------------
(***************************************************************************)
(* The floor rule of recordLedgerEntry, shared by every module whose       *)
(* transactions move a player's balance.                                   *)
(*                                                                         *)
(* recordLedgerEntry issues one conditional UPDATE on the user's row: the  *)
(* row must hold at least Floor(amount) tokens, unless the caller passed   *)
(* allowNegativeBalance.  The UPDATE keeps the row locked until the        *)
(* surrounding database transaction ends, so a module that performs the    *)
(* whole transaction in one action may use these operators directly.       *)
(***************************************************************************)
EXTENDS Integers

(* The balance an entry needs to find: a debit needs its own size, a credit  *)
(* needs zero (so an account below zero refuses credits as well).            *)
Floor(amount) == IF amount < 0 THEN -amount ELSE 0

(* The conditional UPDATE matches the row.                                   *)
Recordable(bal, amount) == bal >= Floor(amount)
=============================================================================
