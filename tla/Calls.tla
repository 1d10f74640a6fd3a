-------------------------------- MODULE Calls --------------------------------
(* What the modules of calls in progress share: the mark of an idle call and  *)
(* of a field that holds nothing (null), and the one of a set of at most one. *)
CONSTANT Free
One(s) == IF s = {} THEN Free ELSE CHOOSE x \in s : TRUE
=============================================================================
