------------------------------ MODULE MCBracket ------------------------------
(* Four teams of two in a draw of two rounds, and cases against three of the *)
(* eight players: two of the tournament against the same player, and one     *)
(* that names the final match only.                                          *)
EXTENDS Bracket

CONSTANTS t1, t2, t3, t4, c1, c2, c3

MCSeed == <<t1, t2, t3, t4>>
MCMembers == [t \in Teams |-> <<<<t, 1>>, <<t, 2>>>>]
MCAccused == [c \in Cases |-> CASE c = c3 -> <<t1, 2>>
                                [] OTHER  -> <<t1, 1>>]

(* The teams nobody files a case against and the administrators are alike;   *)
(* the draw pairs t3 and t4, and a pair is a set to everything that reads it.*)
MCSymmetry == {f @@ g : f \in Permutations({t3, t4}), g \in Permutations(Admins)}

(* A bank takes a deposit back from the first accused player only; a         *)
(* correction makes either of the first two teams the champion.              *)
MCRulings == {<<t1, t2>>, <<t2, t1>>, <<t2, t3>>, <<t2, t4>>}
MCSpenders == {<<t1, 1>>}
==============================================================================
