----------------------------- MODULE MCDeposits -----------------------------
(***************************************************************************)
(* Instances of Deposits for TLC.                                          *)
(***************************************************************************)
EXTENDS Deposits, TLC
CONSTANTS c1, c2

AmountTwo == [d \in Deposits |-> 2]
InDebtOrClear == {-1, 0}

Regime(inOrder, handlers, notices) ==
    [inOrder |-> inOrder, handlers |-> handlers, notices |-> notices]

AllRegimes == {Regime(TRUE, 1, 8), Regime(FALSE, 1, 7), Regime(FALSE, 2, 4)}

(* The second caller only repeats the first one's create, where the order of *)
(* notices is kept and nobody has died yet: there its late attachCheckout is *)
(* told from any other.                                                      *)
SecondRepeats ==
    pc'[c2] # "idle" =>
        delivery.inOrder /\ crashes' = 0 /\ pc'[c2] \in {"opened", "answered"}

MCSpec == Init /\ [][Next /\ SecondRepeats]_vars /\ Fairness
=============================================================================
