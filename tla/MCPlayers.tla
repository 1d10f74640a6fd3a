------------------------------ MODULE MCPlayers -----------------------------
(* Players' accounts and their sign-ins: the second sees of the first only whether *)
(* the account is usable, so a behaviour exercises the one or the other.           *)
EXTENDS Accounts, PlayerSessions, TLC
CONSTANTS u1, u2, m1, m2, e1, w1, w2
VARIABLE part
vars == <<part, accountVars, playerSessionVars>>
MCAddressIn == e1 :> m2
MCFirstStatus == u1 :> "PENDING"
WorkerSymmetry == Permutations({w1, w2})
Init == part \in {"accounts", "sessions"} /\ AccountsInit /\ PlayerSessionsInit
Next == \/ part = "accounts" /\ AccountsNext /\ UNCHANGED <<part, playerSessionVars>>
        \/ part = "sessions" /\ PlayerSessionsNext /\ UNCHANGED <<part, accountVars>>
Spec == Init /\ [][Next]_vars
=============================================================================
