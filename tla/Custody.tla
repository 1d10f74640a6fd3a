------------------------------- MODULE Custody -------------------------------
(***************************************************************************)
(* What the withdrawal system promises about a player's tokens.            *)
(*                                                                         *)
(* The tokens of a request are with the player, held for the request, paid *)
(* out, or returned.  They leave the wallet once, when they are taken into *)
(* custody, and come back to it at most once; what was returned is never   *)
(* paid afterwards.  Nothing is said of administrators, retries, crashes   *)
(* or notifications: Payouts implements this specification in spite of     *)
(* them.                                                                   *)
(***************************************************************************)
EXTENDS Integers

CONSTANTS Users, Requests, Owner, Amount, Opening

VARIABLES
    wallet,     \* the tokens a player may spend
    other,      \* what other features have added to it, on balance
    place       \* where the tokens of a request are

custodyVars == <<wallet, other, place>>

CustodyInit ==
    /\ wallet = Opening
    /\ other  = [u \in Users |-> 0]
    /\ place  = [r \in Requests |-> "player"]

Take(r) ==
    /\ place[r] = "player"
    /\ wallet[Owner[r]] >= Amount[r]
    /\ wallet' = [wallet EXCEPT ![Owner[r]] = @ - Amount[r]]
    /\ place'  = [place EXCEPT ![r] = "held"]
    /\ UNCHANGED other

PayOut(r) ==
    /\ place[r] = "held"
    /\ place' = [place EXCEPT ![r] = "paid"]
    /\ UNCHANGED <<wallet, other>>

GiveBack(r) ==
    /\ place[r] \in {"held", "paid"}
    /\ wallet' = [wallet EXCEPT ![Owner[r]] = @ + Amount[r]]
    /\ place'  = [place EXCEPT ![r] = "returned"]
    /\ UNCHANGED other

(* Another feature uses the wallet: every other change of it is accounted.  *)
OtherUse(u) ==
    /\ other'  = [other EXCEPT ![u] = other'[u]]
    /\ wallet' = [wallet EXCEPT ![u] = @ + (other'[u] - other[u])]
    /\ UNCHANGED place

CustodyNext ==
    \/ \E r \in Requests : Take(r) \/ PayOut(r) \/ GiveBack(r)
    \/ \E u \in Users : OtherUse(u)

CustodySpec == CustodyInit /\ [][CustodyNext]_custodyVars
=============================================================================
