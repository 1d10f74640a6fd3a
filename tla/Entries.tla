------------------------------- MODULE Entries -------------------------------
(***************************************************************************)
(* The way into a tournament and out of it: registrations, the entry fees  *)
(* they cost, the start of the bracket and the cancellation that gives the *)
(* fees back.                                                              *)
(*                                                                         *)
(* createRegistration, withdrawRegistration, start and disqualifyPlayer    *)
(* lock the tournament's row first and are one action each.                *)
(* cancelWithRefunds does not: it reads the fees, refunds them, marks the  *)
(* registrations and only then needs the tournament's row, so it has three *)
(* steps, whose writes nobody sees before the last.  update reads the      *)
(* tournament, decides, and writes the whole form by id: two actions, and  *)
(* a third, the start, when the form asks for it.                          *)
(*                                                                         *)
(* A row that an open transaction has written is locked: an action that    *)
(* needs it is not enabled until that transaction ends.  Where the two     *)
(* would wait for each other PostgreSQL aborts one, which is CancelAbort   *)
(* or the action not happening.                                            *)
(***************************************************************************)
EXTENDS LedgerOps, Sums

CONSTANTS
    Players,       \* the users who may enter
    Admins,        \* concurrent calls of cancel and update
    SmallestDraw,  \* the fewest players of a bracket (the code says 4)
    MaxAttempts,   \* bound on how often a player enters
    MaxEntries,    \* bound on the entries of all players together
    Fees,          \* the entry fees a tournament may have
    Sizes,         \* the values maxPlayers may have
    Opening,       \* the balance each player starts with
    MaxDebt,       \* bound on the tokens a chargeback takes
    Practices      \* how administrators work, see Careful

ASSUME PlayersAssumption  == IsFiniteSet(Players)
ASSUME DrawAssumption     == SmallestDraw \in Nat \ {0}
ASSUME AttemptsAssumption == MaxAttempts \in Nat \ {0} /\ MaxEntries \in Nat
ASSUME AmountsAssumption  == /\ Fees \subseteq Nat /\ 0 \in Fees
                             /\ Sizes \subseteq Nat \ {0}
                             /\ Opening \in Nat /\ MaxDebt \in Nat
ASSUME PracticeAssumption == Practices \subseteq {"careful", "free"}

VARIABLES
    status,    \* Tournament.status; "GONE" once the row is deleted
    fee,       \* Tournament.entryFee
    size,      \* Tournament.maxPlayers
    settled,   \* prize awards refer to the tournament
    drawn,     \* the players with a team, {} before bracketStartedAt
    reg,       \* TournamentRegistration.status; "NONE" without a row
    attempt,   \* TournamentRegistration.entryAttempt, 0 without a row
    charged,   \* the amount of ledger row entry_fee:{t}:{user}:{attempt}
    refunded,  \* the attempts with a ledger row refund:{t}:{user}:{attempt}
    balance,   \* User.balance
    debt,      \* tokens a chargeback has taken
    prized,    \* tokens that prizes have put into the wallets (module Results)
    pc,        \* where each administrator's call is
    seen,      \* the fees a cancellation has read
    pending,   \* the refunds it has written and not committed
    marked,    \* the registrations it has written and not committed
    form,      \* the form an update is about to write
    practice   \* the regime of this behaviour, chosen once

moneyVars  == <<charged, refunded, balance, debt, prized>>
tableVars  == <<status, fee, size, settled, drawn>>
regVars    == <<reg, attempt>>
callVars   == <<pc, seen, pending, marked, form>>
vars == <<tableVars, regVars, moneyVars, callVars, practice>>

Attempts == 1 .. MaxAttempts
Charges == {k \in Players \X Attempts : charged[k[1]][k[2]] > 0}
TournamentStatus == {"SCHEDULED", "REGISTERING", "IN_PROGRESS", "COMPLETED", "CANCELLED"}
Forms == [to : TournamentStatus \cup {"START"}, fee : Fees, size : Sizes]
NoForm == [to |-> "SCHEDULED", fee |-> 0, size |-> 0]

TypeOK ==
    /\ status   \in TournamentStatus \cup {"GONE"}
    /\ fee      \in Fees /\ size \in Sizes
    /\ settled  \in BOOLEAN
    /\ drawn    \subseteq Players
    /\ reg      \in [Players -> {"NONE", "REGISTERED", "WITHDRAWN", "DISQUALIFIED"}]
    /\ attempt  \in [Players -> 0 .. MaxAttempts]
    /\ charged  \in [Players -> [Attempts -> Fees]]
    /\ refunded \in [Players -> SUBSET Attempts]
    /\ balance  \in [Players -> Int]
    /\ debt     \in 0 .. MaxDebt
    /\ prized   \in Nat
    /\ pc       \in [Admins -> {"idle", "read", "marked", "form", "start", "results"}]
    /\ seen     \in [Admins -> SUBSET (Players \X Attempts)]
    /\ pending  \in [Admins -> SUBSET (Players \X Attempts)]
    /\ marked   \in [Admins -> SUBSET Players]
    /\ form     \in [Admins -> Forms \cup {NoForm}]
    /\ practice \in Practices

(* The host of a private tournament is registered with it, free of charge,   *)
(* by createPlayerHosted.                                                    *)
Init ==
    /\ status \in {"SCHEDULED", "REGISTERING"}
    /\ fee \in Fees /\ size \in Sizes
    /\ \E h \in SUBSET Players :
          /\ Cardinality(h) <= 1
          /\ h # {} => status = "SCHEDULED" /\ fee = 0
          /\ reg = [p \in Players |-> IF p \in h THEN "REGISTERED" ELSE "NONE"]
          /\ attempt = [p \in Players |-> IF p \in h THEN 1 ELSE 0]
    /\ settled  = FALSE
    /\ drawn    = {}
    /\ charged  = [p \in Players |-> [a \in Attempts |-> 0]]
    /\ refunded = [p \in Players |-> {}]
    /\ balance  = [p \in Players |-> Opening]
    /\ debt     = 0
    /\ prized   = 0
    /\ pc       = [a \in Admins |-> "idle"]
    /\ seen     = [a \in Admins |-> {}]
    /\ pending  = [a \in Admins |-> {}]
    /\ marked   = [a \in Admins |-> {}]
    /\ form     = [a \in Admins |-> NoForm]
    /\ practice \in Practices
-----------------------------------------------------------------------------
(* Helpers.                                                                  *)

(* A careful administrator cancels with the cancel endpoint only, and nobody *)
(* acts in the middle of a call.                                             *)
Careful == practice = "careful"
Undisturbed == Careful => \A a \in Admins : pc[a] = "idle"
Alone(a) == Careful => \A b \in Admins \ {a} : pc[b] = "idle"

Live == {p \in Players : reg[p] = "REGISTERED"}
Reserved == UNION {pending[a] : a \in Admins}    \* refund keys and wallets locked
Locked == UNION {marked[a] : a \in Admins}       \* registrations locked
WalletLocked(p) == \E k \in Reserved : k[1] = p

HasPlace == Cardinality(Live) < size

NextAttempt(p) == attempt[p] + 1

Refundable(K) == {k \in K : k[2] \notin refunded[k[1]]}

DueToday(p, K) == fee * Cardinality({k \in K : k[1] = p})    \* Mutation: today's fee
Due(p, K) == SumOver(charged[p], {a \in Attempts : <<p, a>> \in K})

(* The refunds of the fees K, all of them or none: a wallet below zero       *)
(* refuses its credit, and the exception rolls everything back.              *)
CanRefund(K) == \A k \in K : Recordable(balance[k[1]], charged[k[1]][k[2]])

Refund(K) ==
    /\ balance'  = [p \in Players |-> balance[p] + Due(p, K)]
    /\ refunded' = [p \in Players |->
                       refunded[p] \cup {a \in Attempts : <<p, a>> \in K}]

IsPowerOfTwo(n) == \E k \in 0 .. n : n = 2^k
-----------------------------------------------------------------------------
(* The players, and administrators acting for them.                          *)

(* registerPlayer and its refusals: NOT_REGISTERING, FULL, ALREADY_REGISTERED *)
(* and INSUFFICIENT_BALANCE.  The account is ACTIVE.                         *)
Registrable(p) ==
    /\ status = "REGISTERING"
    /\ HasPlace
    /\ reg[p] \in {"NONE", "WITHDRAWN"}
    /\ fee > 0 => ~WalletLocked(p) /\ Recordable(balance[p], -fee)

(* createRegistration.                                                       *)
Register(p) ==
    /\ Undisturbed
    /\ Registrable(p)
    /\ NextAttempt(p) <= MaxAttempts
    /\ SumOver(attempt, Players) < MaxEntries
    /\ reg'     = [reg EXCEPT ![p] = "REGISTERED"]
    /\ attempt' = [attempt EXCEPT ![p] = NextAttempt(p)]
    /\ charged' = [charged EXCEPT ![p][NextAttempt(p)] = fee]
    /\ balance' = [balance EXCEPT ![p] = @ - fee]
    /\ UNCHANGED <<tableVars, refunded, debt, prized, callVars, practice>>

Removable(p) ==
    /\ status \notin {"COMPLETED", "GONE"}
    /\ reg[p] \in {"REGISTERED", "DISQUALIFIED"}

(* removePlayer: withdrawRegistration, in any status but COMPLETED.          *)
Withdraw(p) ==
    /\ Undisturbed
    /\ Removable(p)
    /\ p \notin Locked
    /\ LET K == Refundable({<<p, attempt[p]>>} \cap Charges)
       IN (K # {} => ~WalletLocked(p)) /\ CanRefund(K) /\ Refund(K)
    /\ reg' = [reg EXCEPT ![p] = "WITHDRAWN"]
    /\ UNCHANGED <<tableVars, attempt, charged, debt, prized, callVars, practice>>

(* A dispute decided against the player, whatever the registration is.       *)
Disqualify(p) ==
    /\ Undisturbed
    /\ status # "GONE"
    /\ reg[p] # "NONE" /\ p \notin Locked
    /\ reg' = [reg EXCEPT ![p] = "DISQUALIFIED"]
    /\ UNCHANGED <<tableVars, attempt, moneyVars, callVars, practice>>

(* A reversed deposit takes its tokens back, below zero if need be.          *)
Chargeback(p) ==
    /\ Undisturbed
    /\ debt < MaxDebt /\ ~WalletLocked(p)
    /\ debt' = debt + 1
    /\ balance' = [balance EXCEPT ![p] = @ - 1]
    /\ UNCHANGED <<tableVars, regVars, charged, refunded, prized, callVars, practice>>
-----------------------------------------------------------------------------
(* cancel: the endpoint of administrators and of a private tournament's      *)
(* host.  The check of the status and the reading of the fees are one step,  *)
(* and so are the refunds and the marking: what others do between the two    *)
(* could as well be done before the first.                                   *)

CancelReadFees(a) ==
    /\ Alone(a)
    /\ pc[a] = "idle"
    /\ status \notin {"CANCELLED", "COMPLETED", "GONE"}
    /\ pc'   = [pc EXCEPT ![a] = "read"]
    /\ seen' = [seen EXCEPT ![a] = Charges]
    /\ UNCHANGED <<tableVars, regVars, moneyVars, pending, marked, form, practice>>

CancelRefundFees(a) ==
    LET K == Refundable(seen[a])
    IN /\ pc[a] = "read"
       /\ K \cap Reserved = {} /\ Live \cap Locked = {}
       /\ \A k \in K : ~WalletLocked(k[1])
       /\ CanRefund(K)
       /\ pc'      = [pc EXCEPT ![a] = "marked"]
       /\ pending' = [pending EXCEPT ![a] = K]
       /\ marked'  = [marked EXCEPT ![a] = Live]
       /\ seen'    = [seen EXCEPT ![a] = {}]
       /\ UNCHANGED <<tableVars, regVars, moneyVars, form, practice>>

EndCancel(a) ==
    /\ pc'      = [pc EXCEPT ![a] = "idle"]
    /\ seen'    = [seen EXCEPT ![a] = {}]
    /\ pending' = [pending EXCEPT ![a] = {}]
    /\ marked'  = [marked EXCEPT ![a] = {}]
    /\ form'    = form

CancelCommit(a) ==
    /\ pc[a] = "marked"
    /\ status # "GONE"
    /\ status' = "CANCELLED"
    /\ reg' = [p \in Players |-> IF p \in marked[a] THEN "WITHDRAWN" ELSE reg[p]]
    /\ Refund(pending[a])
    /\ EndCancel(a)
    /\ UNCHANGED <<fee, size, settled, drawn, attempt, charged, debt, prized, practice>>

(* A refused refund, a duplicate key, a deadlock or a lost connection.       *)
CancelAbort(a) ==
    /\ pc[a] \in {"read", "marked"}
    /\ EndCancel(a)
    /\ UNCHANGED <<tableVars, regVars, moneyVars, practice>>
-----------------------------------------------------------------------------
(* update: the edit form, which posts every field back.                      *)

AllowedTransitions(from) ==
    CASE from = "SCHEDULED"   -> {"REGISTERING", "CANCELLED"}
      [] from = "REGISTERING" -> {"IN_PROGRESS", "CANCELLED"}
      [] from = "IN_PROGRESS" -> {"COMPLETED", "CANCELLED"}
      [] OTHER                -> {}

FitsSize(n) == n >= Cardinality(Live)

(* The administrator changes one field; the others go back as they were      *)
(* read.  A form that moves the tournament to IN_PROGRESS asks for a start.  *)
EditRead(a) ==
    /\ Alone(a)
    /\ pc[a] = "idle"
    /\ status # "GONE"
    /\ \E f \in Forms :
          /\ FitsSize(f.size)
          /\ \/ /\ f.to \in {status} \cup AllowedTransitions(status) \cup {"START"}
                /\ f.to = "START" => "IN_PROGRESS" \in AllowedTransitions(status)
                /\ f.to = "IN_PROGRESS" => status = f.to
                /\ f.fee = fee /\ f.size = size
             \/ f.to = status /\ f.fee # fee /\ f.size = size
             \/ f.to = status /\ f.fee = fee /\ f.size # size
          /\ Careful => f.to # "CANCELLED" \/ status = "CANCELLED"
          /\ form' = [form EXCEPT ![a] = f]
    /\ pc' = [pc EXCEPT ![a] = "form"]
    /\ UNCHANGED <<tableVars, regVars, moneyVars, seen, pending, marked, practice>>

EditWrite(a) ==
    /\ pc[a] = "form"
    /\ status # "GONE"
    /\ status' = IF form[a].to = "START" THEN status ELSE form[a].to
    /\ fee'  = form[a].fee
    /\ size' = form[a].size
    /\ pc'   = [pc EXCEPT ![a] = IF form[a].to = "START" THEN "start" ELSE "idle"]
    /\ form' = [form EXCEPT ![a] = NoForm]
    /\ UNCHANGED <<settled, drawn, regVars, moneyVars, seen, pending, marked, practice>>

(* An update of a deleted row, a refused start or refund, a lost connection. *)
EditAbort(a) ==
    /\ pc[a] \in {"form", "start"}
    /\ pc'   = [pc EXCEPT ![a] = "idle"]
    /\ form' = [form EXCEPT ![a] = NoForm]
    /\ UNCHANGED <<tableVars, regVars, moneyVars, seen, pending, marked, practice>>
-----------------------------------------------------------------------------
(* start counts the players whose account is active and verified, which      *)
(* others change at any time: any of the players who hold a place.           *)

StartableAgain == status = "REGISTERING"    \* Mutation: bracketStartedAt is not looked at
Startable == status = "REGISTERING" /\ drawn = {}
FormsBracket(E) == Cardinality(E) >= SmallestDraw /\ IsPowerOfTwo(Cardinality(E))

StartBracket(a) ==
    /\ pc[a] = "start"
    /\ Startable
    /\ \E E \in SUBSET (Live \ Locked) : FormsBracket(E) /\ drawn' = E
    /\ status' = "IN_PROGRESS"
    /\ pc'     = [pc EXCEPT ![a] = "idle"]
    /\ UNCHANGED <<fee, size, settled, regVars, moneyVars, seen, pending, marked,
                   form, practice>>

(* cancelUnstartable.                                                        *)
StartUnstartable(a) ==
    LET K == Refundable(Charges)
    IN /\ pc[a] = "start"
       /\ Startable
       /\ \E E \in SUBSET Live : ~FormsBracket(E)
       /\ K \cap Reserved = {} /\ Live \cap Locked = {}
       /\ \A k \in K : ~WalletLocked(k[1])
       /\ CanRefund(K)
       /\ Refund(K)
       /\ status' = "CANCELLED"
       /\ reg' = [p \in Players |-> IF p \in Live THEN "WITHDRAWN" ELSE reg[p]]
       /\ pc'  = [pc EXCEPT ![a] = "idle"]
       /\ UNCHANGED <<fee, size, settled, drawn, attempt, charged, debt, prized, seen,
                      pending, marked, form, practice>>

(* The final match is over and its prizes are awarded (module Bracket).      *)
Settle ==
    /\ Undisturbed
    /\ status = "IN_PROGRESS" /\ drawn # {}
    /\ status'  = "COMPLETED"
    /\ settled' = TRUE
    /\ UNCHANGED <<fee, size, drawn, regVars, moneyVars, callVars, practice>>

(* remove.  Prize awards keep a settled tournament's row; registrations and  *)
(* teams go with it, the fees stay and point nowhere.                        *)
Remove ==
    /\ Undisturbed
    /\ status # "GONE" /\ ~settled
    /\ Locked = {}
    /\ status'  = "GONE"
    /\ drawn'   = {}
    /\ reg'     = [p \in Players |-> "NONE"]
    /\ attempt' = [p \in Players |-> 0]
    /\ UNCHANGED <<fee, size, settled, moneyVars, callVars, practice>>

EntriesNext ==
    \/ \E p \in Players : Register(p) \/ Withdraw(p) \/ Chargeback(p)
    \/ \E a \in Admins :
          \/ CancelReadFees(a) \/ CancelRefundFees(a) \/ CancelCommit(a) \/ CancelAbort(a)
          \/ EditRead(a) \/ EditWrite(a) \/ EditAbort(a)
          \/ StartBracket(a) \/ StartUnstartable(a)
    \/ Settle \/ Remove

Next == EntriesNext \/ \E p \in Players : Disqualify(p)

Spec == Init /\ [][Next]_vars
-----------------------------------------------------------------------------
(* Properties.                                                               *)

(* A player who holds a place has not got the fee of it back, whatever the   *)
(* administrators' calls did to each other: the refunds of a cancellation    *)
(* and of a withdrawal take the place with them, in one commit.              *)
LivePlaceIsPaid == \A p \in Live : attempt[p] \notin refunded[p]

(* Every refund gave back what was taken, not what the fee was when it was   *)
(* given back, and gave it once: the wallets hold what they started with     *)
(* and prizes, less the fees still kept and the tokens charged back.         *)
FeesKept(p) == SumOver(charged[p], Attempts \ refunded[p])
RefundsAreWhatWasTaken ==
    SumOver(balance, Players)
        = Cardinality(Players) * Opening + prized - debt
          - SumOver([p \in Players |-> FeesKept(p)], Players)

(* With careful administrators a fee is kept only for the place its player   *)
(* still holds, or was disqualified from, in a tournament that was not       *)
(* cancelled.                                                                *)
FeesFollowPlaces ==
    Careful /\ status # "GONE" =>
        \A k \in Refundable(Charges) :
            /\ k[2] = attempt[k[1]]
            /\ reg[k[1]] \in {"REGISTERED", "DISQUALIFIED"}
            /\ status # "CANCELLED"

(* With careful administrators there are never more players than places,     *)
(* however the size was edited meanwhile.                                    *)
NoOverbooking == Careful => Cardinality(Live) <= size

(* Fees, refunds, places and size together, over any run of entries,         *)
(* withdrawals, edits and cancellations that overlap.  A cancelled           *)
(* tournament may all the same keep a fee when administrators are not        *)
(* careful: the edit form writes CANCELLED without a refund, and a           *)
(* registration that commits while cancel is under way is not among the fees *)
(* it read.                                                                  *)
EntriesAreBacked ==
    TypeOK /\ LivePlaceIsPaid /\ RefundsAreWhatWasTaken /\ FeesFollowPlaces /\ NoOverbooking

(* A bracket is drawn once: not even a form that puts a running tournament   *)
(* back to REGISTERING lets start draw it again.                             *)
DrawnOnce == [][drawn # {} => drawn' \in {drawn, {}} /\ (drawn' = {} => status' = "GONE")]_vars

=============================================================================
