------------------------------- MODULE Results -------------------------------
(***************************************************************************)
(* The end of a tournament without a bracket: an administrator submits the *)
(* places and the prizes by hand.  Such tournaments are older than the     *)
(* bracket (the seed makes them); everything Entries does to a running     *)
(* tournament may happen to them meanwhile.                                *)
(*                                                                         *)
(* submitResults checks the sheet against the roster and the pool without  *)
(* a lock, then locks the tournament and looks at its status only: two     *)
(* actions.  A verdict and what it does to held prizes are one step here,  *)
(* module Bracket has the gap between them.                                *)
(***************************************************************************)
EXTENDS Entries

CONSTANTS
    Pool,        \* Tournament.prizePool
    Cases,       \* the disputes that may be filed
    Elsewhere,   \* those that name another tournament
    Nothing      \* no sheet, no case

ASSUME PoolAssumption    == Pool \in Nat
ASSUME CasesAssumption   == Elsewhere \subseteq Cases
ASSUME NothingAssumption == Nothing \notin Players \X {"OPEN", "CLEARED", "DISQUALIFIED"}

VARIABLES
    sheet,      \* the results a call has checked
    placement,  \* TournamentRegistration.placement, 0 for null
    prizeWon,   \* TournamentRegistration.prizeWon
    award,      \* TournamentPrizeAward.status of a player
    prize,      \* its amount
    case        \* the player and the status of a dispute

resultVars == <<sheet, placement, prizeWon, award, prize, case>>

Line(n) == [place : 1 .. n, prize : 0 .. Pool]

ResultsTypeOK ==
    /\ \A a \in Admins : \/ sheet[a] = Nothing
                         \/ /\ DOMAIN sheet[a] \subseteq Players
                            /\ Range(sheet[a]) \subseteq Line(Cardinality(Players))
    /\ placement \in [Players -> 0 .. Cardinality(Players)]
    /\ prizeWon  \in [Players -> 0 .. Pool]
    /\ award     \in [Players -> {"NONE", "HELD", "CREDITED", "REVERSED"}]
    /\ prize     \in [Players -> 0 .. Pool]
    /\ case      \in [Cases -> {Nothing} \cup
                        (Players \X {"OPEN", "CLEARED", "DISQUALIFIED"})]

ResultsInit ==
    /\ sheet     = [a \in Admins |-> Nothing]
    /\ placement = [p \in Players |-> 0]
    /\ prizeWon  = [p \in Players |-> 0]
    /\ award     = [p \in Players |-> "NONE"]
    /\ prize     = [p \in Players |-> 0]
    /\ case      = [c \in Cases |-> Nothing]

(* A tournament that was put IN_PROGRESS before there were brackets, every   *)
(* player in it.                                                             *)
ByHandInit ==
    /\ status = "IN_PROGRESS" /\ drawn = {} /\ settled = FALSE
    /\ fee \in Fees /\ size \in Sizes /\ size = Cardinality(Players)
    /\ reg      = [p \in Players |-> "REGISTERED"]
    /\ attempt  = [p \in Players |-> 1]
    /\ charged  = [p \in Players |-> [a \in Attempts |-> IF a = 1 THEN fee ELSE 0]]
    /\ refunded = [p \in Players |-> {}]
    /\ balance  = [p \in Players |-> Opening - fee]
    /\ debt = 0 /\ prized = 0
    /\ pc       = [a \in Admins |-> "idle"]
    /\ seen     = [a \in Admins |-> {}]
    /\ pending  = [a \in Admins |-> {}]
    /\ marked   = [a \in Admins |-> {}]
    /\ form     = [a \in Admins |-> NoForm]
    /\ practice \in Practices

Present == status # "GONE"
ByHand == drawn = {} /\ status \in {"IN_PROGRESS", "COMPLETED"}
-----------------------------------------------------------------------------
(* The administrator's sheet: players, their places, each once, and prizes   *)
(* within the pool.                                                          *)
Prizes(results) == [p \in DOMAIN results |-> results[p].prize]
Total(results) == SumOver(Prizes(results), DOMAIN results)

Sheets(roster) ==
    {r \in UNION {[S -> Line(Cardinality(S))] : S \in (SUBSET roster) \ {{}}} :
        /\ \A p, q \in DOMAIN r : r[p].place = r[q].place => p = q
        /\ Total(r) <= Pool}

(* submitResults of the service.  Even careful administrators may both submit. *)
ReadResults(a) ==
    /\ Careful => \A b \in Admins : pc[b] \in {"idle", "results"}
    /\ pc[a] = "idle"
    /\ status = "IN_PROGRESS" /\ drawn = {}
    /\ \E r \in Sheets(Live) : sheet' = [sheet EXCEPT ![a] = r]
    /\ pc' = [pc EXCEPT ![a] = "results"]
    /\ UNCHANGED <<tableVars, regVars, moneyVars, seen, pending, marked, form, practice>>
    /\ UNCHANGED <<placement, prizeWon, award, prize, case>>

(* Any open dispute of the player holds a prize, of whatever tournament.     *)
Accused(p) == \E c \in Cases : case[c] = <<p, "OPEN">>

EndSubmit(a) ==
    /\ pc'    = [pc EXCEPT ![a] = "idle"]
    /\ sheet' = [sheet EXCEPT ![a] = Nothing]
    /\ UNCHANGED <<seen, pending, marked, form, practice>>

InProgressOnce == status \in {"IN_PROGRESS", "COMPLETED"}    \* Mutation: checked before the lock only
StillInProgress == status = "IN_PROGRESS"

(* submitResults of the repository.  A second award or credit of a player    *)
(* breaks a unique key, and a wallet in debt refuses: all is rolled back.    *)
SubmitResults(a) ==
    LET r       == sheet[a]
        winners == {p \in DOMAIN r : r[p].prize > 0}
        held    == {p \in winners : Accused(p)}
        paid    == winners \ held
        Fresh(f, value) == [p \in Players |-> IF p \in DOMAIN r THEN value[p] ELSE f[p]]
    IN /\ pc[a] = "results"
       /\ StillInProgress
       /\ DOMAIN r \cap Locked = {}
       /\ \A p \in winners : award[p] = "NONE"
       /\ \A p \in paid : ~WalletLocked(p) /\ Recordable(balance[p], r[p].prize)
       /\ placement' = Fresh(placement, [p \in DOMAIN r |-> r[p].place])
       /\ prizeWon'  = Fresh(prizeWon, [p \in DOMAIN r |-> r[p].prize])
       /\ award' = [p \in Players |-> IF p \in held THEN "HELD"
                                      ELSE IF p \in paid THEN "CREDITED" ELSE award[p]]
       /\ prize' = [p \in Players |-> IF p \in winners THEN r[p].prize ELSE prize[p]]
       /\ balance' = [p \in Players |-> IF p \in paid THEN balance[p] + r[p].prize
                                                      ELSE balance[p]]
       /\ prized'  = prized + SumOver(Prizes(r), paid)
       /\ settled' = (settled \/ winners # {})
       /\ status'  = "COMPLETED"
       /\ EndSubmit(a)
       /\ UNCHANGED <<fee, size, drawn, regVars, charged, refunded, debt, case>>

(* INVALID_STATUS, NOT_FOUND, a refused credit, a duplicate, a lost          *)
(* connection.                                                               *)
AbortResults(a) ==
    /\ pc[a] = "results"
    /\ EndSubmit(a)
    /\ UNCHANGED <<tableVars, regVars, moneyVars, placement, prizeWon, award, prize, case>>
-----------------------------------------------------------------------------
(* Disputes.                                                                 *)

FileCase(c, p) ==
    /\ ByHand /\ case[c] = Nothing
    /\ case' = [case EXCEPT ![c] = <<p, "OPEN">>]
    /\ UNCHANGED <<vars, sheet, placement, prizeWon, award, prize>>

StillOpen(c) == \E d \in Cases \ (Elsewhere \cup {c}) : case[d] = <<case[c][1], "OPEN">>

(* clear: releaseHeldAwards of the dispute's own tournament, once no other   *)
(* dispute of it is open against the player.                                 *)
Clear(c) ==
    LET p == case[c][1]
        release == c \notin Elsewhere /\ ~StillOpen(c) /\ award[p] = "HELD"
    IN /\ Undisturbed
       /\ case[c] # Nothing /\ case[c][2] = "OPEN"
       /\ case' = [case EXCEPT ![c][2] = "CLEARED"]
       /\ IF release
          THEN /\ ~WalletLocked(p) /\ p \notin Locked /\ Recordable(balance[p], prize[p])
               /\ award'    = [award EXCEPT ![p] = "CREDITED"]
               /\ balance'  = [balance EXCEPT ![p] = @ + prize[p]]
               /\ prized'   = prized + prize[p]
               /\ prizeWon' = [prizeWon EXCEPT ![p] = prize[p]]
          ELSE UNCHANGED <<award, balance, prized, prizeWon>>
       /\ UNCHANGED <<tableVars, regVars, charged, refunded, debt, callVars, practice>>
       /\ UNCHANGED <<sheet, placement, prize>>

(* disqualifyPlayer, by one of the cases here or by one that is not among    *)
(* them: what is held is lost, what is credited stays.                       *)
TakeAwards(p) ==
    LET mine == {c \in Cases \ Elsewhere : case[c] = <<p, "OPEN">>}
    IN /\ award'    = [award EXCEPT ![p] = IF @ = "HELD" THEN "REVERSED" ELSE @]
       /\ prizeWon' = [prizeWon EXCEPT ![p] = 0]
       /\ \/ mine = {} /\ case' = case
          \/ \E c \in mine : case' = [case EXCEPT ![c][2] = "DISQUALIFIED"]
       /\ UNCHANGED <<sheet, placement, prize>>

(* The registrations go with a removed tournament.                           *)
KeepPlaces ==
    IF Present' \/ ~Present THEN UNCHANGED <<placement, prizeWon>>
    ELSE placement' = [p \in Players |-> 0] /\ prizeWon' = [p \in Players |-> 0]

ResultsNext ==
    \/ EntriesNext /\ KeepPlaces /\ UNCHANGED <<sheet, award, prize, case>>
    \/ \E p \in Players : Disqualify(p) /\ TakeAwards(p)
    \/ \E a \in Admins : ReadResults(a) \/ SubmitResults(a) \/ AbortResults(a)
    \/ \E c \in Cases : Clear(c) \/ \E p \in Players : FileCase(c, p)

ResultsSpec ==
    ResultsInit /\ (Init \/ ByHandInit) /\ [][ResultsNext]_<<vars, resultVars>>
-----------------------------------------------------------------------------
(* Properties.                                                               *)

Awarded == {p \in Players : award[p] # "NONE"}

(* What the awards say is credited is in the wallets, once, and the prize a  *)
(* player's history shows has an award behind it that was not taken back.    *)
AwardsTellTheWallets ==
    /\ prized = SumOver(prize, {p \in Players : award[p] = "CREDITED"})
    /\ \A p \in Players :
          prizeWon[p] # 0 => award[p] \in {"HELD", "CREDITED"} /\ prizeWon[p] = prize[p]

(* A prize is held for an open dispute, or for one of another tournament,    *)
(* whose verdict releases nothing here.                                      *)
HeldForACase ==
    \A p \in Players : award[p] = "HELD" =>
        \E c \in Cases : /\ case[c] # Nothing /\ case[c][1] = p
                         /\ case[c][2] = "OPEN" \/ c \in Elsewhere

(* One sheet decides: with careful administrators a place is given once, the *)
(* prizes are within the pool, the tournament stays COMPLETED, and a winner  *)
(* took part and did not get the fee back.  (Otherwise an edit form read     *)
(* before may put the tournament back to IN_PROGRESS for a second sheet, and *)
(* a player removed after the sheet was checked is paid all the same.)       *)
OneSheetDecides ==
    Careful =>
        /\ \A p, q \in Players : placement[p] = placement[q] /\ placement[p] # 0 => p = q
        /\ SumOver(prize, Awarded) <= Pool
        /\ \A p \in Awarded : /\ status = "COMPLETED"
                              /\ reg[p] \in {"REGISTERED", "DISQUALIFIED"}
                              /\ attempt[p] \notin refunded[p]

(* Results entered by hand, whatever is edited, cancelled, removed, disputed *)
(* and submitted beside them.                                                *)
ResultsStand == ResultsTypeOK /\ AwardsTellTheWallets /\ HeldForACase /\ OneSheetDecides
=============================================================================
