------------------------------- MODULE Bracket -------------------------------
(***************************************************************************)
(* A tournament from the draw to its prizes: matches, advancement,         *)
(* settlement, prizes held by disputes, disqualifications, corrections.    *)
(*                                                                         *)
(* Whatever ends a match applies its result in the same transaction, which *)
(* locks the tournament's row, as do correctResults, releaseHeldAwards and *)
(* disqualifyPlayer: one action each.  A verdict on a dispute and what it  *)
(* means for the tournament are two transactions: Resolve records the one, *)
(* ReleaseHeldAwards or DisqualifyPlayer carries the other out, and the    *)
(* server may stop in between.                                             *)
(*                                                                         *)
(* Registrations and fees are the subject of module Entries, the play of a *)
(* match of module Spades: here somebody wins it.                          *)
(***************************************************************************)
EXTENDS LedgerOps, Sums, SequencesExt

CONSTANTS
    Teams,      \* the teams of the draw
    Seed,       \* the draw: the teams in the order of their seeds
    Members,    \* the two players of a team, in the order of their ids
    Rounds,     \* bracketRounds
    Pool,       \* prizePool, in cents
    Cases,      \* the disputes that may be filed
    Accused,    \* the player a case is about
    AboutMatch, \* the cases that name the final match and no tournament
    Admins,     \* concurrent calls of clear and disqualify
    Requests,   \* request ids of corrections
    Rulings,    \* the pairs of champion and runner-up a correction may name
    Spenders,   \* the players who have spent a deposit a bank may take back
    MaxDebt,    \* bound on the tokens a chargeback takes
    NoCase,     \* the case of an idle call
    NoTeam,     \* the winner of a match that is not over
    Promptness  \* whether a verdict is carried out before anything else

PlayersOf(t) == {Members[t][1], Members[t][2]}
Players == UNION {PlayersOf(t) : t \in Teams}
TwoTo[n \in 0 .. Rounds] == IF n = 0 THEN 1 ELSE 2 * TwoTo[n - 1]
Slots == UNION {{<<r, k>> : k \in 0 .. TwoTo[Rounds - r] - 1} : r \in 1 .. Rounds}
Final == <<Rounds, 0>>
Versions == 1 .. Cardinality(Requests) + 1

ASSUME DrawAssumption == /\ Rounds \in Nat \ {0}
                         /\ Seed \in [1 .. TwoTo[Rounds] -> Teams]
                         /\ Range(Seed) = Teams /\ IsInjective(Seed)
                         /\ Members \in [Teams -> Players \X Players]
                         /\ \A t \in Teams : Members[t][1] # Members[t][2]
                         /\ \A t, u \in Teams : t # u => PlayersOf(t) \cap PlayersOf(u) = {}
ASSUME AmountsAssumption == Pool \in Nat /\ MaxDebt \in Nat /\ IsFiniteSet(Requests)
ASSUME CasesAssumption == Accused \in [Cases -> Players] /\ AboutMatch \subseteq Cases
                          /\ Spenders \subseteq Players /\ Rulings \subseteq Teams \X Teams
ASSUME NobodyAssumption == NoCase \notin Cases /\ NoTeam \notin Teams
ASSUME PromptnessAssumption == Promptness \subseteq BOOLEAN

VARIABLES
    status,      \* Tournament.status
    version,     \* Tournament.settlementVersion
    settled,     \* Tournament.settledAt is set
    match,       \* GameMatch of a slot: NONE, PLAYING or OVER
    winner,      \* its winning team
    team,        \* TournamentTeam.status
    placement,   \* TournamentTeam.placement, 0 for none
    award,       \* TournamentPrizeAward.status of a version and a player
    amount,      \* TournamentPrizeAward.amount
    prizeWon,    \* TournamentRegistration.prizeWon, 0 for null
    out,         \* the players whose registration is DISQUALIFIED
    balance,     \* User.balance
    debt,        \* tokens chargebacks have taken from a player
    case,        \* Dispute.status; "NONE" before it is filed
    early,       \* the cases filed before the tournament was over
    corrected,   \* TournamentResultCorrection.requestId
    pc,          \* the case whose verdict each call is about to carry out
    prompt       \* the regime of this behaviour, chosen once

bracketVars == <<match, winner, team, placement>>
prizeVars   == <<version, settled, award, amount, prizeWon, balance>>
caseVars    == <<case, early, pc>>
vars == <<status, bracketVars, prizeVars, out, debt, caseVars, corrected, prompt>>

TeamStatus == {"ACTIVE", "ELIMINATED", "CHAMPION", "RUNNER_UP", "DISQUALIFIED"}
AwardStatus == {"NONE", "HELD", "CREDITED", "REVERSED"}
OpenCase == "OPEN"    \* UNDER_REVIEW and APPEAL_FILED: nothing tells them apart

TypeOK ==
    /\ status    \in {"IN_PROGRESS", "COMPLETED", "CANCELLED"}
    /\ version   \in {0} \cup Versions
    /\ settled   \in BOOLEAN
    /\ match     \in [Slots -> {"NONE", "PLAYING", "OVER"}]
    /\ winner    \in [Slots -> Teams \cup {NoTeam}]
    /\ team      \in [Teams -> TeamStatus]
    /\ placement \in [Teams -> 0 .. TwoTo[Rounds]]
    /\ award     \in [Versions -> [Players -> AwardStatus]]
    /\ amount    \in [Versions -> [Players -> 0 .. Pool]]
    /\ prizeWon  \in [Players -> 0 .. Pool]
    /\ out       \subseteq Players
    /\ balance   \in [Players -> Int]
    /\ debt      \in [Players -> 0 .. MaxDebt]
    /\ case      \in [Cases -> {"NONE", OpenCase, "CLEARED", "DISQUALIFIED"}]
    /\ early     \subseteq Cases
    /\ corrected \subseteq Requests
    /\ pc        \in [Admins -> Cases \cup {NoCase}]
    /\ prompt    \in Promptness

(* What start leaves behind.                                                 *)
Init ==
    /\ status    = "IN_PROGRESS"
    /\ version   = 0
    /\ settled   = FALSE
    /\ match     = [s \in Slots |-> IF s[1] = 1 THEN "PLAYING" ELSE "NONE"]
    /\ winner    = [s \in Slots |-> NoTeam]
    /\ team      = [t \in Teams |-> "ACTIVE"]
    /\ placement = [t \in Teams |-> 0]
    /\ award     = [v \in Versions |-> [p \in Players |-> "NONE"]]
    /\ amount    = [v \in Versions |-> [p \in Players |-> 0]]
    /\ prizeWon  = [p \in Players |-> 0]
    /\ out       = {}
    /\ balance   = [p \in Players |-> 0]
    /\ debt      = [p \in Players |-> 0]
    /\ case      = [c \in Cases |-> "NONE"]
    /\ early     = {}
    /\ corrected = {}
    /\ pc        = [a \in Admins |-> NoCase]
    /\ prompt    \in Promptness
-----------------------------------------------------------------------------
(* Helpers.                                                                  *)

Undisturbed == prompt => \A a \in Admins : pc[a] = NoCase

TeamOf(p) == CHOOSE t \in Teams : p \in PlayersOf(t)
Sources(s) == {<<s[1] - 1, 2 * s[2]>>, <<s[1] - 1, 2 * s[2] + 1>>}
NextSlot(s) == <<s[1] + 1, s[2] \div 2>>

Contenders(s) == IF s[1] = 1 THEN {Seed[2 * s[2] + 1], Seed[2 * s[2] + 2]}
                             ELSE {winner[q] : q \in Sources(s)}

(* The prize of player p of a team in place 1 or 2: 70 and 30 percent,       *)
(* halved, the second player taking the odd cent.                            *)
ChampionPool == (7 * Pool) \div 10
TeamPool(place) == IF place = 1 THEN ChampionPool ELSE Pool - ChampionPool

RoundedUp(place, p) == (TeamPool(place) + 1) \div 2    \* Mutation: both rounded up
Share(place, p) ==
    LET first == TeamPool(place) \div 2
    IN IF p = Members[TeamOf(p)][1] THEN first ELSE TeamPool(place) - first

OpenFor(p, C) == \E c \in C : Accused[c] = p /\ case[c] = OpenCase
ByTournament == Cases \ AboutMatch

(* TournamentRegistration.prizeWon after a settlement.                       *)
Shown(p, paid, prize) == IF paid THEN prize ELSE 0

(* Award the prizes of the next version to the teams of places, a function   *)
(* from a team to its place; the awards so far are before, the wallets hold  *)
(* bal.  A player with an open case among C waits; a wallet that refuses its *)
(* credit aborts everything.                                                 *)
Winning(places) == UNION {PlayersOf(t) : t \in DOMAIN places}

Awards(before, places, bal, C) ==
    LET W == Winning(places)
        Held == {p \in W : OpenFor(p, C)}
        Prize(p) == Share(places[TeamOf(p)], p)
        v == version + 1
    IN /\ \A p \in W \ Held : Recordable(bal[p], Prize(p))
       /\ award'    = [before EXCEPT ![v] = [p \in Players |->
                          IF p \in Held THEN "HELD"
                          ELSE IF p \in W THEN "CREDITED" ELSE "NONE"]]
       /\ amount'   = [amount EXCEPT ![v] = [p \in Players |->
                          IF p \in W THEN Prize(p) ELSE 0]]
       /\ balance'  = [p \in Players |->
                          IF p \in W \ Held THEN bal[p] + Prize(p) ELSE bal[p]]
       /\ prizeWon' = [p \in Players |-> Shown(p, p \in W \ Held,
                                              IF p \in W THEN Prize(p) ELSE 0)]
       /\ version'  = v
       /\ settled'  = (Held = {})

(* settle: a team disqualified by now gets nothing.                          *)
PlacesAll(teams, w, l) == [t \in {w, l} |-> IF t = w THEN 1 ELSE 2]   \* Mutation: no team skipped

Places(teams, w, l) == [t \in {x \in {w, l} : teams[x] # "DISQUALIFIED"} |->
                            IF t = w THEN 1 ELSE 2]

(* applyCompletedMatch: the match of slot s is over, w won, and the teams    *)
(* had the statuses of now before.                                           *)
AdvancedEarly(ended, s) ==    \* Mutation: counts the sources before this one is marked
    IF s # Final /\ \A q \in Sources(NextSlot(s)) : match[q] = "OVER"
    THEN [ended EXCEPT ![NextSlot(s)] = "PLAYING"] ELSE ended

Advanced(ended, s) ==
    IF s # Final /\ \A q \in Sources(NextSlot(s)) : ended[q] = "OVER"
    THEN [ended EXCEPT ![NextSlot(s)] = "PLAYING"] ELSE ended

LoserStatus(was, s) == IF was = "DISQUALIFIED" THEN was
                       ELSE IF s = Final THEN "RUNNER_UP" ELSE "ELIMINATED"

LoserOf(s, w) == CHOOSE t \in Contenders(s) : t # w

ApplyCompletedMatch(s, w, now) ==
    LET l == LoserOf(s, w)
        teams == [now EXCEPT ![l] = LoserStatus(@, s),
                             ![w] = IF s = Final THEN "CHAMPION" ELSE @]
    IN /\ status = "IN_PROGRESS"
       /\ match'     = Advanced([match EXCEPT ![s] = "OVER"], s)
       /\ winner'    = [winner EXCEPT ![s] = w]
       /\ team'      = teams
       /\ placement' = [placement EXCEPT ![l] = TwoTo[Rounds - s[1]] + 1,
                                         ![w] = IF s = Final THEN 1 ELSE @]
       /\ \/ s # Final /\ UNCHANGED <<status, prizeVars>>
          \/ s = Final /\ status' = "COMPLETED" /\ Awards(award, Places(teams, w, l), balance, Cases)
-----------------------------------------------------------------------------
(* Play.                                                                     *)

EndMatch(s, w) ==
    /\ Undisturbed
    /\ match[s] = "PLAYING" /\ w \in Contenders(s)
    /\ ApplyCompletedMatch(s, w, team)
    /\ UNCHANGED <<out, debt, caseVars, corrected, prompt>>

(* A bank takes back a deposit the player has spent.                         *)
Chargeback(p) ==
    /\ SumOver(debt, Players) < MaxDebt
    /\ balance' = [balance EXCEPT ![p] = @ - 1]
    /\ debt' = [debt EXCEPT ![p] = @ + 1]
    /\ UNCHANGED <<status, bracketVars, version, settled, award, amount, prizeWon,
                   out, caseVars, corrected, prompt>>

(* An administrator's PATCH or cancellation (Entries has the whole of them): *)
(* games already begun stay where they are, and nothing is settled.          *)
EditStatus(to) ==
    /\ Undisturbed
    /\ status = "IN_PROGRESS"
    /\ status' = to
    /\ UNCHANGED <<bracketVars, prizeVars, out, debt, caseVars, corrected, prompt>>
-----------------------------------------------------------------------------
(* Disputes.                                                                 *)

FileCase(c) ==
    /\ Undisturbed
    /\ case[c] = "NONE"
    /\ case' = [case EXCEPT ![c] = OpenCase]
    /\ early' = IF status = "IN_PROGRESS" THEN early \cup {c} ELSE early
    /\ UNCHANGED <<status, bracketVars, prizeVars, out, debt, pc, corrected, prompt>>

(* resolve: the verdict on an open case is recorded, or a call of the same   *)
(* verdict comes after it; either goes on to reconcile.                      *)
Resolve(a, c, v) ==
    /\ Undisturbed
    /\ pc[a] = NoCase
    /\ case[c] \in {OpenCase, v}
    /\ case' = [case EXCEPT ![c] = v]
    /\ pc' = [pc EXCEPT ![a] = c]
    /\ UNCHANGED <<status, bracketVars, prizeVars, out, debt, early, corrected, prompt>>

Carrying(a, v) == pc[a] # NoCase /\ case[pc[a]] = v
Returns(a) == pc' = [pc EXCEPT ![a] = NoCase]

(* A case without a tournament changes nothing.                              *)
ReconcileNothing(a) ==
    /\ pc[a] \in AboutMatch
    /\ Returns(a)
    /\ UNCHANGED <<status, bracketVars, prizeVars, out, debt, case, early, corrected, prompt>>

(* releaseHeldAwards.                                                        *)
HeldOf(p) == {v \in Versions : award[v][p] = "HELD"}
Relabelled(p, to) == [v \in Versions |-> IF v \in HeldOf(p) THEN [award[v] EXCEPT ![p] = to]
                                                            ELSE award[v]]
NoneHeld(a) == \A v \in Versions, p \in Players : a[v][p] # "HELD"

ReleaseHeldAwards(a) ==
    LET p == Accused[pc[a]] IN
    /\ Carrying(a, "CLEARED") /\ pc[a] \in ByTournament
    /\ Returns(a)
    /\ UNCHANGED <<status, bracketVars, version, amount, out, debt, case, early, corrected, prompt>>
    /\ \/ OpenFor(p, ByTournament) /\ UNCHANGED <<settled, award, prizeWon, balance>>
       \/ /\ ~OpenFor(p, ByTournament)
          /\ \A v \in HeldOf(p) : Recordable(balance[p], amount[v][p])
          /\ balance'  = [balance EXCEPT ![p] = @ + SumOver([v \in Versions |-> amount[v][p]], HeldOf(p))]
          /\ award'    = Relabelled(p, "CREDITED")
          /\ prizeWon' = [prizeWon EXCEPT ![p] =
                             IF HeldOf(p) = {} THEN @ ELSE amount[version][p]]
          /\ settled'  = IF NoneHeld(award') THEN TRUE ELSE settled

(* disqualifyPlayer: the game the player is in is forfeited and applied.     *)
InGame(p) == {s \in Slots : match[s] = "PLAYING" /\ TeamOf(p) \in Contenders(s)}

DisqualifyPlayer(a) ==
    LET p == Accused[pc[a]]
        now == [team EXCEPT ![TeamOf(p)] = "DISQUALIFIED"]
    IN /\ Carrying(a, "DISQUALIFIED") /\ pc[a] \in ByTournament
       /\ Returns(a)
       /\ out' = out \cup {p}
       /\ UNCHANGED <<debt, case, early, corrected, prompt>>
       /\ \/ /\ InGame(p) = {}
             /\ team' = now
             /\ award' = Relabelled(p, "REVERSED")
             /\ prizeWon' = [prizeWon EXCEPT ![p] = 0]
             /\ UNCHANGED <<status, match, winner, placement, version, settled, amount, balance>>
          \/ \E s \in InGame(p) : \E w \in Contenders(s) \ {TeamOf(p)} :
                ApplyCompletedMatch(s, w, now)

(* The call fails between the verdict and what it means: the server stops,   *)
(* or the second transaction aborts.                                         *)
GiveUp(a) ==
    /\ pc[a] # NoCase
    /\ ~prompt
    /\ Returns(a)
    /\ UNCHANGED <<status, bracketVars, prizeVars, out, debt, case, early, corrected, prompt>>
-----------------------------------------------------------------------------
(* correctResults.  The prizes paid by the current version are taken back,   *)
(* below zero if need be; only cases that name the tournament hold a new one.*)
(* Version 0 has none: an administrator completed the tournament by hand.    *)

Paid(p) == version # 0 /\ award[version][p] = "CREDITED"

Reversed == [award EXCEPT ![version] =
                [p \in Players |-> IF @[p] \in {"CREDITED", "HELD"} THEN "REVERSED" ELSE @[p]]]

TakenBack == [p \in Players |-> IF Paid(p) THEN balance[p] - amount[version][p] ELSE balance[p]]

Corrected(c, u) ==
    [t \in Teams |-> CASE t = c -> "CHAMPION"
                       [] t = u -> "RUNNER_UP"
                       [] OTHER -> IF team[t] \in {"CHAMPION", "RUNNER_UP"} THEN "ELIMINATED"
                                                                           ELSE team[t]]

(* creditCorrectionTeam, for the champions and the runners-up: only a case   *)
(* filed with the tournament holds a corrected prize.                        *)
CreditCorrectionTeams(c, u) ==
    Awards(Reversed, [t \in {c, u} |-> IF t = c THEN 1 ELSE 2], TakenBack, ByTournament)

NewRequest(r) == r \notin corrected

CorrectResults(r, c, u) ==
    /\ Undisturbed
    /\ NewRequest(r)
    /\ status = "COMPLETED"
    /\ c # u
    /\ corrected' = corrected \cup {r}
    /\ team' = Corrected(c, u)
    /\ placement' = [placement EXCEPT ![c] = 1, ![u] = 2]
    /\ CreditCorrectionTeams(c, u)
    /\ UNCHANGED <<status, match, winner, out, debt, caseVars, prompt>>
-----------------------------------------------------------------------------
Next ==
    \/ \E s \in Slots, w \in Teams : EndMatch(s, w)
    \/ \E p \in Spenders : Chargeback(p)
    \/ \E to \in {"COMPLETED", "CANCELLED"} : EditStatus(to)
    \/ \E c \in Cases : FileCase(c)
    \/ \E a \in Admins, c \in Cases, v \in {"CLEARED", "DISQUALIFIED"} : Resolve(a, c, v)
    \/ \E a \in Admins : ReconcileNothing(a) \/ ReleaseHeldAwards(a) \/ DisqualifyPlayer(a)
                                             \/ GiveUp(a)
    \/ \E r \in Requests, x \in Rulings : CorrectResults(r, x[1], x[2])

Spec == Init /\ [][Next]_vars
-----------------------------------------------------------------------------
(* Properties.                                                               *)

Idle == \A a \in Admins : pc[a] = NoCase
Credited(p) == SumOver([v \in Versions |-> IF award[v][p] = "CREDITED" THEN amount[v][p] ELSE 0], Versions)
Owed(p) == SumOver([v \in Versions |-> IF award[v][p] = "HELD" THEN amount[v][p] ELSE 0], Versions)

(* However results are corrected, cases decided and prizes held or released, *)
(* what is paid and what is still held never exceed the prize pool: settle,  *)
(* creditCorrectionTeam and releaseHeldAwards round and reverse so.          *)
NeverOverPool == SumOver([p \in Players |-> Credited(p) + Owed(p)], Players) <= Pool

(* A wallet holds exactly the prizes still credited to its player, less what *)
(* banks took: every reversal took back what was paid, even from a wallet    *)
(* that had already spent it.                                                *)
WalletsHoldThePrizes == \A p \in Players : balance[p] = Credited(p) - debt[p]

(* The prize a player's history shows (TournamentRegistration.prizeWon) is   *)
(* one that the current settlement has paid.                                 *)
PrizeShownIsPaid ==
    \A p \in Players : prizeWon[p] # 0 =>
        version # 0 /\ award[version][p] = "CREDITED" /\ amount[version][p] = prizeWon[p]

(* Prizes are real: within the pool, in the wallet, and as shown.            *)
PrizesAreReal == TypeOK /\ NeverOverPool /\ WalletsHoldThePrizes /\ PrizeShownIsPaid

(* A tournament whose prizes were awarded is settled only when nothing is    *)
(* held, and stays unsettled only for a held prize or a disqualification.    *)
SettledMeansDecided ==
    status = "COMPLETED" /\ version # 0 =>
        /\ settled => NoneHeld(award)
        /\ ~settled => ~NoneHeld(award) \/ out # {}

(* When verdicts are carried out at once, a player disqualified over a case  *)
(* of this tournament that was filed before its end has not been paid by its *)
(* settlement, unless the team went on to win the final (settle lets the     *)
(* champion's status overwrite the disqualification).                        *)
WithheldFromDisqualified ==
    prompt /\ Idle => \A c \in early \ AboutMatch :
        LET p == Accused[c] IN
        case[c] = "DISQUALIFIED" /\ award[1][p] = "CREDITED" /\ match[Final] = "OVER"
            => winner[Final] = TeamOf(p)

(* When verdicts are carried out at once, a prize is held only for an open   *)
(* case, or for one that names the final match alone (nothing releases those *)
(* held prizes once the case is decided).                                    *)
HeldHasReason ==
    prompt /\ Idle => \A p \in Players : HeldOf(p) # {} =>
        \E c \in Cases : /\ Accused[c] = p
                         /\ case[c] = OpenCase \/ (c \in AboutMatch /\ case[c] # "NONE")

(* A prize is withheld for a reason, and from whom there is one.             *)
WithheldForReason == WithheldFromDisqualified /\ HeldHasReason

(* A running bracket always has a game that can end, whatever games are      *)
(* forfeited between two results.                                            *)
BracketMovesOn == status = "IN_PROGRESS" => \E s \in Slots : match[s] = "PLAYING"

(* A tournament goes on to its last game, and to a settlement.               *)
BracketReachesItsEnd == BracketMovesOn /\ SettledMeansDecided

=============================================================================
