------------------------------ MODULE Matches ------------------------------
(***************************************************************************)
(* One tournament game as the server runs it (matches.service.ts).         *)
(*                                                                         *)
(* command is one transaction under the game's row lock: it refuses a      *)
(* version it was not composed for, so a command acts on the snapshot it   *)
(* was composed for or not at all, and a repeated one changes nothing.     *)
(* revealHand takes no lock: it reads the game, writes the number of the   *)
(* hand it read and shows that hand, and a player may have several such    *)
(* calls under way.  disqualifyPlayer reads the game without the row lock  *)
(* too, but holds the tournament's row, which a command that ends the game *)
(* needs: neither can pass the other, one of them is aborted.              *)
(*                                                                         *)
(* What the end of a game does to the bracket is the subject of Bracket.   *)
(* Entry tokens (join, authorizeSeat) are left out: every call here is one *)
(* that carries the seat's token.                                          *)
(***************************************************************************)
EXTENDS Spades

CONSTANTS
    MayBid,    \* the bids of each seat
    Sleepers,  \* the seats whose player may let the deadline pass
    Peekers,   \* the seats whose player asks to see the hand before bidding
    Suspect,   \* the seat of a player an administrator disqualifies
    MaxHands,  \* bound on the hands of a game
    Delays     \* whether a reveal may still be under way when its hand is over

ASSUME PlayersAssumption == /\ MayBid \in [Seats -> SUBSET Bids]
                            /\ Sleepers \cup Peekers \cup {Suspect} \subseteq Seats
                            /\ MaxHands \in Nat \ {0} /\ Delays \subseteq BOOLEAN

VARIABLES
    game,       \* GameMatch.state
    late,       \* actionDeadlineAt has passed
    log,        \* the sequence numbers of the game's events
    revealed,   \* GameSeat.revealedHandNumber
    reading,    \* the hands read by calls of revealHand that have not written yet
    shown,      \* the latest hand the player of a seat was shown by revealHand
    ruling,     \* the version a disqualification has read, 0 for none
    delayed     \* the regime of this behaviour, chosen once

seatVars == <<revealed, reading, shown>>
vars == <<game, late, log, seatVars, ruling, delayed>>

TypeOK ==
    /\ game \in Games /\ game.hand <= MaxHands /\ Len(game.trick) < 4
    /\ \A s \in Seats : game.won[s] <= MaxBid /\ game.timeouts[s] <= MaxTimeouts
    /\ late \in BOOLEAN /\ delayed \in Delays
    /\ log \subseteq 1 .. game.version
    /\ revealed \in [Seats -> 0 .. MaxHands] /\ shown \in [Seats -> 0 .. MaxHands]
    /\ reading \in [Seats -> SUBSET (1 .. MaxHands)]
    /\ ruling \in 0 .. game.version

(* createMatch, create and createForAcceptedTeams.                           *)
Init ==
    /\ \E deck \in Shuffles : game = CreateSpadesState(deck)
    /\ late = FALSE
    /\ log = {1}
    /\ revealed = [s \in Seats |-> 0]
    /\ reading  = [s \in Seats |-> {}]
    /\ shown    = [s \in Seats |-> 0]
    /\ ruling   = 0
    /\ delayed \in Delays
-----------------------------------------------------------------------------
(* command: the game goes on to next.                                        *)
Commit(next) ==
    /\ next.hand <= MaxHands
    /\ delayed \/ next.hand = game.hand \/ \A s \in Seats : reading[s] = {}
    /\ Live(next) \/ ruling = 0
    /\ game' = next
    /\ late' = FALSE
    /\ log' = log \cup {next.version}
    /\ UNCHANGED <<seatVars, ruling, delayed>>

MayBlindAnyway(s) == TRUE    \* Mutation: blind nil is never refused
MayBlind(s) == revealed[s] < game.hand

Bid(s, bid) ==
    /\ CanBid(game, s, bid)
    /\ bid.blind => MayBlind(s)
    /\ Commit(PlaceBid(game, s, bid))

Play(s, c, deck) ==
    /\ CanPlay(game, s, c)
    /\ Commit(PlayCard(game, s, c, deck))

ClaimTimeout(deck) ==
    /\ Live(game) /\ late
    /\ Commit(ApplyTurnTimeout(game, deck))

CanForfeit == Live(game)

Forfeit(s) ==
    /\ CanForfeit
    /\ Commit(ForfeitMatch(game, s))

(* Thirty seconds go by.                                                     *)
DeadlinePasses ==
    /\ Live(game) /\ game.turn \in Sleepers /\ ~late
    /\ late' = TRUE
    /\ UNCHANGED <<game, log, seatVars, ruling, delayed>>
-----------------------------------------------------------------------------
(* revealHand.                                                               *)

RevealRead(s) ==
    /\ Live(game)
    /\ reading' = [reading EXCEPT ![s] = @ \cup {game.hand}]
    /\ UNCHANGED <<game, late, log, revealed, shown, ruling, delayed>>

RevealWrite(s, n) ==
    /\ n \in reading[s]
    /\ reading'  = [reading EXCEPT ![s] = @ \ {n}]
    /\ revealed' = [revealed EXCEPT ![s] = n]
    /\ shown'    = [shown EXCEPT ![s] = Max({@, n})]
    /\ UNCHANGED <<game, late, log, ruling, delayed>>
-----------------------------------------------------------------------------
(* disqualifyPlayer.                                                         *)

RulingRead ==
    /\ ruling = 0 /\ Live(game)
    /\ ruling' = game.version
    /\ UNCHANGED <<game, late, log, seatVars, delayed>>

UnloggedAnyway(n) == TRUE    \* Mutation: events are not unique
Unlogged(n) == n \notin log

(* The snapshot it read is written back forfeited: if the game has moved on  *)
(* its event's number is taken and everything is rolled back.                *)
RulingWrite ==
    /\ ruling # 0
    /\ Unlogged(ruling + 1)
    /\ game' = [ForfeitMatch(game, Suspect) EXCEPT !.version = ruling + 1]
    /\ log' = log \cup {ruling + 1}
    /\ late' = FALSE
    /\ ruling' = 0
    /\ UNCHANGED <<seatVars, delayed>>

RulingAborts ==
    /\ ruling # 0
    /\ ruling' = 0
    /\ UNCHANGED <<game, late, log, seatVars, delayed>>
-----------------------------------------------------------------------------
AnyOther ==
    \/ \E s \in Seats : Forfeit(s)
    \/ DeadlinePasses
    \/ \E s \in Peekers : RevealRead(s) \/ \E n \in 1 .. MaxHands : RevealWrite(s, n)
    \/ RulingRead \/ RulingWrite \/ RulingAborts

Next ==
    \/ \E s \in Seats : \E bid \in MayBid[s] : Bid(s, bid)
    \/ \E s \in Seats : \E c \in ToSet(game.hands[s]), deck \in Shuffles : Play(s, c, deck)
    \/ \E deck \in Shuffles : ClaimTimeout(deck)
    \/ AnyOther

Spec == Init /\ [][Next]_vars
-----------------------------------------------------------------------------
(* Properties.                                                               *)

(* No card is lost, doubled or played twice within a hand: the hands, the    *)
(* cards on the table and four for every trick taken make up the deck, and   *)
(* every seat has played as often as the others, give or take this trick.    *)
CardsAccounted ==
    game.phase # "COMPLETED" =>
    LET table == {game.trick[i].card : i \in DOMAIN game.trick}
        held == UNION {ToSet(game.hands[s]) : s \in Seats}
        tricks == SumOver(game.won, Seats)
    IN /\ held \cap table = {}
       /\ Cardinality(held) = SumOver([s \in Seats |-> Len(game.hands[s])], Seats)
       /\ Cardinality(held) + Cardinality(table) + 4 * tricks = Cardinality(Deck)
       /\ \A s \in Seats : Len(game.hands[s]) =
            MaxBid - tricks - (IF \E i \in DOMAIN game.trick : game.trick[i].seat = s THEN 1 ELSE 0)

(* A trick goes to the highest spade in it or, without one, to the highest   *)
(* card of the suit that was led, whatever fourth card is legal.             *)
TrickToTheBest ==
    Len(game.trick) = 3 /\ game.phase = "PLAYING" =>
    \A c \in ToSet(LegalCards(game, game.turn)) :
        LET trick == Append(game.trick, [seat |-> game.turn, card |-> c])
            In(suit) == {p \in ToSet(trick) : SuitOf(p.card) = suit}
            Contest == IF In(Spade) # {} THEN In(Spade) ELSE In(SuitOf(trick[1].card))
            best == CHOOSE p \in Contest : \A q \in Contest : RankOf(q.card) <= RankOf(p.card)
        IN TrickWinner(trick) = best.seat

(* The last digit of a side's score is its bags: every point that is not a   *)
(* multiple of ten was an overtrick, and a penalty is taken as soon as there *)
(* are ten of them.                                                          *)
ScoreShowsBags ==
    \A t \in Sides : /\ game.bags[t] < BagPenaltyAt
                     /\ (game.score[t] - game.bags[t]) % TrickPoints = 0

(* The play as a whole, after any run of bids, cards, timeouts and forfeits, *)
(* keeps the rules: no card is lost, the best card takes the trick, and      *)
(* every bag is on the score until its penalty is taken.                     *)
GameByTheRules == TypeOK /\ CardsAccounted /\ TrickToTheBest /\ ScoreShowsBags

(* The events tell the whole game: one for every version, none missing and   *)
(* none written twice, whoever reads the game without its lock.              *)
EventsTellTheGame == log = 1 .. game.version

BidsBlind(s) == game.bids[s] = NoBid /\ game'.bids[s].blind

(* "Blind nil must be declared before revealing the hand": nobody bids blind *)
(* nil on a hand they have been shown, as long as every reveal is answered   *)
(* before its hand is over.  One that is answered later lowers revealed      *)
(* below the hand its player has seen.                                       *)
PromptBlindNilUnseen ==
    [][~delayed => \A s \in Seats : BidsBlind(s) => shown[s] < game.hand]_vars
=============================================================================
