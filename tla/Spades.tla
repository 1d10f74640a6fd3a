------------------------------- MODULE Spades -------------------------------
(***************************************************************************)
(* The rules of a partnership game (matches/engine/spades.engine.ts): the  *)
(* engine is a set of functions from one snapshot of a game to the next,   *)
(* and so is this module.  What a function throws on is its Can operator.  *)
(*                                                                         *)
(* A snapshot is a record; a card a pair of a suit and a rank; a hand the  *)
(* sequence of its cards in the order they were dealt.  The numbers of     *)
(* SPADES_RULES_V1, the size of the deck and its shuffles are constants.   *)
(***************************************************************************)
EXTENDS Sums, SequencesExt

CONSTANTS
    Deck,           \* the cards: pairs of a suit and a natural number
    Spade,          \* the suit that trumps
    Shuffles,       \* the orders the deck may be dealt in
    MaxBid,         \* 13: the cards of a hand
    TrickPoints,    \* 10: what a trick of the contract is worth
    WinningScore, NilBonus, BlindNilBonus, BagPenaltyAt, BagPenalty, MaxTimeouts

Seats == 0 .. 3
Sides == 0 .. 1
NoSeat == -1
NoBid == [amount |-> -1, blind |-> FALSE]

ASSUME DeckAssumption == /\ \A c \in Deck : c = <<c[1], c[2]>> /\ c[2] \in Nat
                         /\ IsFiniteSet(Deck) /\ Cardinality(Deck) = 4 * MaxBid
                         /\ \A d \in Shuffles : d \in Seq(Deck) /\ Len(d) = 4 * MaxBid
                                                                 /\ ToSet(d) = Deck
ASSUME RulesAssumption == /\ {MaxBid, BagPenaltyAt, MaxTimeouts, TrickPoints} \subseteq Nat \ {0}
                          /\ WinningScore \in Nat
                          /\ \A n \in {NilBonus, BlindNilBonus, BagPenaltyAt, BagPenalty} :
                                 n \in Nat /\ \E k \in 0 .. n : n = k * TrickPoints

Phases == {"BIDDING", "PLAYING", "COMPLETED", "FORFEITED"}
Bids   == [amount : 0 .. MaxBid, blind : BOOLEAN]
Plays  == [seat : Seats, card : Deck]
Games  == [phase : Phases, dealer : Seats, turn : Seats \cup {NoSeat}, broken : BOOLEAN,
           bids : [Seats -> Bids \cup {NoBid}], hands : [Seats -> Seq(Deck)],
           trick : Seq(Plays), won : [Seats -> Nat],
           version : Nat \ {0}, hand : Nat \ {0}, score : [Sides -> Int], bags : [Sides -> Nat],
           timeouts : [Seats -> Nat], winner : Sides \cup {NoSeat}]

NextSeat(s) == (s + 1) % 4
SideOf(s) == s % 2
SuitOf(card) == card[1]
RankOf(card) == card[2]

(* One card at a time, beginning left of the dealer.                         *)
Dealt(deck, dealer) ==
    [s \in Seats |-> [i \in 1 .. MaxBid |-> deck[4 * (i - 1) + ((s - dealer - 1) % 4) + 1]]]

CreateSpadesState(deck) ==
    [phase |-> "BIDDING", dealer |-> 0, turn |-> NextSeat(0), broken |-> FALSE,
     bids  |-> [s \in Seats |-> NoBid], hands |-> Dealt(deck, 0),
     trick |-> <<>>, won |-> [s \in Seats |-> 0],
     version |-> 1, hand |-> 1, score |-> [t \in Sides |-> 0], bags |-> [t \in Sides |-> 0],
     timeouts |-> [s \in Seats |-> 0], winner |-> NoSeat]

Live(g) == g.phase \in {"BIDDING", "PLAYING"}
-----------------------------------------------------------------------------
(* Bidding.                                                                  *)

CanBid(g, s, bid) ==
    /\ g.phase = "BIDDING" /\ g.turn = s /\ g.bids[s] = NoBid
    /\ bid.amount \in 0 .. MaxBid
    /\ bid.blind => bid.amount = 0

PlaceBid(g, s, bid) ==
    LET bids == [g.bids EXCEPT ![s] = bid]
        complete == \A q \in Seats : bids[q] # NoBid
    IN [g EXCEPT !.version = @ + 1,
                 !.bids = bids,
                 !.phase = IF complete THEN "PLAYING" ELSE @,
                 !.turn = IF complete THEN NextSeat(g.dealer) ELSE NextSeat(s)]
-----------------------------------------------------------------------------
(* Tricks.                                                                   *)

(* The cards of S, in their order.                                           *)
Filtered(cards, S) ==
    LET kept[n \in 0 .. Len(cards)] ==
            IF n = 0 THEN <<>>
            ELSE IF cards[n] \in S THEN Append(kept[n - 1], cards[n]) ELSE kept[n - 1]
    IN kept[Len(cards)]

IfAny(kept, cards) == IF kept # <<>> THEN kept ELSE cards

LegalCards(g, s) ==
    LET cards == g.hands[s]
        lead == SuitOf(g.trick[1].card)
    IN IF g.phase # "PLAYING" \/ g.turn # s THEN <<>>
       ELSE IF g.trick # <<>> THEN IfAny(Filtered(cards, {c \in Deck : SuitOf(c) = lead}), cards)
       ELSE IF g.broken THEN cards
       ELSE IfAny(Filtered(cards, {c \in Deck : SuitOf(c) # Spade}), cards)

CanPlay(g, s, c) == c \in ToSet(LegalCards(g, s))

RankOnly(best, play) ==    \* Mutation: the suits are not compared
    RankOf(play.card) > RankOf(best.card)

Beats(best, play) ==
    \/ SuitOf(play.card) = Spade /\ SuitOf(best.card) # Spade
    \/ SuitOf(play.card) = SuitOf(best.card) /\ RankOf(play.card) > RankOf(best.card)

TrickWinner(trick) ==
    LET best[n \in 1 .. Len(trick)] ==
            IF n = 1 THEN trick[1]
            ELSE IF Beats(best[n - 1], trick[n]) THEN trick[n] ELSE best[n - 1]
    IN best[Len(trick)].seat
-----------------------------------------------------------------------------
(* The end of a hand.                                                        *)

SeatsOf(t) == {s \in Seats : SideOf(s) = t}
Bonus(bid) == IF bid.blind THEN BlindNilBonus ELSE NilBonus
NilPoints(bid, won) == IF bid.amount # 0 THEN 0
                       ELSE IF won = 0 THEN Bonus(bid) ELSE -Bonus(bid)

(* while (nextBags >= bagPenaltyAt) nextBags -= bagPenaltyAt                 *)
BagsLeft(bags) == bags % BagPenaltyAt

ScoreTeam(g, t) ==
    LET contract == SumOver([s \in Seats |-> g.bids[s].amount], SeatsOf(t))
        tricks   == SumOver(g.won, SeatsOf(t))
        made     == tricks >= contract
        over     == IF made THEN tricks - contract ELSE 0
        points   == IF made THEN contract * TrickPoints + over ELSE -(contract * TrickPoints)
        extra    == SumOver([s \in Seats |-> NilPoints(g.bids[s], g.won[s])], SeatsOf(t))
        bags     == g.bags[t] + over
    IN [score |-> g.score[t] + points + extra - (bags \div BagPenaltyAt) * BagPenalty,
        bags  |-> BagsLeft(bags)]

Reached(score) == \E t \in Sides : score[t] >= WinningScore

Decided(score) == Reached(score) /\ score[0] # score[1]

StartNextHand(g, deck) ==
    LET dealer == NextSeat(g.dealer)
    IN [g EXCEPT !.phase = "BIDDING", !.hand = @ + 1, !.dealer = dealer,
                 !.turn = NextSeat(dealer), !.broken = FALSE,
                 !.bids = [s \in Seats |-> NoBid], !.hands = Dealt(deck, dealer),
                 !.trick = <<>>, !.won = [s \in Seats |-> 0]]

FinishHand(g, deck) ==
    LET result == [t \in Sides |-> ScoreTeam(g, t)]
        score == [t \in Sides |-> result[t].score]
        scored == [g EXCEPT !.score = score, !.bags = [t \in Sides |-> result[t].bags]]
    IN IF Decided(score)
       THEN [scored EXCEPT !.phase = "COMPLETED", !.turn = NoSeat, !.trick = <<>>,
                           !.winner = IF score[0] > score[1] THEN 0 ELSE 1]
       ELSE StartNextHand(scored, deck)

Without(cards, c) == Filtered(cards, Deck \ {c})

PlayCard(g, s, c, deck) ==
    LET hands == [g.hands EXCEPT ![s] = Without(@, c)]
        trick == Append(g.trick, [seat |-> s, card |-> c])
        played == [g EXCEPT !.version = @ + 1, !.hands = hands,
                            !.broken = @ \/ SuitOf(c) = Spade]
        taken == [played EXCEPT !.trick = <<>>, !.won[TrickWinner(trick)] = @ + 1,
                                !.turn = TrickWinner(trick)]
    IN IF Len(trick) < 4 THEN [played EXCEPT !.trick = trick, !.turn = NextSeat(s)]
       ELSE IF \A q \in Seats : hands[q] = <<>> THEN FinishHand(taken, deck)
       ELSE taken
-----------------------------------------------------------------------------
(* Games that are not played to the end.                                     *)

ForfeitMatch(g, s) ==
    [g EXCEPT !.version = @ + 1, !.phase = "FORFEITED", !.turn = NoSeat,
              !.winner = 1 - SideOf(s)]

GivesUp(count) == count >= MaxTimeouts

ApplyTurnTimeout(g, deck) ==
    LET s == g.turn
        count == g.timeouts[s] + 1
        next == IF GivesUp(count) THEN ForfeitMatch(g, s)
                ELSE IF g.phase = "BIDDING" THEN PlaceBid(g, s, [amount |-> 1, blind |-> FALSE])
                ELSE PlayCard(g, s, LegalCards(g, s)[1], deck)
    IN [next EXCEPT !.timeouts[s] = count]
=============================================================================
