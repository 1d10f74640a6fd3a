------------------------------ MODULE Progress ------------------------------
(***************************************************************************)
(* What a player's overview reads out of a game (player-progression        *)
(* .formula.ts): analyzeMatch replays the events of the game, with its own *)
(* rule for tricks, and counts the nils made, hands won exactly as bid and *)
(* deficits made up.  Here the replay runs beside the game, event by event *)
(* and for all four seats.  A turn that timed out is an event of its own,  *)
(* without seat or card, and analyzeMatch passes over it.                  *)
(***************************************************************************)
EXTENDS Matches
CONSTANT ComebackAt      \* 200: the deficit that makes a comeback
ASSUME ComebackAssumption == ComebackAt \in Nat \ {0}
VARIABLES replay,        \* analyzeMatch's variables after the events so far
          feats,         \* history: the same counts by the engine's own bids and tricks
          slept          \* history: a turn has timed out
progressVars == <<vars, replay, feats, slept>>

NoFeats == [nils |-> [s \in Seats |-> 0], exact |-> [s \in Seats |-> FALSE], behind |-> [t \in Sides |-> FALSE]]
NewHand(score, counts) == [bids |-> [s \in Seats |-> -1], tricks |-> [s \in Seats |-> 0], trick |-> <<>>,
  score |-> score, nils |-> counts.nils, exact |-> counts.exact, behind |-> counts.behind]
ProgressInit == Init /\ replay = NewHand([t \in Sides |-> 0], NoFeats) /\ feats = NoFeats /\ slept = FALSE

-----------------------------------------------------------------------------
(* analyzeMatch. *)
Higher(best, play) == SuitOf(play.card) = SuitOf(best.card) /\ RankOf(play.card) > RankOf(best.card)
LeadOnly(best, play, lead) == SuitOf(play.card) = lead /\ SuitOf(best.card) # lead    \* Mutation: no trumps
BetterSuit(best, play, lead) ==
  \/ SuitOf(play.card) = Spade /\ SuitOf(best.card) # Spade
  \/ SuitOf(play.card) = lead /\ SuitOf(best.card) \notin {Spade, lead}
WinnerOf(trick) ==
  LET best[n \in 1 .. Len(trick)] ==
        IF n = 1 THEN trick[1]
        ELSE IF \/ BetterSuit(best[n - 1], trick[n], SuitOf(trick[1].card))
                \/ Higher(best[n - 1], trick[n])
             THEN trick[n] ELSE best[n - 1]
  IN best[Len(trick)].seat
\* The end of a hand, for the bids and tricks of every seat and the score before it.
Counted(counts, bids, tricks, score) ==
  [nils   |-> [s \in Seats |-> counts.nils[s] + (IF bids[s] = 0 /\ tricks[s] = 0 THEN 1 ELSE 0)],
   exact  |-> [s \in Seats |-> counts.exact[s] \/ (bids[s] > 0 /\ bids[s] = tricks[s])],
   behind |-> [t \in Sides |-> counts.behind[t] \/ score[1 - t] - score[t] >= ComebackAt]]
ReplayBid(s, amount) == [replay EXCEPT !.bids[s] = amount]
ReplayCard(s, c, ends, score) ==
  LET trick == Append(replay.trick, [seat |-> s, card |-> c])
      full == Len(trick) = 4
      tricks == IF full THEN [replay.tricks EXCEPT ![WinnerOf(trick)] = @ + 1] ELSE replay.tricks
  IN IF ends THEN NewHand(score, Counted(replay, replay.bids, tricks, replay.score))
     ELSE [replay EXCEPT !.trick = IF full THEN <<>> ELSE trick, !.tricks = tricks]

-----------------------------------------------------------------------------
(* The game, watched. *)
HandEnds == game'.hand # game.hand \/ game'.phase = "COMPLETED"
Amounts == [s \in Seats |-> game.bids[s].amount]
TricksWith(s, c) == IF Len(game.trick) < 3 THEN game.won
                    ELSE [game.won EXCEPT ![TrickWinner(Append(game.trick, [seat |-> s, card |-> c]))] = @ + 1]
Witness(s, c) == feats' = IF HandEnds THEN Counted(feats, Amounts, TricksWith(s, c), game.score) ELSE feats

WatchBid == \E s \in Seats : \E bid \in MayBid[s] :
  Bid(s, bid) /\ replay' = ReplayBid(s, bid.amount) /\ UNCHANGED <<feats, slept>>
WatchPlay == \E s \in Seats : \E c \in ToSet(game.hands[s]), deck \in Shuffles :
  Play(s, c, deck) /\ replay' = ReplayCard(s, c, HandEnds, game'.score) /\ Witness(s, c) /\ UNCHANGED slept
TimedOutCard == LegalCards(game, game.turn)[1]
WatchTimeout == \E deck \in Shuffles :
  /\ ClaimTimeout(deck) /\ slept' = TRUE /\ UNCHANGED replay
  /\ IF game.phase = "PLAYING" /\ game'.phase # "FORFEITED" THEN Witness(game.turn, TimedOutCard) ELSE feats' = feats
ProgressNext == WatchBid \/ WatchPlay \/ WatchTimeout \/ (AnyOther /\ UNCHANGED <<replay, feats, slept>>)
ProgressSpec == ProgressInit /\ [][ProgressNext]_progressVars

-----------------------------------------------------------------------------
(* Properties. *)

\* The achievements an overview derives from the events are those of the game the engine refereed: nils made,
\* exact bids and deficits, hand after hand, for every seat, as long as no turn timed out.
AchievementsTellTheGame ==
  ~slept => replay.nils = feats.nils /\ replay.exact = feats.exact /\ replay.behind = feats.behind
=============================================================================
