----------------------------- MODULE MCMatches -----------------------------
(* Eight cards of three suits, two a hand, dealt in one of two orders.  One  *)
(* side bids nil and nil or a trick, the other blind nil or a trick and a    *)
(* trick, so that a hand may leave two bags, or a tie at the target.  A      *)
(* behaviour is either `watched', with the replay of its events and without  *)
(* reveals and disqualifications, which leave no event, or end the game; or  *)
(* `raced', with them and without the replay.                                *)
EXTENDS Progress
VARIABLE part
allVars == <<progressVars, part>>

MCDeck == ({"S"} \X (1 .. 3)) \cup ({"C"} \X (1 .. 3)) \cup ({"D"} \X (1 .. 2))

MCShuffles == {<< <<"C", 1>>, <<"D", 2>>, <<"S", 3>>, <<"C", 3>>,
                  <<"S", 1>>, <<"C", 2>>, <<"D", 1>>, <<"S", 2>> >>,
               << <<"S", 1>>, <<"S", 2>>, <<"C", 3>>, <<"D", 1>>,
                  <<"S", 3>>, <<"D", 2>>, <<"C", 1>>, <<"C", 2>> >>}

Nil == [amount |-> 0, blind |-> FALSE]
BlindNil == [amount |-> 0, blind |-> TRUE]
One == [amount |-> 1, blind |-> FALSE]

MCMayBid == (0 :> {Nil, One}) @@ (1 :> {BlindNil, One}) @@ (2 :> {Nil}) @@ (3 :> {One})

MCInit == ProgressInit /\ part \in {"watched", "raced"} /\ (part = "watched" => ~delayed)
MCNext == /\ part' = part
          /\ \/ part = "watched" /\ ProgressNext /\ reading' = reading /\ ruling' = ruling
             \/ part = "raced" /\ Next /\ UNCHANGED <<replay, feats, slept>>
MCSpec == MCInit /\ [][MCNext]_allVars
============================================================================
