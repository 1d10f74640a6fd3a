----------------------------- MODULE Challenges -----------------------------
(***************************************************************************)
(* Friends, blocks and challenges between players, and the games two       *)
(* accepted challenges make (player-social), beside the games anybody may  *)
(* start (matches).  Services read, await and write; only the creation of  *)
(* a challenge and its acceptance hold the advisory lock.                  *)
(***************************************************************************)
EXTENDS Calls, Naturals, FiniteSets
CONSTANTS Players, Acquainted,     \* the pairs {p, q} who may ask each other
          ChallengeIds, GameIds, Threads
ASSUME ChallengesAssumption == /\ ChallengeIds \cup GameIds \subseteq Nat \ {0}
                               /\ IsFiniteSet(ChallengeIds)
                               /\ \A q \in Acquainted : \E p, r \in Players : p # r /\ q = {p, r}
                               /\ Free \notin {"requesting", "responding", "challenging", "accepting", "matching", "resolving"}
VARIABLES friendship, blocks, challenge, match, thread,
          unlooked     \* history: pairs for whom a call wrote that had looked for a block before it was made
socialVars == <<friendship, blocks, challenge, match, thread, unlooked>>

Open == {"PENDING", "ACCEPTED"}
Free0 == [at |-> Free, by |-> Free, pair |-> {}, ch |-> 0, was |-> "none", with |-> 0, late |-> FALSE, gone |-> FALSE]
SocialTypeOK ==
  /\ \A q \in Acquainted : friendship[q].status \in {"none", "PENDING", "ACCEPTED", "DECLINED"}
  /\ blocks \subseteq Players \X Players
  /\ \A c \in ChallengeIds : challenge[c].status \in Open \cup {"none", "MATCHED", "DECLINED", "CANCELLED", "EXPIRED"}
                             /\ challenge[c].match \in GameIds \cup {0}
  /\ \A g \in GameIds : match[g].seats \subseteq Players
  /\ unlooked \subseteq Acquainted
\* Friends at the start, and the challenges pending between them: <<challenger, challenged>> by id.
SocialInit(friends, pending) ==
  /\ friendship = [q \in Acquainted |-> [status |-> IF q \in friends THEN "ACCEPTED" ELSE "none", by |-> Free]]
  /\ blocks = {} /\ unlooked = {}
  /\ challenge = [c \in ChallengeIds |->
       LET new == [from |-> Free, to |-> Free, status |-> "none", rank |-> 0, match |-> 0] IN
       IF c \in DOMAIN pending THEN [new EXCEPT !.from = pending[c][1], !.to = pending[c][2], !.status = "PENDING"] ELSE new]
  /\ match = [g \in GameIds |-> [live |-> FALSE, seats |-> {}, paired |-> FALSE]]
  /\ thread = [t \in Threads |-> Free0]

-----------------------------------------------------------------------------
Blocked(q) == \E p, r \in q : <<p, r>> \in blocks
PairOf(c) == {challenge[c].from, challenge[c].to}
Between(q) == {c \in ChallengeIds : challenge[c].status # "none" /\ PairOf(c) = q}
Busy(p) == \E g \in GameIds : match[g].live /\ p \in match[g].seats
NewChallenge(c) == challenge[c].status = "none" /\ \A d \in ChallengeIds : challenge[d].status = "none" => c <= d
NewGame(g) == match[g].seats = {} /\ \A h \in GameIds : match[h].seats = {} => g <= h
\* The row of a challenge that an acceptance has written and not committed.
RowFree(c) == \A t \in Threads : thread[t].at = "matching" => thread[t].ch # c \/ thread[t].was = "ACCEPTED"
LockIgnored == TRUE
LockFree == \A t \in Threads : thread[t].at \notin {"accepting", "matching"}
Begins(t, step) == thread[t].at = Free /\ thread' = [thread EXCEPT ![t] = step]
Ends(t) == thread' = [thread EXCEPT ![t] = Free0]
Slips(t) == unlooked' = IF thread[t].late THEN unlooked \cup {thread[t].pair} ELSE unlooked

-----------------------------------------------------------------------------
(* Friends. *)
RequestFriend(t) == \E q \in Acquainted : \E p \in q :
  /\ ~Blocked(q) /\ friendship[q].status \notin {"ACCEPTED", "PENDING"}
  /\ Begins(t, [Free0 EXCEPT !.at = "requesting", !.by = p, !.pair = q])
  /\ UNCHANGED <<friendship, blocks, challenge, match, unlooked>>
UpsertFriendship(t) == LET q == thread[t].pair IN
  /\ thread[t].at = "requesting"
  /\ friendship' = [friendship EXCEPT ![q] = [status |-> "PENDING", by |-> thread[t].by]]
  /\ Slips(t) /\ Ends(t) /\ UNCHANGED <<blocks, challenge, match>>

RespondToFriend(t) == \E q \in Acquainted : \E p \in q :
  /\ friendship[q].status = "PENDING" /\ friendship[q].by # p /\ ~Blocked(q)
  /\ Begins(t, [Free0 EXCEPT !.at = "responding", !.by = p, !.pair = q])
  /\ UNCHANGED <<friendship, blocks, challenge, match, unlooked>>
Answer(t) == LET q == thread[t].pair IN
  /\ thread[t].at = "responding"
  /\ \/ /\ ~thread[t].gone
        /\ \E accept \in BOOLEAN : friendship' = [friendship EXCEPT ![q].status = IF accept THEN "ACCEPTED" ELSE "DECLINED"]
        /\ Slips(t)
     \/ thread[t].gone /\ UNCHANGED <<friendship, unlooked>>       \* no such row any more
  /\ Ends(t) /\ UNCHANGED <<blocks, challenge, match>>

\* Deleting the row of q: whoever has read it cannot update it.
Deleted(q, late) == [t \in Threads |-> IF thread[t].pair = q
                                       THEN [thread[t] EXCEPT !.gone = TRUE, !.late = @ \/ late] ELSE thread[t]]
RemoveFriend == \E q \in Acquainted :
  /\ friendship[q].status # "none"
  /\ friendship' = [friendship EXCEPT ![q] = [status |-> "none", by |-> Free]]
  /\ thread' = Deleted(q, FALSE)
  /\ UNCHANGED <<blocks, challenge, match, unlooked>>

EndedByBlock == Open
Block == \E q \in Acquainted : \E p, r \in q :
  /\ p # r /\ <<p, r>> \notin blocks /\ \A c \in Between(q) : RowFree(c)
  /\ blocks' = blocks \cup {<<p, r>>}
  /\ friendship' = [friendship EXCEPT ![q] = [status |-> "none", by |-> Free]]
  /\ challenge' = [c \in ChallengeIds |-> IF c \in Between(q) /\ challenge[c].status \in EndedByBlock
                     THEN [challenge[c] EXCEPT !.status = "CANCELLED"] ELSE challenge[c]]
  /\ thread' = Deleted(q, TRUE) /\ unlooked' = unlooked \ {q}
  /\ UNCHANGED match
Unblock == \E b \in blocks :
  /\ blocks' = blocks \ {b}
  /\ UNCHANGED <<friendship, challenge, match, thread, unlooked>>

-----------------------------------------------------------------------------
(* Challenges. *)
CheckChallenge(t) == \E q \in Acquainted : \E p \in q :
  /\ friendship[q].status = "ACCEPTED" /\ ~Blocked(q) /\ \A r \in q : ~Busy(r)
  /\ Begins(t, [Free0 EXCEPT !.at = "challenging", !.by = p, !.pair = q])
  /\ UNCHANGED <<friendship, blocks, challenge, match, unlooked>>
CreateChallenge(t) == LET q == thread[t].pair IN
  /\ thread[t].at = "challenging" /\ LockFree
  /\ \/ \E c \in ChallengeIds :
          /\ NewChallenge(c) /\ \A d \in Between(q) : challenge[d].status \notin Open
          /\ challenge' = [challenge EXCEPT ![c].from = thread[t].by, ![c].status = "PENDING",
                                            ![c].to = CHOOSE r \in q : r # thread[t].by]
          /\ Slips(t)
     \/ /\ \E d \in Between(q) : challenge[d].status \in Open
        /\ UNCHANGED <<challenge, unlooked>>
  /\ Ends(t) /\ UNCHANGED <<friendship, blocks, match>>

\* One advisory lock for all: an acceptance checks its own pair ...
AcceptChallenge(t) == \E c \in ChallengeIds :
  /\ challenge[c].status \in Open /\ LockFree
  /\ ~Blocked(PairOf(c)) /\ \A p \in PairOf(c) : ~Busy(p)
  /\ Begins(t, [Free0 EXCEPT !.at = "accepting", !.ch = c, !.was = challenge[c].status, !.pair = PairOf(c)])
  /\ UNCHANGED <<friendship, blocks, challenge, match, unlooked>>

\* ... if it read PENDING writes ACCEPTED by id, whatever the row says now, and looks for the oldest
\* other pair waiting (rank stands for acceptedAt).
Waiting(c) == {d \in ChallengeIds \ {c} : challenge[d].status = "ACCEPTED" /\ challenge[d].match = 0
                                          /\ PairOf(d) \cap PairOf(c) = {}}
Oldest(cs) == {d \in cs : \A e \in cs : challenge[d].rank <= challenge[e].rank}
NextRank == 1 + Cardinality({d \in ChallengeIds : challenge[d].rank > 0})
Wait(t) == LET c == thread[t].ch IN
  /\ thread[t].at = "accepting" /\ Waiting(c) = {}
  /\ IF thread[t].was = "PENDING"
     THEN challenge' = [challenge EXCEPT ![c].status = "ACCEPTED", ![c].rank = NextRank] /\ Slips(t)
     ELSE UNCHANGED <<challenge, unlooked>>
  /\ Ends(t) /\ UNCHANGED <<friendship, blocks, match>>
FindPair(t) ==
  /\ thread[t].at = "accepting"
  /\ \E d \in Oldest(Waiting(thread[t].ch)) :
       IF Blocked(PairOf(d)) \/ \E p \in PairOf(d) : Busy(p)
       THEN Ends(t)                                  \* the whole acceptance is rolled back
       ELSE thread' = [thread EXCEPT ![t].at = "matching", ![t].with = d]
  /\ UNCHANGED <<friendship, blocks, challenge, match, unlooked>>
CreateForAcceptedTeams(t) == LET c == thread[t].ch  d == thread[t].with IN \E g \in GameIds :
  /\ thread[t].at = "matching" /\ NewGame(g)
  /\ match' = [match EXCEPT ![g] = [live |-> TRUE, seats |-> PairOf(c) \cup PairOf(d), paired |-> TRUE]]
  /\ challenge' = [e \in ChallengeIds |-> IF e \in {c, d} THEN [challenge[e] EXCEPT !.status = "MATCHED", !.match = g]
                                                         ELSE challenge[e]]
  /\ Ends(t) /\ UNCHANGED <<friendship, blocks, unlooked>>

ReadToResolve(t) == \E c \in ChallengeIds :
  /\ challenge[c].status \in Open
  /\ \E p \in PairOf(c) : Begins(t, [Free0 EXCEPT !.at = "resolving", !.ch = c, !.by = p])
  /\ UNCHANGED <<friendship, blocks, challenge, match, unlooked>>
ResolveChallenge(t) == LET c == thread[t].ch IN
  /\ thread[t].at = "resolving" /\ RowFree(c)
  /\ challenge' = [challenge EXCEPT ![c].status = IF thread[t].by = challenge[c].to THEN "DECLINED" ELSE "CANCELLED"]
  /\ Ends(t) /\ UNCHANGED <<friendship, blocks, match, unlooked>>

ExpireChallenges == \E c \in ChallengeIds :
  /\ challenge[c].status \in Open /\ RowFree(c)
  /\ challenge' = [challenge EXCEPT ![c].status = "EXPIRED"]
  /\ UNCHANGED <<friendship, blocks, match, thread, unlooked>>

-----------------------------------------------------------------------------
(* Games started by one player, without a look at who is playing already; a game ends. *)
CreateMatch == \E g \in GameIds, four \in {s \in SUBSET Players : Cardinality(s) = 4} :
  /\ NewGame(g)
  /\ match' = [match EXCEPT ![g] = [live |-> TRUE, seats |-> four, paired |-> FALSE]]
  /\ UNCHANGED <<friendship, blocks, challenge, thread, unlooked>>
EndMatch == \E g \in GameIds :
  /\ match[g].live /\ match' = [match EXCEPT ![g].live = FALSE]
  /\ UNCHANGED <<friendship, blocks, challenge, thread, unlooked>>

SocialStep(t) ==
  \/ RequestFriend(t) \/ UpsertFriendship(t) \/ RespondToFriend(t) \/ Answer(t) \/ CheckChallenge(t)
  \/ CreateChallenge(t) \/ AcceptChallenge(t) \/ Wait(t) \/ FindPair(t) \/ CreateForAcceptedTeams(t)
  \/ ReadToResolve(t) \/ ResolveChallenge(t)
SocialNext == RemoveFriend \/ Block \/ Unblock \/ ExpireChallenges \/ CreateMatch \/ EndMatch
              \/ \E t \in Threads : SocialStep(t)
\* Anybody may be friends at the start, and any of the challenges be pending.
SocialSpec ==
  /\ \E friends \in SUBSET Acquainted, some \in SUBSET ChallengeIds :
       \E pending \in [some -> {w \in Players \X Players : {w[1], w[2]} \in Acquainted}] : SocialInit(friends, pending)
  /\ [][SocialNext]_socialVars

-----------------------------------------------------------------------------
(* Properties. *)

\* Challenges seat nobody in two games at once, and a challenge that says MATCHED names a game in
\* which both of its players sit, two challenges to a game.
ChallengesSeatOnce ==
  /\ \A g, h \in GameIds : g # h /\ match[g].live /\ match[h].live /\ match[g].paired /\ match[h].paired
                           => match[g].seats \cap match[h].seats = {}
  /\ \A c \in ChallengeIds : challenge[c].status = "MATCHED" => challenge[c].match # 0
  /\ \A g \in GameIds : match[g].paired =>
       LET cs == {c \in ChallengeIds : challenge[c].match = g} IN
       Cardinality(cs) = 2 /\ match[g].seats = UNION {PairOf(c) : c \in cs} /\ Cardinality(match[g].seats) = 4

\* Two players of whom one has blocked the other are no friends and have no open challenge,
\* unless a call wrote that had looked for the block before it was made.
BlockedStayApart == \A q \in Acquainted : Blocked(q) /\ q \notin unlooked =>
  friendship[q].status = "none" /\ \A c \in Between(q) : challenge[c].status \notin Open

\* Friendships, blocks, challenges and games agree, whatever two requests do at once.
SocialAgrees == SocialTypeOK /\ ChallengesSeatOnce /\ BlockedStayApart
=============================================================================
