--------------------------- MODULE Players_proofs ---------------------------
(***************************************************************************)
(* Proofs about players: their sessions, refresh tokens and password       *)
(* resets; their accounts; the game four of them play at a table with what *)
(* an overview replays of it; their friends, blocks and challenges; their  *)
(* place on the early-access list and their membership; what they wear;    *)
(* and what they have learned.  Each has an invariant of its own; the last *)
(* two are steps beside those of the membership they read.                 *)
(***************************************************************************)
EXTENDS Accounts, PlayerSessions, Progress, Challenges, Animations, Lessons, Sums_proofs

HandStages == {"idle", "vouched", "verified", "opened", "rotating", "revoking",
               "mailing", "posting", "resetting", "ending", "consuming"}
HandCalls == [at : HandStages, sid : PSessions \cup {0}, tok : PTokens \cup {0},
              tick : Tickets \cup {0}, since : Nat, seen : SUBSET (PSessions \cup Tickets)]

SessionRows ==
    /\ resets \in Nat /\ usable \in BOOLEAN /\ slipped \subseteq PSessions
    /\ psession \in [PSessions -> [state : {"none", "active", "ended"}, since : Nat]]
    /\ ptoken \in [PTokens -> [state : {"none", "live", "rotated"}, sid : PSessions \cup {0}]]
    /\ ticket \in [Tickets -> {"none", "link", "state", "consumed"}]
    /\ uses \in [Tickets -> Nat]
    /\ hand \in [Hands -> HandCalls]

(* A token that was ever issued names a session that was ever opened.        *)
TokensName ==
    \A t \in PTokens :
        ptoken[t].state # "none" =>
            /\ ptoken[t].sid \in PSessions
            /\ psession[ptoken[t].sid].state # "none"

(* A sign-in between its session and its first token has the session to      *)
(* itself; one that rotates holds a token of its session; what a call is     *)
(* about to end was opened once.                                             *)
HandsKnow ==
    \A h \in Hands :
        /\ hand[h].at \in {"opened", "rotating", "revoking"} =>
               hand[h].sid \in PSessions /\ psession[hand[h].sid].state # "none"
        /\ hand[h].at = "opened" =>
               /\ \A t \in PTokens : ptoken[t].state # "none" => ptoken[t].sid # hand[h].sid
               /\ \A g \in Hands : hand[g].at = "opened" /\ hand[g].sid = hand[h].sid => g = h
        /\ hand[h].at = "rotating" =>
               /\ hand[h].tok \in PTokens /\ ptoken[hand[h].tok].state # "none"
               /\ ptoken[hand[h].tok].sid = hand[h].sid

OneLiveEach ==
    \A t, u \in PTokens :
        ptoken[t].state = "live" /\ ptoken[u].state = "live" /\ ptoken[t].sid = ptoken[u].sid => t = u

(* Only a password that is still the one read, or was read earlier.          *)
ReadsArePast ==
    /\ \A h \in Hands : hand[h].since <= resets
    /\ \A s \in PSessions : psession[s].state = "active" => psession[s].since = resets \/ s \in slipped

(* A link stays a link and a state a state until consumed; only a consumed   *)
(* ticket has done anything, and one reset at a time is on its way with a    *)
(* link that has done nothing.                                               *)
TicketsOnce ==
    /\ \A k \in Tickets : uses[k] <= 1 /\ (uses[k] # 0 => ticket[k] = "consumed")
    /\ \A h \in Hands :
           /\ hand[h].at = "consuming" => hand[h].tick \in Tickets /\ ticket[hand[h].tick] \in {"state", "consumed"}
           /\ hand[h].at = "resetting" => hand[h].tick \in Tickets /\ ticket[hand[h].tick] \in {"link", "consumed"}
           /\ hand[h].at = "ending" =>
                  /\ hand[h].tick \in Tickets /\ ticket[hand[h].tick] \in {"link", "consumed"}
                  /\ uses[hand[h].tick] = 0
                  /\ \A g \in Hands : hand[g].at = "ending" => g = h

Used == {k \in Tickets : uses[k] # 0}
ResetsAreCounted == resets <= Cardinality(Used)

PlayerSessionsInv ==
    /\ SessionRows /\ TokensName /\ HandsKnow /\ OneLiveEach /\ ReadsArePast
    /\ TicketsOnce /\ ResetsAreCounted

(* The tickets that have done something are finitely many.                   *)
LEMMA UsedIsFinite == IsFiniteSet(Used) /\ IsFiniteSet(Used)'
<1>1. Used \subseteq Tickets /\ Used' \subseteq Tickets
  BY DEF Used
<1> QED BY <1>1, PlayerSessionsAssumption, FS_Subset

(* What a call may become when nothing else changes.                         *)
Fits(new) ==
    /\ new \in HandCalls /\ new.since <= resets /\ new.at # "opened"
    /\ new.at \in {"rotating", "revoking"} =>
           new.sid \in PSessions /\ psession[new.sid].state # "none"
    /\ new.at = "rotating" =>
           new.tok \in PTokens /\ ptoken[new.tok].state # "none" /\ ptoken[new.tok].sid = new.sid
    /\ new.at = "consuming" => new.tick \in Tickets /\ ticket[new.tick] \in {"state", "consumed"}
    /\ new.at = "resetting" => new.tick \in Tickets /\ ticket[new.tick] \in {"link", "consumed"}
    /\ new.at = "ending" =>
           /\ new.tick \in Tickets /\ ticket[new.tick] = "link"
           /\ \A g \in Hands : hand[g].at # "ending"

(* An idle call fits.                                                        *)
LEMMA IdleFits == PlayerSessionsInv => Idle \in HandCalls /\ Idle.at = "idle" /\ Idle.since = 0 /\ Fits(Idle)
<1>1. Idle \in HandCalls /\ Idle.at = "idle" /\ Idle.since = 0
  BY DEF Idle, HandCalls, HandStages
<1> QED BY <1>1 DEF Fits, PlayerSessionsInv, SessionRows

(* So does one that is to end the session of a token.                        *)
LEMMA RevokingFits ==
    ASSUME PlayerSessionsInv, NEW t \in PTokens, ptoken[t].state # "none"
    PROVE  Fits([Idle EXCEPT !.at = "revoking", !.sid = ptoken[t].sid])
<1> USE DEF PlayerSessionsInv
<1> DEFINE new == [Idle EXCEPT !.at = "revoking", !.sid = ptoken[t].sid]
<1>1. new \in HandCalls /\ new.at = "revoking" /\ new.since = 0 /\ new.sid = ptoken[t].sid
  BY IdleFits DEF SessionRows, HandCalls, HandStages
<1> HIDE DEF new
<1>2. Fits(new)
  BY <1>1 DEF SessionRows, TokensName, Fits
<1> QED BY <1>2 DEF new

(* A step of one call that changes nothing else keeps the invariant.         *)
LEMMA OneHandMoves ==
    ASSUME PlayerSessionsInv, NEW h \in Hands, NEW new, Fits(new),
           hand' = [hand EXCEPT ![h] = new],
           UNCHANGED <<resets, usable, psession, ptoken, ticket, uses, slipped>>
    PROVE  PlayerSessionsInv'
<1>1. /\ hand' \in [Hands -> HandCalls] /\ hand'[h] = new
      /\ \A g \in Hands \ {h} : hand'[g] = hand[g]
  BY DEF PlayerSessionsInv, SessionRows, Fits
<1>2. SessionRows' /\ TokensName' /\ OneLiveEach'
  BY <1>1 DEF PlayerSessionsInv, SessionRows, TokensName, OneLiveEach
<1>3. HandsKnow'
  BY <1>1 DEF PlayerSessionsInv, HandsKnow, Fits
<1>4. ReadsArePast'
  BY <1>1 DEF PlayerSessionsInv, ReadsArePast, Fits
<1>5. TicketsOnce'
  BY <1>1 DEF PlayerSessionsInv, SessionRows, TicketsOnce, Fits
<1>6. ResetsAreCounted'
  BY DEF PlayerSessionsInv, ResetsAreCounted, Used
<1> QED BY <1>2, <1>3, <1>4, <1>5, <1>6 DEF PlayerSessionsInv

(* The steps that read, and those that give up.                              *)
LEMMA ReadersKeep ==
    ASSUME PlayerSessionsInv, NEW h \in Hands,
           \/ Login(h) \/ ReadOAuthState(h) \/ Vouched(h) \/ Present(h) \/ Lost(h) \/ Logout(h)
           \/ RequestPasswordReset(h) \/ ConsumeOlder(h) \/ ReadResetLink(h) \/ ClaimReset(h) \/ Vanishes(h)
    PROVE  PlayerSessionsInv'
<1> USE DEF PlayerSessionsInv
<1>1. ASSUME Rests(h), UNCHANGED <<resets, usable, psession, ptoken, ticket, uses, slipped>>
      PROVE  PlayerSessionsInv'
  BY <1>1, IdleFits, OneHandMoves DEF Rests
<1>2. CASE Login(h)
  <2> DEFINE new == [Idle EXCEPT !.at = "verified", !.since = resets]
  <2>1. new \in HandCalls /\ new.at = "verified" /\ new.since = resets
    BY IdleFits DEF SessionRows, HandCalls, HandStages
  <2>2. hand' = [hand EXCEPT ![h] = new]
    BY <1>2 DEF Login, Goes
  <2> HIDE DEF new
  <2>3. Fits(new)
    BY <2>1 DEF SessionRows, Fits
  <2> QED BY <1>2, <2>2, <2>3, OneHandMoves DEF Login
<1>3. CASE ReadOAuthState(h)
  <2>1. PICK k \in Tickets : ticket[k] = "state" /\ Goes(h, [Idle EXCEPT !.at = "consuming", !.tick = k])
    BY <1>3 DEF ReadOAuthState
  <2> DEFINE new == [Idle EXCEPT !.at = "consuming", !.tick = k]
  <2>2. new \in HandCalls /\ new.at = "consuming" /\ new.tick = k /\ new.since = 0
    BY IdleFits DEF HandCalls, HandStages
  <2>3. hand' = [hand EXCEPT ![h] = new]
    BY <2>1 DEF Goes
  <2> HIDE DEF new
  <2>4. Fits(new)
    BY <2>1, <2>2 DEF SessionRows, Fits
  <2> QED BY <1>3, <2>3, <2>4, OneHandMoves DEF ReadOAuthState
<1>4. CASE Vouched(h)
  <2>1. CASE usable
    <3> DEFINE new == [hand[h] EXCEPT !.at = "verified", !.since = resets]
    <3>1. new \in HandCalls /\ new.at = "verified" /\ new.since = resets
      BY DEF SessionRows, HandCalls, HandStages
    <3>2. hand' = [hand EXCEPT ![h] = new]
      BY <1>4, <2>1 DEF Vouched, SessionRows, HandCalls
    <3> HIDE DEF new
    <3>3. Fits(new)
      BY <3>1 DEF SessionRows, Fits
    <3> QED BY <1>4, <3>2, <3>3, OneHandMoves DEF Vouched
  <2>2. CASE ~usable
    BY <1>1, <1>4, <2>2 DEF Vouched
  <2> QED BY <2>1, <2>2
<1>5. CASE Present(h)
  <2>1. PICK t \in PTokens :
          /\ ptoken[t].state # "none"
          /\ \/ Goes(h, [Idle EXCEPT !.at = "rotating", !.sid = ptoken[t].sid, !.tok = t])
             \/ Goes(h, [Idle EXCEPT !.at = "revoking", !.sid = ptoken[t].sid])
    BY <1>5 DEF Present
  <2>2. Fits([Idle EXCEPT !.at = "rotating", !.sid = ptoken[t].sid, !.tok = t])
    <3> DEFINE new == [Idle EXCEPT !.at = "rotating", !.sid = ptoken[t].sid, !.tok = t]
    <3>1. /\ new \in HandCalls /\ new.at = "rotating" /\ new.since = 0
          /\ new.sid = ptoken[t].sid /\ new.tok = t
      BY IdleFits DEF SessionRows, HandCalls, HandStages
    <3> HIDE DEF new
    <3>2. Fits(new)
      BY <2>1, <3>1 DEF SessionRows, TokensName, Fits
    <3> QED BY <3>2 DEF new
  <2>3. Fits([Idle EXCEPT !.at = "revoking", !.sid = ptoken[t].sid])
    BY <2>1, RevokingFits
  <2> QED BY <1>5, <2>1, <2>2, <2>3, OneHandMoves DEF Present, Goes
<1>6. CASE Logout(h)
  <2>1. PICK t \in PTokens :
          ptoken[t].state # "none" /\ Goes(h, [Idle EXCEPT !.at = "revoking", !.sid = ptoken[t].sid])
    BY <1>6 DEF Logout
  <2>2. Fits([Idle EXCEPT !.at = "revoking", !.sid = ptoken[t].sid])
    BY <2>1, RevokingFits
  <2> QED BY <1>6, <2>1, <2>2, OneHandMoves DEF Logout, Goes
<1>7. CASE RequestPasswordReset(h)
  <2>1. Fits([Idle EXCEPT !.at = "mailing"])
    BY DEF SessionRows, Fits, HandCalls, HandStages, Idle
  <2> QED BY <1>7, <2>1, OneHandMoves DEF RequestPasswordReset, Goes
<1>8. CASE ConsumeOlder(h)
  <2>1. Fits([hand[h] EXCEPT !.at = "posting", !.seen = OpenLinks])
    <3> DEFINE new == [hand[h] EXCEPT !.at = "posting", !.seen = OpenLinks]
    <3>1. hand[h] \in HandCalls /\ hand[h].since <= resets /\ OpenLinks \subseteq Tickets
      BY DEF SessionRows, ReadsArePast, OpenLinks
    <3>2. new \in HandCalls /\ new.at = "posting" /\ new.since = hand[h].since
      BY <3>1 DEF HandCalls, HandStages
    <3> HIDE DEF new
    <3>3. Fits(new)
      BY <3>1, <3>2 DEF Fits
    <3> QED  BY <3>3 DEF new
  <2>2. hand' = [hand EXCEPT ![h] = [hand[h] EXCEPT !.at = "posting", !.seen = OpenLinks]]
    BY <1>8 DEF ConsumeOlder, SessionRows, HandCalls
  <2> QED BY <1>8, <2>1, <2>2, OneHandMoves DEF ConsumeOlder
<1>9. CASE ReadResetLink(h)
  <2>1. PICK k \in Tickets : ticket[k] = "link" /\ Goes(h, [Idle EXCEPT !.at = "resetting", !.tick = k])
    BY <1>9 DEF ReadResetLink
  <2> DEFINE new == [Idle EXCEPT !.at = "resetting", !.tick = k]
  <2>2. new \in HandCalls /\ new.at = "resetting" /\ new.tick = k /\ new.since = 0
    BY IdleFits DEF HandCalls, HandStages
  <2>3. hand' = [hand EXCEPT ![h] = new]
    BY <2>1 DEF Goes
  <2> HIDE DEF new
  <2>4. Fits(new)
    BY <2>1, <2>2 DEF SessionRows, Fits
  <2> QED BY <1>9, <2>3, <2>4, OneHandMoves DEF ReadResetLink
<1>10. CASE ClaimReset(h)
  <2>1. CASE Unconsumed(hand[h].tick)
    <3> DEFINE new == [hand[h] EXCEPT !.at = "ending", !.seen = Active]
    <3>1. new \in HandCalls /\ new.at = "ending" /\ new.since = hand[h].since /\ new.tick = hand[h].tick
      BY DEF SessionRows, HandCalls, HandStages, Active
    <3>2. hand' = [hand EXCEPT ![h] = new]
      BY <1>10, <2>1 DEF ClaimReset, SessionRows, HandCalls
    <3>3. hand[h].at = "resetting" /\ \A g \in Hands : hand[g].at # "ending"
      BY <1>10 DEF ClaimReset
    <3> HIDE DEF new
    <3>4. Fits(new)
      BY <2>1, <3>1, <3>3 DEF ReadsArePast, TicketsOnce, Fits, Unconsumed
    <3> QED BY <1>10, <3>2, <3>4, OneHandMoves DEF ClaimReset
  <2>2. CASE ~Unconsumed(hand[h].tick)
    BY <1>1, <1>10, <2>2 DEF ClaimReset
  <2> QED BY <2>1, <2>2
<1>11. CASE Lost(h) \/ Vanishes(h)
  BY <1>1, <1>11 DEF Lost, Vanishes
<1> QED BY <1>2, <1>3, <1>4, <1>5, <1>6, <1>7, <1>8, <1>9, <1>10, <1>11

(* A provider state works for the call that consumed it.                     *)
LEMMA ConsumeOAuthStateKeeps ==
    ASSUME PlayerSessionsInv, NEW h \in Hands, ConsumeOAuthState(h) PROVE PlayerSessionsInv'
<1> USE DEF PlayerSessionsInv
<1> DEFINE k == hand[h].tick
<1>a. hand[h].at = "consuming" /\ k \in Tickets /\ UNCHANGED <<resets, usable, psession, ptoken, slipped>>
  BY DEF ConsumeOAuthState, TicketsOnce
<1>b. CASE ~Unconsumed(k)
  BY <1>a, <1>b, IdleFits, OneHandMoves DEF ConsumeOAuthState, Rests
<1>c. CASE Unconsumed(k)
  <2>1. /\ ticket' = [ticket EXCEPT ![k] = "consumed"] /\ ticket[k] = "state" /\ uses[k] = 0
        /\ \/ hand' = [hand EXCEPT ![h].at = "vouched"] /\ uses' = [uses EXCEPT ![k] = @ + 1]
           \/ hand' = [hand EXCEPT ![h] = Idle] /\ uses' = uses
    BY <1>a, <1>c DEF ConsumeOAuthState, TicketsOnce, Unconsumed, Sends, Rests, SessionRows
  <2> HIDE DEF k
  <2>2. /\ hand' \in [Hands -> HandCalls] /\ hand'[h].at \in {"idle", "vouched"} /\ hand'[h].since <= resets
        /\ \A g \in Hands \ {h} : hand'[g] = hand[g]
    <3>1. [hand[h] EXCEPT !.at = "vouched"] \in HandCalls /\ [hand[h] EXCEPT !.at = "vouched"].at = "vouched"
          /\ [hand[h] EXCEPT !.at = "vouched"].since = hand[h].since
      BY DEF SessionRows, HandCalls, HandStages
    <3>2. /\ \/ hand' = [hand EXCEPT ![h] = [hand[h] EXCEPT !.at = "vouched"]]
             \/ hand' = [hand EXCEPT ![h] = Idle]
          /\ hand \in [Hands -> HandCalls] /\ resets \in Nat /\ hand[h].since <= resets
      BY <2>1 DEF SessionRows, ReadsArePast
    <3>3. CASE hand' = [hand EXCEPT ![h] = [hand[h] EXCEPT !.at = "vouched"]]
      BY <3>1, <3>2, <3>3
    <3>4. CASE hand' = [hand EXCEPT ![h] = Idle]
      BY <3>2, <3>4, IdleFits
    <3> QED BY <3>2, <3>3, <3>4
  <2>3. /\ uses' \in [Tickets -> Nat] /\ uses'[k] \in {0, 1}
        /\ \A r \in Tickets \ {k} : uses'[r] = uses[r]
    BY <1>a, <2>1 DEF SessionRows
  <2>4. /\ ticket' \in [Tickets -> {"none", "link", "state", "consumed"}] /\ ticket'[k] = "consumed"
        /\ \A r \in Tickets \ {k} : ticket'[r] = ticket[r]
    BY <1>a, <2>1 DEF SessionRows
  <2>5. SessionRows' /\ TokensName' /\ OneLiveEach'
    BY <1>a, <2>2, <2>3, <2>4 DEF SessionRows, TokensName, OneLiveEach
  <2>6. HandsKnow'
    BY <1>a, <2>2 DEF HandsKnow
  <2>7. ReadsArePast'
    BY <1>a, <2>2 DEF ReadsArePast
  <2>8. TicketsOnce'
    <3>1. \A r \in Tickets : uses'[r] <= 1 /\ (uses'[r] # 0 => ticket'[r] = "consumed")
      BY <2>3, <2>4 DEF TicketsOnce
    <3>2. ASSUME NEW g \in Hands, hand[g].at = "ending" PROVE hand[g].tick # k
      BY <2>1, <3>2 DEF TicketsOnce
    <3>3. ASSUME NEW g \in Hands \ {h} PROVE hand'[g] = hand[g]
      BY <2>2
    <3>4. \A g \in Hands : hand'[g].at = "consuming" =>
            hand'[g].tick \in Tickets /\ ticket'[hand'[g].tick] \in {"state", "consumed"}
      BY <2>2, <2>4 DEF TicketsOnce
    <3>5. \A g \in Hands : hand'[g].at = "resetting" =>
            hand'[g].tick \in Tickets /\ ticket'[hand'[g].tick] \in {"link", "consumed"}
      BY <2>2, <2>4 DEF TicketsOnce
    <3>6. \A g \in Hands : hand'[g].at = "ending" =>
            /\ hand'[g].tick \in Tickets /\ ticket'[hand'[g].tick] \in {"link", "consumed"}
            /\ uses'[hand'[g].tick] = 0
            /\ \A f \in Hands : hand'[f].at = "ending" => f = g
      BY <2>2, <2>3, <2>4, <3>2 DEF TicketsOnce
    <3> QED BY <3>1, <3>4, <3>5, <3>6 DEF TicketsOnce
  <2>9. ResetsAreCounted'
    <3>1. Used \subseteq Used' /\ IsFiniteSet(Used') /\ IsFiniteSet(Used)
      BY <2>1, <2>3, UsedIsFinite DEF Used
    <3>2. Cardinality(Used) <= Cardinality(Used')
      BY <3>1, FS_Subset
    <3> QED BY <1>a, <3>1, <3>2, FS_CardinalityType DEF ResetsAreCounted, SessionRows
  <2> QED BY <2>5, <2>6, <2>7, <2>8, <2>9
<1> QED BY <1>b, <1>c

(* A new session belongs to the call that opened it.                         *)
LEMMA CreateSessionKeeps ==
    ASSUME PlayerSessionsInv, NEW h \in Hands, CreateSession(h) PROVE PlayerSessionsInv'
<1> USE DEF PlayerSessionsInv
<1>a. PICK s \in PSessions :
        /\ hand[h].at = "verified" /\ psession[s].state = "none"
        /\ psession' = [psession EXCEPT ![s] = [state |-> "active", since |-> hand[h].since]]
        /\ hand' = [hand EXCEPT ![h].at = "opened", ![h].sid = s]
        /\ slipped' = IF hand[h].since < resets THEN slipped \cup {s} ELSE slipped
        /\ UNCHANGED <<resets, usable, ptoken, ticket, uses>>
  BY DEF CreateSession, NextSession
<1>b. /\ hand' \in [Hands -> HandCalls] /\ hand'[h].at = "opened" /\ hand'[h].sid = s
      /\ hand'[h].since = hand[h].since
      /\ \A g \in Hands \ {h} : hand'[g] = hand[g]
  <2> DEFINE new == [hand[h] EXCEPT !.at = "opened", !.sid = s]
  <2>1. /\ new \in HandCalls /\ new.at = "opened" /\ new.sid = s /\ new.since = hand[h].since
    BY DEF SessionRows, HandCalls, HandStages
  <2>2. hand' = [hand EXCEPT ![h] = new] /\ hand \in [Hands -> HandCalls]
    BY <1>a DEF SessionRows, HandCalls
  <2> HIDE DEF new
  <2> QED BY <2>1, <2>2
<1>c. /\ psession' \in [PSessions -> [state : {"none", "active", "ended"}, since : Nat]]
      /\ psession'[s].state = "active" /\ psession'[s].since = hand[h].since
      /\ \A r \in PSessions \ {s} : psession'[r] = psession[r]
  <2>1. hand[h].since \in Nat
    BY DEF SessionRows, HandCalls
  <2> QED BY <1>a, <2>1 DEF SessionRows
<1>d. \A t \in PTokens : ptoken[t].state # "none" => ptoken[t].sid # s
  BY <1>a DEF TokensName
<1>1. SessionRows'
  BY <1>a, <1>b, <1>c DEF SessionRows
<1>2. TokensName' /\ OneLiveEach'
  BY <1>a, <1>c DEF TokensName, OneLiveEach
<1>3. HandsKnow'
  BY <1>a, <1>b, <1>c, <1>d DEF HandsKnow
<1>4. ReadsArePast'
  <2>1. \A g \in Hands : hand'[g].since <= resets'
    BY <1>a, <1>b DEF ReadsArePast
  <2>2. hand[h].since \in Nat /\ resets \in Nat /\ hand[h].since <= resets
    BY DEF SessionRows, HandCalls, ReadsArePast
  <2>3. hand[h].since = resets \/ s \in slipped'
    BY <1>a, <2>2
  <2>4. \A r \in PSessions : psession'[r].state = "active" => psession'[r].since = resets' \/ r \in slipped'
    BY <1>a, <1>c, <2>3 DEF ReadsArePast
  <2> QED BY <2>1, <2>4 DEF ReadsArePast
<1>5. TicketsOnce' /\ ResetsAreCounted'
  BY <1>a, <1>b DEF TicketsOnce, ResetsAreCounted, Used
<1> QED BY <1>1, <1>2, <1>3, <1>4, <1>5

(* The first token of a session is its only one.                             *)
LEMMA StoreRefreshTokenKeeps ==
    ASSUME PlayerSessionsInv, NEW h \in Hands, StoreRefreshToken(h) PROVE PlayerSessionsInv'
<1> USE DEF PlayerSessionsInv
<1>0. /\ hand' \in [Hands -> HandCalls] /\ hand'[h].at = "idle" /\ hand'[h].since = 0
      /\ \A g \in Hands \ {h} : hand'[g] = hand[g]
  BY IdleFits DEF StoreRefreshToken, Rests, SessionRows
<1>a. PICK t \in PTokens :
        /\ hand[h].at = "opened" /\ ptoken[t].state = "none"
        /\ ptoken' = [ptoken EXCEPT ![t] = [state |-> "live", sid |-> hand[h].sid]]
        /\ UNCHANGED <<resets, usable, psession, ticket, uses, slipped>>
  BY DEF StoreRefreshToken, NextToken
<1>b. /\ hand[h].sid \in PSessions /\ psession[hand[h].sid].state # "none"
      /\ \A u \in PTokens : ptoken[u].state # "none" => ptoken[u].sid # hand[h].sid
  BY <1>a DEF HandsKnow
<1>c. /\ ptoken' \in [PTokens -> [state : {"none", "live", "rotated"}, sid : PSessions \cup {0}]]
      /\ ptoken'[t].state = "live" /\ ptoken'[t].sid = hand[h].sid
      /\ \A u \in PTokens \ {t} : ptoken'[u] = ptoken[u]
  BY <1>a, <1>b DEF SessionRows
<1>1. SessionRows'
  BY <1>0, <1>a, <1>c DEF SessionRows
<1>2. TokensName' /\ OneLiveEach'
  BY <1>a, <1>b, <1>c DEF TokensName, OneLiveEach
<1>3. HandsKnow'
  <2>1. \A g \in Hands : hand'[g].at = "opened" => hand'[g].sid # hand[h].sid
    BY <1>0, <1>a DEF HandsKnow
  <2>2. \A g \in Hands : hand'[g].at = "rotating" => hand'[g].tok # t
    BY <1>0, <1>a DEF HandsKnow
  <2> QED BY <1>0, <1>a, <1>c, <2>1, <2>2 DEF HandsKnow
<1>4. ReadsArePast' /\ TicketsOnce' /\ ResetsAreCounted'
  <2>1. ReadsArePast'
    BY <1>0, <1>a DEF SessionRows, ReadsArePast
  <2>2. TicketsOnce'
    BY <1>0, <1>a DEF TicketsOnce
  <2>3. ResetsAreCounted'
    BY <1>a DEF ResetsAreCounted, Used
  <2> QED BY <2>1, <2>2, <2>3
<1> QED BY <1>1, <1>2, <1>3, <1>4

(* A token is claimed once, and its successor is the only live one.          *)
LEMMA RotateRefreshTokenKeeps ==
    ASSUME PlayerSessionsInv, NEW h \in Hands, RotateRefreshToken(h) PROVE PlayerSessionsInv'
<1> USE DEF PlayerSessionsInv
<1>0. /\ hand' \in [Hands -> HandCalls] /\ hand'[h].at = "idle" /\ hand'[h].since = 0
      /\ \A g \in Hands \ {h} : hand'[g] = hand[g]
  BY IdleFits DEF RotateRefreshToken, Rests, SessionRows
<1> DEFINE q == hand[h]
<1>a. PICK n \in PTokens :
        /\ q.at = "rotating" /\ ptoken[n].state = "none" /\ ptoken[q.tok].state = "live"
        /\ ptoken' = [ptoken EXCEPT ![q.tok].state = "rotated", ![n] = [state |-> "live", sid |-> q.sid]]
        /\ UNCHANGED <<resets, usable, psession, ticket, uses, slipped>>
  BY DEF RotateRefreshToken, NextToken, Claimable
<1>b. /\ q.sid \in PSessions /\ psession[q.sid].state # "none"
      /\ q.tok \in PTokens /\ ptoken[q.tok].sid = q.sid /\ q.tok # n
  BY <1>a DEF HandsKnow
<1> HIDE DEF q
<1>c. /\ ptoken' \in [PTokens -> [state : {"none", "live", "rotated"}, sid : PSessions \cup {0}]]
      /\ ptoken'[n].state = "live" /\ ptoken'[n].sid = q.sid
      /\ ptoken'[q.tok].state = "rotated" /\ ptoken'[q.tok].sid = q.sid
      /\ \A u \in PTokens \ {n, q.tok} : ptoken'[u] = ptoken[u]
  BY <1>a, <1>b DEF SessionRows
<1>1. SessionRows'
  BY <1>0, <1>a, <1>c DEF SessionRows
<1>2. TokensName'
  BY <1>a, <1>b, <1>c DEF TokensName
<1>3. OneLiveEach'
  <2>1. \A u \in PTokens : u # n /\ ptoken'[u].state = "live" => ptoken[u].state = "live" /\ ptoken'[u].sid # q.sid
    BY <1>a, <1>b, <1>c DEF OneLiveEach
  <2>2. \A u \in PTokens : u # n => ptoken'[u].sid = ptoken[u].sid
    BY <1>b, <1>c
  <2> QED BY <1>c, <2>1, <2>2 DEF OneLiveEach
<1>4. HandsKnow'
  <2>1. \A g \in Hands : hand[g].at = "opened" => hand[g].sid # q.sid
    BY <1>a, <1>b DEF HandsKnow
  <2>2. \A g \in Hands : hand[g].at = "rotating" => hand[g].tok # n
    BY <1>a DEF HandsKnow
  <2>3. \A u \in PTokens \ {n} : ptoken'[u].sid = ptoken[u].sid
                                /\ (ptoken'[u].state # "none" <=> ptoken[u].state # "none")
    BY <1>a, <1>b, <1>c
  <2> QED BY <1>0, <1>a, <1>c, <2>1, <2>2, <2>3 DEF HandsKnow
<1>5. ReadsArePast' /\ TicketsOnce' /\ ResetsAreCounted'
  <2>1. ReadsArePast'
    BY <1>0, <1>a DEF SessionRows, ReadsArePast
  <2>2. TicketsOnce'
    BY <1>0, <1>a DEF TicketsOnce
  <2>3. ResetsAreCounted'
    BY <1>a DEF ResetsAreCounted, Used
  <2> QED BY <2>1, <2>2, <2>3
<1> QED BY <1>1, <1>2, <1>3, <1>4, <1>5

(* A session ends.                                                           *)
LEMMA RevokeSessionKeeps ==
    ASSUME PlayerSessionsInv, NEW h \in Hands, RevokeSession(h) PROVE PlayerSessionsInv'
<1> USE DEF PlayerSessionsInv
<1>0. /\ hand' \in [Hands -> HandCalls] /\ hand'[h].at = "idle" /\ hand'[h].since = 0
      /\ \A g \in Hands \ {h} : hand'[g] = hand[g]
  BY IdleFits DEF RevokeSession, Rests, SessionRows
<1>a. /\ hand[h].at = "revoking" /\ psession' = [psession EXCEPT ![hand[h].sid].state = "ended"]
      /\ UNCHANGED <<resets, usable, ptoken, ticket, uses, slipped>>
  BY DEF RevokeSession
<1>b. /\ psession' \in [PSessions -> [state : {"none", "active", "ended"}, since : Nat]]
      /\ \A s \in PSessions : psession[s].state # "none" => psession'[s].state # "none"
      /\ \A s \in PSessions : psession'[s].state = "active" => psession'[s] = psession[s]
  BY <1>a DEF SessionRows
<1>1. SessionRows'
  BY <1>0, <1>a, <1>b DEF SessionRows
<1>2. TokensName' /\ OneLiveEach'
  BY <1>a, <1>b DEF TokensName, OneLiveEach
<1>3. HandsKnow'
  BY <1>0, <1>a, <1>b DEF HandsKnow
<1>4. ReadsArePast' /\ TicketsOnce' /\ ResetsAreCounted'
  BY <1>0, <1>a, <1>b DEF SessionRows, ReadsArePast, TicketsOnce, ResetsAreCounted, Used
<1> QED BY <1>1, <1>2, <1>3, <1>4

(* A new link is of a ticket that has done nothing.                          *)
LEMMA CreateEmailTokenKeeps ==
    ASSUME PlayerSessionsInv, NEW h \in Hands, CreateEmailToken(h) PROVE PlayerSessionsInv'
<1> USE DEF PlayerSessionsInv
<1>0. /\ hand' \in [Hands -> HandCalls] /\ hand'[h].at = "idle" /\ hand'[h].since = 0
      /\ \A g \in Hands \ {h} : hand'[g] = hand[g]
  BY IdleFits DEF CreateEmailToken, Rests, SessionRows
<1>1. SessionRows'
  BY <1>0 DEF SessionRows, CreateEmailToken, NextTicket
<1>2. TokensName'
  BY <1>0 DEF SessionRows, CreateEmailToken, NextTicket, TokensName, HandsKnow
<1>3. HandsKnow'
  <2>1. UNCHANGED <<psession, ptoken>>
    BY DEF CreateEmailToken
  <2> QED BY <1>0, <2>1 DEF HandsKnow
<1>4. OneLiveEach'
  BY <1>0 DEF SessionRows, CreateEmailToken, NextTicket, TokensName, HandsKnow, OneLiveEach
<1>5. ReadsArePast'
  BY <1>0 DEF SessionRows, CreateEmailToken, NextTicket, ReadsArePast
<1>6. TicketsOnce'
  BY <1>0 DEF SessionRows, CreateEmailToken, NextTicket, TicketsOnce
<1>7. ResetsAreCounted'
  BY <1>0 DEF SessionRows, CreateEmailToken, NextTicket, ResetsAreCounted, Used
<1> QED BY <1>1, <1>2, <1>3, <1>4, <1>5, <1>6, <1>7

(* A reset uses its link, and every session it leaves had slipped by.        *)
LEMMA ResetPasswordKeeps ==
    ASSUME PlayerSessionsInv, NEW h \in Hands, ResetPassword(h) PROVE PlayerSessionsInv'
<1> USE DEF PlayerSessionsInv
<1> DEFINE k == hand[h].tick
<1>0. /\ hand' \in [Hands -> HandCalls] /\ hand'[h].at = "idle" /\ hand'[h].since = 0
      /\ \A g \in Hands \ {h} : hand'[g] = hand[g]
  BY IdleFits DEF ResetPassword, Rests, SessionRows
<1>a. /\ hand[h].at = "ending" /\ k \in Tickets /\ uses[k] = 0
      /\ resets' = resets + 1 /\ uses' = [uses EXCEPT ![k] = 1]
      /\ ticket' = [r \in Tickets |-> IF ticket[r] = "link" THEN "consumed" ELSE ticket[r]]
      /\ ticket[k] \in {"link", "consumed"}
      /\ psession' = [s \in PSessions |-> IF s \in hand[h].seen THEN [psession[s] EXCEPT !.state = "ended"]
                                          ELSE psession[s]]
      /\ slipped' = slipped \cup (Active \ hand[h].seen) /\ UNCHANGED <<usable, ptoken>>
  <2>1. hand[h].at = "ending" /\ k \in Tickets /\ uses[k] = 0 /\ ticket[k] \in {"link", "consumed"}
    BY DEF ResetPassword, TicketsOnce
  <2>2. uses' = [uses EXCEPT ![k] = 1]
    BY <2>1 DEF ResetPassword
  <2> QED BY <2>1, <2>2 DEF ResetPassword
<1> HIDE DEF k
<1>b. /\ psession' \in [PSessions -> [state : {"none", "active", "ended"}, since : Nat]]
      /\ \A s \in PSessions : psession[s].state # "none" => psession'[s].state # "none"
      /\ \A s \in PSessions : psession'[s].state = "active" => psession[s].state = "active" /\ s \notin hand[h].seen
  BY <1>a DEF SessionRows
<1>c. /\ uses' \in [Tickets -> Nat] /\ uses'[k] = 1
      /\ \A r \in Tickets \ {k} : uses'[r] = uses[r]
  BY <1>a DEF SessionRows
<1>d. /\ ticket' \in [Tickets -> {"none", "link", "state", "consumed"}] /\ ticket'[k] = "consumed"
      /\ \A r \in Tickets : ticket'[r] = ticket[r] \/ (ticket[r] = "link" /\ ticket'[r] = "consumed")
  BY <1>a DEF SessionRows
<1>1. SessionRows'
  BY <1>0, <1>a, <1>b, <1>c, <1>d DEF SessionRows, Active
<1>2. TokensName' /\ OneLiveEach'
  BY <1>a, <1>b DEF TokensName, OneLiveEach
<1>3. HandsKnow'
  BY <1>0, <1>a, <1>b DEF HandsKnow
<1>4. ReadsArePast'
  BY <1>0, <1>a, <1>b DEF ReadsArePast, SessionRows, HandCalls, Active
<1>5. TicketsOnce'
  <2>1. \A r \in Tickets : uses'[r] <= 1 /\ (uses'[r] # 0 => ticket'[r] = "consumed")
    BY <1>c, <1>d DEF TicketsOnce
  <2>2. \A g \in Hands : hand'[g].at # "ending"
    BY <1>0, <1>a DEF TicketsOnce
  <2>3. \A g \in Hands : hand'[g].at = "consuming" =>
          hand'[g].tick \in Tickets /\ ticket'[hand'[g].tick] \in {"state", "consumed"}
    BY <1>0, <1>d DEF TicketsOnce
  <2>4. \A g \in Hands : hand'[g].at = "resetting" =>
          hand'[g].tick \in Tickets /\ ticket'[hand'[g].tick] \in {"link", "consumed"}
    BY <1>0, <1>d DEF TicketsOnce
  <2> QED BY <2>1, <2>2, <2>3, <2>4 DEF TicketsOnce
<1>6. ResetsAreCounted'
  <2>1. Used' = Used \cup {k} /\ k \notin Used
    BY <1>a, <1>c DEF Used
  <2>2. Cardinality(Used') = Cardinality(Used) + 1
    BY <2>1, UsedIsFinite, FS_AddElement
  <2> QED BY <1>a, <2>2, UsedIsFinite, FS_CardinalityType DEF ResetsAreCounted, SessionRows
<1> QED BY <1>1, <1>2, <1>3, <1>4, <1>5, <1>6

(* A provider sign-in begins, or the panel switches the account.             *)
LEMMA OutsidersKeep ==
    ASSUME PlayerSessionsInv, BeginOAuth \/ SwitchAccount PROVE PlayerSessionsInv'
<1> USE DEF PlayerSessionsInv
<1>1. SessionRows'
  BY DEF SessionRows, BeginOAuth, NextTicket, SwitchAccount
<1>2. TokensName' /\ HandsKnow' /\ OneLiveEach' /\ ReadsArePast'
  BY DEF TokensName, HandsKnow, OneLiveEach, ReadsArePast, BeginOAuth, SwitchAccount
<1>3. TicketsOnce'
  BY DEF SessionRows, TicketsOnce, BeginOAuth, NextTicket, SwitchAccount
<1>4. ResetsAreCounted'
  BY DEF ResetsAreCounted, Used, BeginOAuth, SwitchAccount
<1> QED BY <1>1, <1>2, <1>3, <1>4

(* Nothing has happened at the start.                                        *)
LEMMA PlayerSessionsInvInit == PlayerSessionsInit => PlayerSessionsInv
<1> SUFFICES ASSUME PlayerSessionsInit PROVE PlayerSessionsInv
  OBVIOUS
<1>1. Idle \in HandCalls
  BY DEF Idle, HandCalls, HandStages
<1>2. SessionRows
  BY <1>1 DEF PlayerSessionsInit, SessionRows
<1>3. TokensName /\ HandsKnow /\ OneLiveEach /\ ReadsArePast /\ TicketsOnce
  BY DEF PlayerSessionsInit, Idle, TokensName, HandsKnow, OneLiveEach, ReadsArePast, TicketsOnce
<1>4. ResetsAreCounted
  BY UsedIsFinite, FS_CardinalityType DEF PlayerSessionsInit, ResetsAreCounted
<1> QED BY <1>2, <1>3, <1>4 DEF PlayerSessionsInv

(* Every step keeps the invariant.                                           *)
LEMMA PlayerSessionsStep ==
    PlayerSessionsInv /\ [PlayerSessionsNext]_playerSessionVars => PlayerSessionsInv'
<1> SUFFICES ASSUME PlayerSessionsInv, [PlayerSessionsNext]_playerSessionVars PROVE PlayerSessionsInv'
  OBVIOUS
<1>1. ASSUME NEW h \in Hands, PlayerSessionStep(h) PROVE PlayerSessionsInv'
  BY <1>1, ReadersKeep, ConsumeOAuthStateKeeps, CreateSessionKeeps, StoreRefreshTokenKeeps,
     RotateRefreshTokenKeeps, RevokeSessionKeeps, CreateEmailTokenKeeps, ResetPasswordKeeps
     DEF PlayerSessionStep
<1>2. CASE UNCHANGED playerSessionVars
  BY <1>2 DEF playerSessionVars, PlayerSessionsInv, SessionRows, TokensName, HandsKnow, OneLiveEach,
              ReadsArePast, TicketsOnce, ResetsAreCounted, Used
<1> QED BY <1>1, <1>2, OutsidersKeep DEF PlayerSessionsNext

(* A reset is final, for any number of sessions, tokens and links and any    *)
(* overlap of the calls: no session opened before it goes on (but for a      *)
(* sign-in that had read the old hash), no link or provider state works      *)
(* twice, and an old refresh token never has two heirs.                      *)
THEOREM ResetsAreFinal == PlayerSessionsSpec => []ResetIsFinal
<1>1. ASSUME PlayerSessionsInv PROVE ResetIsFinal
  <2>1. PlayerSessionsTypeOK
    <3>1. resets \in 0 .. Cardinality(Tickets)
      <4>1. Cardinality(Used) <= Cardinality(Tickets) /\ Cardinality(Tickets) \in Nat
        BY PlayerSessionsAssumption, FS_Subset, FS_CardinalityType DEF Used
      <4> QED BY <1>1, <4>1, UsedIsFinite, FS_CardinalityType
              DEF PlayerSessionsInv, SessionRows, ResetsAreCounted
    <3> QED BY <1>1, <3>1 DEF PlayerSessionsInv, SessionRows, PlayerSessionsTypeOK, HandCalls, HandStages
  <2>2. \A s \in PSessions : Authenticated(s) => psession[s].since = resets \/ s \in slipped
    BY <1>1 DEF PlayerSessionsInv, ReadsArePast, Authenticated
  <2>3. \A k \in Tickets : uses[k] <= 1
    BY <1>1 DEF PlayerSessionsInv, TicketsOnce
  <2>4. ASSUME NEW s \in PSessions
        PROVE  Cardinality({t \in PTokens : ptoken[t].state = "live" /\ ptoken[t].sid = s}) <= 1
    <3> DEFINE Heirs == {t \in PTokens : ptoken[t].state = "live" /\ ptoken[t].sid = s}
    <3>1. CASE Heirs = {}
      BY <3>1, FS_EmptySet
    <3>2. CASE Heirs # {}
      <4>1. PICK t \in Heirs : TRUE
        BY <3>2
      <4>2. Heirs = {t}
        <5>1. \A u \in Heirs : u = t
          BY <1>1, <4>1 DEF PlayerSessionsInv, OneLiveEach
        <5> HIDE DEF Heirs
        <5> QED BY <4>1, <5>1
      <4>3. Cardinality({t}) = 1
        BY FS_Singleton
      <4> QED BY <4>2, <4>3
    <3> QED BY <3>1, <3>2
  <2> QED BY <2>1, <2>2, <2>3, <2>4 DEF ResetIsFinal
<1> QED BY <1>1, PlayerSessionsInvInit, PlayerSessionsStep, PTL DEF PlayerSessionsSpec

-----------------------------------------------------------------------------
(* Accounts. *)
JobStages == {"rest", "storing", "contact", "checking", "creating", "failing", "setting", "attaching", "linking"}
OnEvent == {"checking", "creating", "failing"}
JobCalls == [at : JobStages, on : Events \cup {NoEvent}, email : Emails \cup {Nobody},
             who : Users \cup {Nobody}, to : UserStatus, stale : BOOLEAN]
UserRows == [here : BOOLEAN, email : Emails \cup {Nobody}, status : UserStatus, deleted : BOOLEAN,
             verified : BOOLEAN, cred : {"none", "password", "provider"}, from : Events \cup {NoEvent}]

AccountRows ==
    /\ user \in [Users -> UserRows]
    /\ linked \in [Emails -> Users \cup {Nobody}]
    /\ event \in [Events -> {"none", "RECEIVED", "PROCESSED", "FAILED"}]
    /\ job \in [Workers -> JobCalls]
    /\ decided \in [Users -> UserStatus] /\ overtaken \subseteq Users /\ contested \subseteq Events

(* What a call is about exists.                                              *)
JobsKnow ==
    \A w \in Workers :
        /\ job[w].at \in {"storing", "contact"} \cup OnEvent => job[w].on \in Events
        /\ job[w].at = "setting" => job[w].who \in Users /\ job[w].to \in {"SUSPENDED", "ACTIVE"}
        /\ job[w].at \in {"attaching", "linking"} => job[w].email \in Emails

(* A call that is not stale still sees what it read: the user not removed,   *)
(* the address not that of a removed user.                                   *)
ReadsStand ==
    \A w \in Workers :
        /\ job[w].at = "setting" /\ ~job[w].stale => ~user[job[w].who].deleted
        /\ job[w].at = "attaching" /\ ~job[w].stale =>
               \A u \in Users : user[u].here /\ user[u].email = job[w].email => user[u].status # "DELETED"

MadeOnce ==
    \A e \in Events :
        /\ \A u, v \in FromEvent(e) : u = v
        /\ event[e] = "PROCESSED" => FromEvent(e) # {}
        /\ FromEvent(e) # {} => event[e] = "PROCESSED" \/ e \in contested

(* Unless it is contested, one call at a time works on an event, and only    *)
(* while the event has not made its user.                                    *)
OneWorkerEach ==
    \A e \in Events \ contested : \A w \in Workers :
        job[w].at \in OnEvent /\ job[w].on = e =>
            /\ FromEvent(e) = {}
            /\ \A x \in Workers : job[x].at \in OnEvent /\ job[x].on = e => x = w

AccountsInv ==
    AccountRows /\ JobsKnow /\ ReadsStand /\ MadeOnce /\ OneWorkerEach /\ StatusIsLastDecision

(* A row aged is the same row, stale if it saw what changed.                 *)
LEMMA AgedKeeps ==
    ASSUME job \in [Workers -> JobCalls], NEW u, NEW m
    PROVE  /\ Aged(u, m) \in [Workers -> JobCalls]
           /\ \A x \in Workers :
                /\ Aged(u, m)[x].at = job[x].at /\ Aged(u, m)[x].on = job[x].on
                /\ Aged(u, m)[x].who = job[x].who /\ Aged(u, m)[x].email = job[x].email
                /\ Aged(u, m)[x].to = job[x].to
                /\ Aged(u, m)[x].stale <=> \/ job[x].stale
                                           \/ job[x].who = u /\ u # Nobody
                                           \/ job[x].email = m
  BY DEF Aged, JobCalls

LEMMA RestIsCall == Rest \in JobCalls /\ Rest.at = "rest" /\ ~Rest.stale
  BY DEF Rest, JobCalls, JobStages, UserStatus

(* Steps that make no user and take up no event.                             *)
LEMMA EventsKeep ==
    ASSUME AccountsInv, UNCHANGED <<event, contested>>,
           \A e \in Events : FromEvent(e)' = FromEvent(e),
           \A x \in Workers : job'[x].at \in OnEvent => job[x].at \in OnEvent /\ job'[x].on = job[x].on
    PROVE  MadeOnce' /\ OneWorkerEach'
<1>1. MadeOnce'
  BY DEF AccountsInv, MadeOnce
<1>2. OneWorkerEach'
  BY DEF AccountsInv, OneWorkerEach
<1> QED BY <1>1, <1>2

(* A call alone moves on.                                                    *)
JobFits(w, new) ==
    /\ new \in JobCalls
    /\ new.at \in {"storing", "contact"} => new.on \in Events
    /\ new.at \in OnEvent => job[w].at \in OnEvent /\ new.on = job[w].on
    /\ new.at = "setting" => new.who \in Users /\ new.to \in {"SUSPENDED", "ACTIVE"} /\ ~user[new.who].deleted
    /\ new.at \in {"attaching", "linking"} =>
           /\ new.email \in Emails
           /\ \A u \in Users : user[u].here /\ user[u].email = new.email => user[u].status # "DELETED"

LEMMA OneJobMoves ==
    ASSUME AccountsInv, NEW w \in Workers, NEW new, JobFits(w, new), job' = [job EXCEPT ![w] = new],
           UNCHANGED <<user, linked, event, decided, overtaken, contested>>
    PROVE  AccountsInv'
<1>1. /\ job' \in [Workers -> JobCalls] /\ job'[w] = new
      /\ \A x \in Workers \ {w} : job'[x] = job[x]
  BY DEF AccountsInv, AccountRows, JobFits
<1>2. AccountRows' /\ StatusIsLastDecision'
  BY <1>1 DEF AccountsInv, AccountRows, StatusIsLastDecision, Here
<1>3. JobsKnow'
  <2>1. \A e : job[w].at \in OnEvent => job[w].on \in Events
    BY DEF AccountsInv, JobsKnow
  <2> QED BY <1>1, <2>1 DEF AccountsInv, JobsKnow, JobFits, OnEvent
<1>4. ReadsStand'
  BY <1>1 DEF AccountsInv, ReadsStand, JobFits
<1>5. MadeOnce' /\ OneWorkerEach'
  <2>1. \A e \in Events : FromEvent(e)' = FromEvent(e)
    BY DEF FromEvent, Here
  <2> QED BY <1>1, <2>1, EventsKeep DEF JobFits
<1> QED BY <1>2, <1>3, <1>4, <1>5 DEF AccountsInv

(* Deliveries, reads, and calls that give up.                                *)
LEMMA JobsKeep ==
    ASSUME AccountsInv, NEW w \in Workers,
           \/ Deliver(w) \/ DeliverContact(w) \/ LosesStore(w) \/ CheckFree(w) \/ CannotCreate(w)
           \/ Dies(w) \/ ReadToSet(w) \/ Register(w) \/ CompleteOAuth(w) \/ AlreadyLinked(w)
    PROVE  AccountsInv'
<1> USE DEF AccountsInv
<1>1. JobFits(w, Rest)
  BY RestIsCall DEF JobFits, OnEvent
<1>2. ASSUME Done(w), UNCHANGED <<user, linked, event, decided, overtaken, contested>> PROVE AccountsInv'
  BY <1>1, <1>2, OneJobMoves DEF Done
<1>3. ASSUME NEW at \in {"storing", "contact"}, Arrives(w, at) PROVE AccountsInv'
  <2>1. PICK e \in Events : job' = [job EXCEPT ![w] = [Rest EXCEPT !.at = at, !.on = e]]
    BY <1>3 DEF Arrives
  <2> DEFINE new == [Rest EXCEPT !.at = at, !.on = e]
  <2>2. new \in JobCalls /\ new.at = at /\ new.on = e
    BY RestIsCall DEF JobCalls, JobStages
  <2> HIDE DEF new
  <2>3. JobFits(w, new)
    BY <2>2 DEF JobFits, OnEvent
  <2> QED BY <1>3, <2>1, <2>3, OneJobMoves DEF Arrives, new
<1>4. ASSUME NEW at \in {"creating", "failing"}, job[w].at \in OnEvent, job' = [job EXCEPT ![w].at = at],
             UNCHANGED <<user, linked, event, decided, overtaken, contested>>
      PROVE  AccountsInv'
  <2> DEFINE new == [job[w] EXCEPT !.at = at]
  <2>1. new \in JobCalls /\ new.at = at /\ new.on = job[w].on
    BY <1>4 DEF AccountRows, JobCalls, JobStages
  <2>2. job' = [job EXCEPT ![w] = new]
    BY <1>4 DEF AccountRows, JobCalls
  <2> HIDE DEF new
  <2>3. JobFits(w, new)
    BY <1>4, <2>1 DEF JobFits, OnEvent
  <2> QED BY <1>4, <2>2, <2>3, OneJobMoves
<1>5. CASE CheckFree(w)
  <2>1. CASE HasEmail(AddressIn[job[w].on]) = {}
    BY <1>4, <1>5, <2>1 DEF CheckFree, OnEvent
  <2>2. CASE HasEmail(AddressIn[job[w].on]) # {}
    BY <1>4, <1>5, <2>2 DEF CheckFree, OnEvent
  <2> QED BY <2>1, <2>2
<1>6. CASE CannotCreate(w)
  BY <1>4, <1>6 DEF CannotCreate, OnEvent
<1>7. CASE ReadToSet(w)
  <2>1. PICK u \in Users, status \in {"SUSPENDED", "ACTIVE"} :
          ~user[u].deleted /\ job' = [job EXCEPT ![w] = [Rest EXCEPT !.at = "setting", !.who = u, !.to = status]]
    BY <1>7 DEF ReadToSet, NotDeleted
  <2> DEFINE new == [Rest EXCEPT !.at = "setting", !.who = u, !.to = status]
  <2>2. new \in JobCalls /\ new.at = "setting" /\ new.who = u /\ new.to = status
    BY RestIsCall DEF JobCalls, JobStages, UserStatus
  <2> HIDE DEF new
  <2>3. JobFits(w, new)
    BY <2>1, <2>2 DEF JobFits, OnEvent
  <2> QED BY <1>7, <2>1, <2>3, OneJobMoves DEF ReadToSet, new
<1>8. ASSUME NEW m \in Emails, NEW at \in {"attaching", "linking"}, \A u \in HasEmail(m) : user[u].status # "DELETED",
             job' = [job EXCEPT ![w] = [Rest EXCEPT !.at = at, !.email = m]],
             UNCHANGED <<user, linked, event, decided, overtaken, contested>>
      PROVE  AccountsInv'
  <2> DEFINE new == [Rest EXCEPT !.at = at, !.email = m]
  <2>1. new \in JobCalls /\ new.at = at /\ new.email = m
    BY RestIsCall DEF JobCalls, JobStages
  <2> HIDE DEF new
  <2>2. JobFits(w, new)
    BY <1>8, <2>1 DEF JobFits, OnEvent, HasEmail, Here
  <2> QED BY <1>8, <2>2, OneJobMoves DEF new
<1>9. CASE Register(w)
  BY <1>8, <1>9 DEF Register
<1>10. CASE CompleteOAuth(w)
  BY <1>8, <1>10 DEF CompleteOAuth
<1>11. CASE LosesStore(w) \/ Dies(w) \/ AlreadyLinked(w)
  BY <1>2, <1>11 DEF LosesStore, Dies, AlreadyLinked
<1> QED BY <1>3, <1>5, <1>6, <1>7, <1>9, <1>10, <1>11 DEF Deliver, DeliverContact

(* A call takes up an event that has not made its user, or contests it.      *)
LEMMA BeginKeeps ==
    ASSUME AccountsInv, NEW w \in Workers, NEW e \in Events, NEW at \in {"checking", "failing"}, Begin(w, e, at),
           event[e] # "PROCESSED", event' \in [Events -> {"none", "RECEIVED", "PROCESSED", "FAILED"}],
           \A f \in Events : event'[f] = "PROCESSED" <=> event[f] = "PROCESSED",
           UNCHANGED <<user, linked, decided, overtaken>>
    PROVE  AccountsInv'
<1> USE DEF AccountsInv
<1> DEFINE new == [Rest EXCEPT !.at = at, !.on = e]
<1>1. new \in JobCalls /\ new.at = at /\ new.on = e
  BY RestIsCall DEF JobCalls, JobStages
<1>2. job' = [job EXCEPT ![w] = new]
  BY DEF Begin
<1> HIDE DEF new
<1>3. /\ job' \in [Workers -> JobCalls] /\ job'[w] = new
      /\ \A x \in Workers \ {w} : job'[x] = job[x]
  BY <1>1, <1>2 DEF AccountRows
<1>4. contested \subseteq contested' /\ contested' \subseteq contested \cup {e}
  BY DEF Begin
<1>5. \A f \in Events : FromEvent(f)' = FromEvent(f)
  BY DEF FromEvent, Here
<1>6. AccountRows' /\ StatusIsLastDecision'
  BY <1>3, <1>4 DEF AccountRows, StatusIsLastDecision, Here
<1>7. JobsKnow' /\ ReadsStand'
  BY <1>1, <1>3 DEF JobsKnow, ReadsStand, OnEvent
<1>8. MadeOnce'
  BY <1>4, <1>5 DEF MadeOnce
<1>9. OneWorkerEach'
  <2>1. ASSUME e \notin contested'
        PROVE  FromEvent(e) = {} /\ \A x \in Workers \ {w} : ~(job[x].at \in OnEvent /\ job[x].on = e)
    <3>1. Works(e) \ {w} = {} /\ e \notin contested
      BY <1>4, <2>1 DEF Begin
    <3>2. FromEvent(e) = {}
      BY <3>1 DEF MadeOnce
    <3> QED BY <3>1, <3>2 DEF Works, OnEvent
  <2>2. ASSUME NEW f \in Events \ contested', NEW x \in Workers, job'[x].at \in OnEvent, job'[x].on = f
        PROVE  FromEvent(f) = {} /\ \A y \in Workers : job'[y].at \in OnEvent /\ job'[y].on = f => y = x
    <3>1. CASE f = e
      BY <1>1, <1>3, <2>1, <2>2, <3>1
    <3>2. CASE f # e
      BY <1>1, <1>3, <1>4, <2>2, <3>2 DEF OneWorkerEach
    <3> QED BY <3>1, <3>2
  <2> QED BY <1>5, <2>2 DEF OneWorkerEach
<1> QED BY <1>6, <1>7, <1>8, <1>9

LEMMA WebhooksKeep ==
    ASSUME AccountsInv, NEW w \in Workers,
           StoreEvent(w) \/ StoreContact(w) \/ Retry(w) \/ MarkEventFailed(w)
    PROVE  AccountsInv'
<1> USE DEF AccountsInv
<1>1. ASSUME job[w].at \in {"storing", "contact"}, Stores(w) PROVE AccountsInv'
  <2>1. job[w].on \in Events
    BY <1>1 DEF JobsKnow
  <2>2. PICK at \in {"checking", "failing"} : Begin(w, job[w].on, at)
    BY <1>1 DEF Stores
  <2>3. /\ event[job[w].on] = "none" /\ event' = [event EXCEPT ![job[w].on] = "RECEIVED"]
        /\ UNCHANGED <<user, linked, decided, overtaken>>
    BY <1>1 DEF Stores
  <2>4. /\ event' \in [Events -> {"none", "RECEIVED", "PROCESSED", "FAILED"}]
        /\ \A f \in Events : event'[f] = "PROCESSED" <=> event[f] = "PROCESSED"
    BY <2>1, <2>3 DEF AccountRows
  <2> QED BY <2>1, <2>2, <2>3, <2>4, BeginKeeps
<1>2. CASE Retry(w)
  <2>1. PICK e \in Events : Retriable(e) /\ Begin(w, e, "checking") /\ UNCHANGED <<user, linked, event, decided, overtaken>>
    BY <1>2 DEF Retry
  <2>2. event' \in [Events -> {"none", "RECEIVED", "PROCESSED", "FAILED"}] /\ event[e] # "PROCESSED"
    BY <2>1 DEF AccountRows, Retriable
  <2> QED BY <2>1, <2>2, BeginKeeps
<1>3. CASE MarkEventFailed(w)
  <2> DEFINE e == job[w].on
  <2>1. /\ job[w].at = "failing" /\ e \in Events /\ event' = [event EXCEPT ![e] = "FAILED"]
        /\ job' = [job EXCEPT ![w] = Rest]
        /\ UNCHANGED <<user, linked, decided, overtaken, contested>>
    BY <1>3 DEF MarkEventFailed, Done, JobsKnow, OnEvent
  <2> HIDE DEF e
  <2>2. \A f \in Events : FromEvent(f)' = FromEvent(f)
    BY <2>1 DEF FromEvent, Here
  <2>3. /\ job' \in [Workers -> JobCalls] /\ job'[w].at = "rest"
        /\ \A x \in Workers \ {w} : job'[x] = job[x]
    BY <2>1, RestIsCall DEF AccountRows
  <2>4. AccountRows' /\ JobsKnow' /\ ReadsStand' /\ StatusIsLastDecision'
    BY <2>1, <2>3 DEF AccountRows, JobsKnow, ReadsStand, StatusIsLastDecision, Here, OnEvent
  <2>5. e \in contested \/ FromEvent(e) = {}
    BY <2>1 DEF OneWorkerEach, OnEvent, e
  <2>6. MadeOnce'
    BY <2>1, <2>2, <2>5 DEF AccountRows, MadeOnce
  <2>7. OneWorkerEach'
    BY <2>1, <2>2, <2>3 DEF OneWorkerEach, OnEvent
  <2> QED BY <2>4, <2>6, <2>7
<1> QED BY <1>1, <1>2, <1>3 DEF StoreEvent, StoreContact

(* A user is made, with a decision of its own.                               *)
LEMMA NewUserKeeps ==
    ASSUME AccountsInv, NEW w \in Workers, NEW u \in Users, ~Here(u), NEW new \in UserRows,
           new.here, new.status = "ACTIVE", ~new.deleted, new.from = NoEvent,
           user' = [user EXCEPT ![u] = new], decided' = [decided EXCEPT ![u] = "ACTIVE"],
           linked' \in [Emails -> Users \cup {Nobody}],
           job' = job \/ job' = [job EXCEPT ![w] = Rest], UNCHANGED <<event, overtaken, contested>>
    PROVE  AccountsInv'
<1> USE DEF AccountsInv
<1>1. /\ job' \in [Workers -> JobCalls]
      /\ \A x \in Workers : job'[x] = job[x] \/ job'[x].at = "rest"
  BY RestIsCall DEF AccountRows
<1>2. user' \in [Users -> UserRows] /\ user'[u] = new /\ \A v \in Users \ {u} : user'[v] = user[v]
  BY DEF AccountRows
<1>3. decided' \in [Users -> UserStatus] /\ decided'[u] = "ACTIVE" /\ \A v \in Users \ {u} : decided'[v] = decided[v]
  BY DEF AccountRows, UserStatus
<1>4. AccountRows'
  BY <1>1, <1>2, <1>3 DEF AccountRows
<1>5. JobsKnow'
  BY <1>1 DEF JobsKnow, OnEvent
<1>6. ReadsStand'
  BY <1>1, <1>2 DEF ReadsStand
<1>7. \A e \in Events : FromEvent(e)' = FromEvent(e)
  BY <1>2, AccountsAssumption DEF FromEvent, Here
<1>8. MadeOnce' /\ OneWorkerEach'
  BY <1>1, <1>7, EventsKeep DEF OnEvent
<1>9. StatusIsLastDecision'
  BY <1>2, <1>3 DEF StatusIsLastDecision, Here
<1> QED BY <1>4, <1>5, <1>6, <1>8, <1>9

(* An event makes its user, once.                                            *)
LEMMA CreateUserFromEventKeeps ==
    ASSUME AccountsInv, NEW w \in Workers, CreateUserFromEvent(w) PROVE AccountsInv'
<1> USE DEF AccountsInv
<1>0. PICK e \in Events : e = job[w].on
  BY DEF CreateUserFromEvent, JobsKnow, OnEvent
<1> DEFINE new == [Absent EXCEPT !.here = TRUE, !.email = AddressIn[e], !.status = "ACTIVE", !.from = e]
<1>1. PICK u \in Users :
        /\ job[w].at = "creating" /\ e \in Events /\ FromEvent(e) = {} /\ ~Here(u)
        /\ user' = [user EXCEPT ![u] = new] /\ event' = [event EXCEPT ![e] = "PROCESSED"]
        /\ decided' = [decided EXCEPT ![u] = "ACTIVE"] /\ job' = [job EXCEPT ![w] = Rest]
        /\ UNCHANGED <<linked, overtaken, contested>>
  BY <1>0 DEF CreateUserFromEvent, Insertable, Done
<1>2. new \in UserRows /\ new.here /\ new.status = "ACTIVE" /\ ~new.deleted /\ new.from = e
  BY <1>1, AccountsAssumption DEF Absent, UserRows, UserStatus
<1> HIDE DEF new
<1>3. user' \in [Users -> UserRows] /\ user'[u] = new /\ \A v \in Users \ {u} : user'[v] = user[v]
  BY <1>1, <1>2 DEF AccountRows
<1>4. /\ job' \in [Workers -> JobCalls] /\ job'[w].at = "rest"
      /\ \A x \in Workers \ {w} : job'[x] = job[x]
  BY <1>1, RestIsCall DEF AccountRows
<1>5. /\ decided' \in [Users -> UserStatus] /\ decided'[u] = "ACTIVE"
      /\ \A v \in Users \ {u} : decided'[v] = decided[v]
  BY <1>1 DEF AccountRows, UserStatus
<1>6. /\ event' \in [Events -> {"none", "RECEIVED", "PROCESSED", "FAILED"}] /\ event'[e] = "PROCESSED"
      /\ \A f \in Events \ {e} : event'[f] = event[f]
  BY <1>1 DEF AccountRows
<1>7. AccountRows'
  BY <1>1, <1>3, <1>4, <1>5, <1>6 DEF AccountRows
<1>8. JobsKnow' /\ ReadsStand'
  BY <1>2, <1>3, <1>4 DEF JobsKnow, ReadsStand, OnEvent
<1>9. FromEvent(e)' = {u} /\ \A f \in Events \ {e} : FromEvent(f)' = FromEvent(f)
  BY <1>1, <1>2, <1>3 DEF FromEvent, Here
<1>10. MadeOnce'
  BY <1>1, <1>6, <1>9 DEF MadeOnce
<1>11. OneWorkerEach'
  <2>1. ASSUME NEW x \in Workers \ {w}, job[x].at \in OnEvent, job[x].on = e PROVE e \in contested
    BY <1>0, <1>1, <2>1 DEF OneWorkerEach, OnEvent
  <2> QED BY <1>1, <1>4, <1>9, <2>1 DEF OneWorkerEach, OnEvent
<1>12. StatusIsLastDecision'
  BY <1>1, <1>2, <1>3, <1>5 DEF StatusIsLastDecision, Here
<1> QED BY <1>7, <1>8, <1>10, <1>11, <1>12

(* A decision on a user: what the calls that had read the row will write     *)
(* afterwards counts as overtaking it.                                       *)
LEMMA DecisionKeeps ==
    ASSUME AccountsInv, NEW w \in Workers, NEW u \in Users, NEW status \in UserStatus, NEW new \in UserRows,
           Decide(u, w, status), user' = [user EXCEPT ![u] = new],
           new.status = status, new.here = user[u].here, new.email = user[u].email, new.from = user[u].from,
           status # "DELETED" => new.deleted = user[u].deleted,
           job[w].stale \/ (u \in overtaken /\ status # "DELETED") \/ (new.deleted <=> status = "DELETED"),
           linked' \in [Emails -> Users \cup {Nobody}], UNCHANGED <<event, contested>>
    PROVE  AccountsInv'
<1> USE DEF AccountsInv
<1> DEFINE aged == Aged(u, user[u].email)
<1>1. /\ aged \in [Workers -> JobCalls]
      /\ \A x \in Workers :
           /\ aged[x].at = job[x].at /\ aged[x].on = job[x].on /\ aged[x].who = job[x].who
           /\ aged[x].email = job[x].email /\ aged[x].to = job[x].to
           /\ aged[x].stale <=> job[x].stale \/ (job[x].who = u /\ u # Nobody) \/ job[x].email = user[u].email
  BY AgedKeeps DEF AccountRows
<1>2. job' = [aged EXCEPT ![w] = Rest] /\ u # Nobody
  BY AccountsAssumption DEF Decide
<1> HIDE DEF aged
<1>3. /\ job' \in [Workers -> JobCalls]
      /\ \A x \in Workers : job'[x] = aged[x] \/ job'[x].at = "rest"
  BY <1>1, <1>2, RestIsCall
<1>4. user' \in [Users -> UserRows] /\ user'[u] = new /\ \A v \in Users \ {u} : user'[v] = user[v]
  BY DEF AccountRows
<1>5. /\ decided' \in [Users -> UserStatus] /\ overtaken' \subseteq Users
      /\ \A v \in Users \ {u} : decided'[v] = decided[v] /\ (v \in overtaken' <=> v \in overtaken)
      /\ job[w].stale => u \in overtaken'
      /\ ~job[w].stale => decided'[u] = status
      /\ u \in overtaken /\ status # "DELETED" => u \in overtaken'
  BY DEF Decide, AccountRows
<1>6. AccountRows'
  BY <1>3, <1>4, <1>5 DEF AccountRows
<1>7. JobsKnow'
  BY <1>1, <1>3 DEF JobsKnow, OnEvent
<1>8. ReadsStand'
  <2>1. ASSUME NEW x \in Workers, job'[x].at = "setting", ~job'[x].stale PROVE ~user'[job'[x].who].deleted
    <3>1. job[x].at = "setting" /\ ~job[x].stale /\ job'[x].who = job[x].who /\ job[x].who # u /\ job[x].who \in Users
      BY <1>1, <1>2, <1>3, <2>1 DEF JobsKnow
    <3> QED BY <1>4, <3>1 DEF ReadsStand
  <2>2. ASSUME NEW x \in Workers, job'[x].at = "attaching", ~job'[x].stale, NEW v \in Users,
               user'[v].here, user'[v].email = job'[x].email
        PROVE  user'[v].status # "DELETED"
    <3>1. /\ job[x].at = "attaching" /\ ~job[x].stale /\ job'[x].email = job[x].email
          /\ job[x].email # user[u].email
      BY <1>1, <1>3, <2>2
    <3>2. v # u
      BY <1>4, <2>2, <3>1
    <3> QED BY <1>4, <2>2, <3>1, <3>2 DEF ReadsStand
  <2> QED BY <2>1, <2>2 DEF ReadsStand
<1>9. \A e \in Events : FromEvent(e)' = FromEvent(e)
  BY <1>4 DEF FromEvent, Here
<1>10. MadeOnce' /\ OneWorkerEach'
  BY <1>1, <1>3, <1>9, EventsKeep DEF OnEvent
<1>11. StatusIsLastDecision'
  BY <1>4, <1>5 DEF StatusIsLastDecision, Here
<1> QED BY <1>6, <1>7, <1>8, <1>10, <1>11

(* A row changes that no decision is about.                                  *)
LEMMA CredKeeps ==
    ASSUME AccountsInv, NEW w \in Workers, NEW u \in Users, NEW new \in UserRows,
           user' = [user EXCEPT ![u] = new], new.status = user[u].status, new.deleted = user[u].deleted,
           new.here = user[u].here, new.email = user[u].email, new.from = user[u].from,
           linked' \in [Emails -> Users \cup {Nobody}], job' = [job EXCEPT ![w] = Rest],
           UNCHANGED <<event, decided, overtaken, contested>>
    PROVE  AccountsInv'
<1> USE DEF AccountsInv
<1>1. /\ job' \in [Workers -> JobCalls]
      /\ \A x \in Workers : job'[x] = job[x] \/ job'[x].at = "rest"
  BY RestIsCall DEF AccountRows
<1>2. user' \in [Users -> UserRows] /\ user'[u] = new /\ \A v \in Users \ {u} : user'[v] = user[v]
  BY DEF AccountRows
<1>3. AccountRows' /\ StatusIsLastDecision'
  BY <1>1, <1>2 DEF AccountRows, StatusIsLastDecision, Here
<1>4. JobsKnow'
  BY <1>1 DEF JobsKnow, OnEvent
<1>5. ReadsStand'
  BY <1>1, <1>2 DEF ReadsStand, JobsKnow
<1>6. \A e \in Events : FromEvent(e)' = FromEvent(e)
  BY <1>2 DEF FromEvent, Here
<1>7. MadeOnce' /\ OneWorkerEach'
  BY <1>1, <1>6, EventsKeep DEF OnEvent
<1> QED BY <1>3, <1>4, <1>5, <1>7

(* The panel.                                                                *)
LEMMA PanelKeeps ==
    ASSUME AccountsInv, NEW w \in Workers, CreateUser(w) \/ EditUser(w) \/ SetStatus(w) \/ RemoveUser(w)
    PROVE  AccountsInv'
<1> USE DEF AccountsInv
<1>1. CASE CreateUser(w)
  <2>1. PICK u \in Users, m \in Emails :
          /\ ~Here(u) /\ decided' = [decided EXCEPT ![u] = "ACTIVE"]
          /\ user' = [user EXCEPT ![u] = [Absent EXCEPT !.here = TRUE, !.email = m, !.status = "ACTIVE"]]
          /\ UNCHANGED <<linked, event, job, overtaken, contested>>
    BY <1>1 DEF CreateUser
  <2> DEFINE new == [Absent EXCEPT !.here = TRUE, !.email = m, !.status = "ACTIVE"]
  <2>2. new \in UserRows /\ new.here /\ new.status = "ACTIVE" /\ ~new.deleted /\ new.from = NoEvent
    BY DEF Absent, UserRows, UserStatus
  <2>3. user' = [user EXCEPT ![u] = new]
    BY <2>1
  <2> HIDE DEF new
  <2>4. linked' \in [Emails -> Users \cup {Nobody}]
    BY <2>1 DEF AccountRows
  <2> QED BY <2>1, <2>2, <2>3, <2>4, NewUserKeeps
<1>2. CASE EditUser(w)
  <2>1. PICK u \in Users, m \in Emails :
          /\ user' = [user EXCEPT ![u].email = m]
          /\ job' = (IF m = user[u].email THEN job ELSE Aged(Nobody, m))
          /\ UNCHANGED <<linked, event, decided, overtaken, contested>>
    BY <1>2 DEF EditUser
  <2>2. /\ Aged(Nobody, m) \in [Workers -> JobCalls]
        /\ \A x \in Workers :
             /\ Aged(Nobody, m)[x].at = job[x].at /\ Aged(Nobody, m)[x].on = job[x].on
             /\ Aged(Nobody, m)[x].who = job[x].who /\ Aged(Nobody, m)[x].email = job[x].email
             /\ Aged(Nobody, m)[x].to = job[x].to
             /\ Aged(Nobody, m)[x].stale <=> job[x].stale \/ job[x].email = m
    BY AgedKeeps DEF AccountRows
  <2>3. /\ job' \in [Workers -> JobCalls]
        /\ \A x \in Workers :
             /\ job'[x].at = job[x].at /\ job'[x].on = job[x].on /\ job'[x].who = job[x].who
             /\ job'[x].email = job[x].email /\ job'[x].to = job[x].to
             /\ ~job'[x].stale => ~job[x].stale /\ (job[x].email # m \/ m = user[u].email)
    BY <2>1, <2>2 DEF AccountRows
  <2>4. /\ user' \in [Users -> UserRows] /\ user'[u].email = m
        /\ \A v \in Users \ {u} : user'[v] = user[v]
        /\ \A v \in Users : /\ user'[v].here = user[v].here /\ user'[v].status = user[v].status
                            /\ user'[v].deleted = user[v].deleted /\ user'[v].from = user[v].from
    BY <2>1 DEF AccountRows, UserRows
  <2>5. AccountRows' /\ StatusIsLastDecision'
    BY <2>1, <2>3, <2>4 DEF AccountRows, StatusIsLastDecision, Here
  <2>6. JobsKnow'
    BY <2>3 DEF JobsKnow, OnEvent
  <2>7. ReadsStand'
    BY <2>3, <2>4 DEF ReadsStand, JobsKnow
  <2>8. \A e \in Events : FromEvent(e)' = FromEvent(e)
    BY <2>4 DEF FromEvent, Here
  <2>9. MadeOnce' /\ OneWorkerEach'
    BY <2>1, <2>3, <2>8, EventsKeep DEF OnEvent
  <2> QED BY <2>5, <2>6, <2>7, <2>9
<1>3. CASE SetStatus(w)
  <2> DEFINE u == job[w].who
             new == [user[u] EXCEPT !.status = job[w].to]
  <2>1. /\ u \in Users /\ job[w].to \in {"SUSPENDED", "ACTIVE"} /\ (job[w].stale \/ ~user[u].deleted)
        /\ Decide(u, w, job[w].to) /\ UNCHANGED <<linked, event, contested>>
    BY <1>3 DEF SetStatus, JobsKnow, ReadsStand
  <2>2. /\ new \in UserRows /\ new.status = job[w].to /\ new.here = user[u].here /\ new.email = user[u].email
        /\ new.from = user[u].from /\ new.deleted = user[u].deleted
    BY <2>1 DEF AccountRows, UserRows, UserStatus
  <2>3. user' = [user EXCEPT ![u] = new]
    BY <1>3 DEF SetStatus
  <2> HIDE DEF u, new
  <2>4. job[w].to \in UserStatus /\ linked' \in [Emails -> Users \cup {Nobody}]
    BY <2>1 DEF UserStatus, AccountRows
  <2> QED BY <2>1, <2>2, <2>3, <2>4, DecisionKeeps
<1>4. CASE RemoveUser(w)
  <2>1. PICK u \in Users : /\ user' = [user EXCEPT ![u].status = "DELETED", ![u].deleted = TRUE]
                           /\ Decide(u, w, "DELETED") /\ UNCHANGED <<linked, event, contested>>
    BY <1>4 DEF RemoveUser
  <2> DEFINE new == [user[u] EXCEPT !.status = "DELETED", !.deleted = TRUE]
  <2>2. /\ new \in UserRows /\ new.status = "DELETED" /\ new.here = user[u].here /\ new.email = user[u].email
        /\ new.from = user[u].from /\ new.deleted
    <3>1. user[u] \in UserRows
      BY DEF AccountRows
    <3> QED  BY <3>1 DEF UserRows, UserStatus
  <2>3. user' = [user EXCEPT ![u] = new]
    BY <2>1 DEF AccountRows, UserRows
  <2> HIDE DEF new
  <2>4. "DELETED" \in UserStatus /\ linked' \in [Emails -> Users \cup {Nobody}]
    BY <2>1 DEF UserStatus, AccountRows
  <2> QED BY <2>1, <2>2, <2>3, <2>4, DecisionKeeps
<1> QED BY <1>1, <1>2, <1>3, <1>4

(* The players' own way in: a new player, an activation, or a credential.    *)
LEMMA PlayerEnters ==
    ASSUME AccountsInv, NEW w \in Workers, NEW m \in Emails, NEW cred \in {"password", "provider"},
           NewPlayer(w, m, cred), linked' \in [Emails -> Users \cup {Nobody}], UNCHANGED <<event, contested>>
    PROVE  AccountsInv'
<1>1. PICK u \in Users :
        /\ ~Here(u) /\ decided' = [decided EXCEPT ![u] = "ACTIVE"] /\ overtaken' = overtaken
        /\ user' = [user EXCEPT ![u] = [Absent EXCEPT !.here = TRUE, !.email = m, !.status = "ACTIVE",
                                                      !.verified = TRUE, !.cred = cred]]
        /\ job' = [job EXCEPT ![w] = Rest]
  BY DEF NewPlayer, Done
<1> DEFINE new == [Absent EXCEPT !.here = TRUE, !.email = m, !.status = "ACTIVE", !.verified = TRUE, !.cred = cred]
<1>2. new \in UserRows /\ new.here /\ new.status = "ACTIVE" /\ ~new.deleted /\ new.from = NoEvent
  BY DEF Absent, UserRows, UserStatus
<1>3. user' = [user EXCEPT ![u] = new]
  BY <1>1
<1> HIDE DEF new
<1> QED BY <1>1, <1>2, <1>3, NewUserKeeps

LEMMA PlayerActivates ==
    ASSUME AccountsInv, NEW w \in Workers, NEW u \in Users, NEW cred \in {"none", "password", "provider"},
           user' = [user EXCEPT ![u].status = "ACTIVE", ![u].verified = TRUE, ![u].cred = cred],
           Decide(u, w, "ACTIVE"), job[w].stale \/ u \in overtaken \/ ~user[u].deleted,
           linked' \in [Emails -> Users \cup {Nobody}], UNCHANGED <<event, contested>>
    PROVE  AccountsInv'
<1> DEFINE new == [user[u] EXCEPT !.status = "ACTIVE", !.verified = TRUE, !.cred = cred]
<1>1. /\ new \in UserRows /\ new.status = "ACTIVE" /\ new.here = user[u].here /\ new.email = user[u].email
      /\ new.from = user[u].from /\ new.deleted = user[u].deleted
  <2>1. user[u] \in UserRows
    BY DEF AccountsInv, AccountRows
  <2> QED  BY <2>1 DEF UserRows, UserStatus
<1>2. user' = [user EXCEPT ![u] = new] /\ "ACTIVE" \in UserStatus
  BY DEF AccountsInv, AccountRows, UserRows, UserStatus
<1> HIDE DEF new
<1> QED BY <1>1, <1>2, DecisionKeeps

LEMMA PlayerSigns ==
    ASSUME AccountsInv, NEW w \in Workers, NEW u \in Users, NEW cred \in {"none", "password", "provider"},
           user' = [user EXCEPT ![u].cred = cred], job' = [job EXCEPT ![w] = Rest],
           linked' \in [Emails -> Users \cup {Nobody}], UNCHANGED <<event, decided, overtaken, contested>>
    PROVE  AccountsInv'
<1> DEFINE new == [user[u] EXCEPT !.cred = cred]
<1>1. /\ new \in UserRows /\ new.status = user[u].status /\ new.here = user[u].here /\ new.email = user[u].email
      /\ new.from = user[u].from /\ new.deleted = user[u].deleted
  <2>1. user[u] \in UserRows
    BY DEF AccountsInv, AccountRows
  <2> QED  BY <2>1 DEF UserRows
<1>2. user' = [user EXCEPT ![u] = new]
  OBVIOUS
<1> HIDE DEF new
<1> QED BY <1>1, <1>2, CredKeeps

LEMMA PlayersKeep ==
    ASSUME AccountsInv, NEW w \in Workers, AttachCredential(w) \/ LinkOAuthProfile(w)
    PROVE  AccountsInv'
<1> USE DEF AccountsInv
<1> DEFINE m == job[w].email
<1>1. CASE AttachCredential(w)
  <2>1. job[w].at = "attaching" /\ m \in Emails /\ UNCHANGED <<linked, event, contested>>
    BY <1>1 DEF AttachCredential, JobsKnow
  <2>2. linked' \in [Emails -> Users \cup {Nobody}]
    BY <2>1 DEF AccountRows
  <2>3. CASE NewPlayer(w, m, "password")
    BY <2>1, <2>2, <2>3, PlayerEnters
  <2>4. ASSUME NEW u \in HasEmail(m), NEW cred \in {"none", "password", "provider"}, Activates(u),
               user' = [user EXCEPT ![u].status = "ACTIVE", ![u].verified = TRUE, ![u].cred = cred],
               Decide(u, w, "ACTIVE")
        PROVE  AccountsInv'
    <3>1. u \in Users /\ user[u].here /\ user[u].email = m
      BY <2>4 DEF HasEmail, Here
    <3>2. job[w].stale \/ user[u].status # "DELETED"
      BY <2>1, <3>1 DEF ReadsStand
    <3>3. job[w].stale \/ u \in overtaken \/ ~user[u].deleted
      BY <3>1, <3>2 DEF StatusIsLastDecision, Here
    <3> QED BY <2>1, <2>2, <2>4, <3>1, <3>3, PlayerActivates
  <2>5. ASSUME NEW u \in HasEmail(m), NEW cred \in {"none", "password", "provider"},
               user' = [user EXCEPT ![u].cred = cred], Done(w), UNCHANGED <<decided, overtaken>>
        PROVE  AccountsInv'
    BY <2>1, <2>2, <2>5, PlayerSigns DEF Done, HasEmail
  <2>6. ASSUME NEW u \in HasEmail(m)
        PROVE  (IF user[u].cred = "none" THEN "password" ELSE user[u].cred) \in {"none", "password", "provider"}
    BY DEF AccountRows, UserRows, HasEmail
  <2>7. ASSUME NEW u \in HasEmail(m), Activates(u),
               user' = [user EXCEPT ![u].status = "ACTIVE", ![u].verified = TRUE,
                                    ![u].cred = IF user[u].cred = "none" THEN "password" ELSE user[u].cred],
               Decide(u, w, "ACTIVE")
        PROVE  AccountsInv'
    BY <2>4, <2>6, <2>7
  <2>8. ASSUME NEW u \in HasEmail(m), Done(w), UNCHANGED <<decided, overtaken>>,
               user' = [user EXCEPT ![u].cred = IF user[u].cred = "none" THEN "password" ELSE user[u].cred]
        PROVE  AccountsInv'
    BY <2>5, <2>6, <2>8
  <2> QED BY <1>1, <2>3, <2>7, <2>8 DEF AttachCredential
<1>2. CASE LinkOAuthProfile(w)
  <2>1. job[w].at = "linking" /\ m \in Emails /\ UNCHANGED <<event, contested>>
    BY <1>2 DEF LinkOAuthProfile, JobsKnow
  <2>2. ASSUME NEW u \in Users, linked' = [linked EXCEPT ![m] = u] PROVE linked' \in [Emails -> Users \cup {Nobody}]
    BY <2>1, <2>2 DEF AccountRows
  <2>3. ASSUME NewPlayer(w, m, "provider"), \E u \in Users : linked' = [linked EXCEPT ![m] = u] PROVE AccountsInv'
    BY <2>1, <2>2, <2>3, PlayerEnters
  <2>4. ASSUME NEW u \in HasEmail(m), linked' = [linked EXCEPT ![m] = u], NotDeleted(u), Decide(u, w, "ACTIVE"),
               user' = [user EXCEPT ![u].status = "ACTIVE", ![u].verified = TRUE,
                                    ![u].cred = IF user[u].cred = "none" THEN "provider" ELSE user[u].cred]
        PROVE  AccountsInv'
    <3>1. (IF user[u].cred = "none" THEN "provider" ELSE user[u].cred) \in {"none", "password", "provider"}
      BY DEF AccountRows, UserRows, HasEmail
    <3> QED BY <2>1, <2>2, <2>4, <3>1, PlayerActivates DEF HasEmail, NotDeleted
  <2>5. ASSUME NEW u \in HasEmail(m), linked' = [linked EXCEPT ![m] = u], Done(w), UNCHANGED <<decided, overtaken>>,
               user' = [user EXCEPT ![u].cred = IF user[u].cred = "none" THEN "provider" ELSE user[u].cred]
        PROVE  AccountsInv'
    <3>1. (IF user[u].cred = "none" THEN "provider" ELSE user[u].cred) \in {"none", "password", "provider"}
      BY DEF AccountRows, UserRows, HasEmail
    <3> QED BY <2>1, <2>2, <2>5, <3>1, PlayerSigns DEF Done, HasEmail
  <2> QED BY <1>2, <2>3, <2>4, <2>5 DEF LinkOAuthProfile
<1> QED BY <1>1, <1>2

(* At the start the seeded users have an address each, and nothing else.     *)
LEMMA AccountsInvInit == AccountsInit => AccountsInv
<1> SUFFICES ASSUME AccountsInit PROVE AccountsInv
  OBVIOUS
<1>1. AddressOf \in [DOMAIN FirstStatus -> Emails]
  BY AccountsAssumption DEF AddressOf
<1>2. ASSUME NEW u \in Users
      PROVE  /\ user[u] \in UserRows /\ user[u].status # "DELETED" /\ ~user[u].deleted /\ user[u].from = NoEvent
             /\ decided[u] = user[u].status
  <2>1. Absent \in UserRows /\ Absent.status # "DELETED" /\ ~Absent.deleted /\ Absent.from = NoEvent
    BY DEF Absent, UserRows, UserStatus
  <2>2. decided[u] = user[u].status
    BY DEF AccountsInit
  <2>3. CASE u \in DOMAIN FirstStatus
    <3>1. user[u] = [Absent EXCEPT !.here = TRUE, !.email = AddressOf[u], !.status = FirstStatus[u],
                                   !.verified = FirstStatus[u] = "ACTIVE"]
      BY <2>3 DEF AccountsInit
    <3>2. AddressOf[u] \in Emails /\ FirstStatus[u] \in UserStatus \ {"DELETED"}
      BY <1>1, <2>3, AccountsAssumption
    <3> QED BY <2>1, <2>2, <3>1, <3>2 DEF UserRows
  <2>4. CASE u \notin DOMAIN FirstStatus
    BY <2>1, <2>2, <2>4 DEF AccountsInit
  <2> QED BY <2>3, <2>4
<1>3. user \in [Users -> UserRows] /\ decided \in [Users -> UserStatus]
  <2> DEFINE made(u) == IF u \in DOMAIN FirstStatus
                        THEN [Absent EXCEPT !.here = TRUE, !.email = AddressOf[u], !.status = FirstStatus[u],
                                            !.verified = FirstStatus[u] = "ACTIVE"]
                        ELSE Absent
             status(u) == user[u].status
  <2>1. user = [u \in Users |-> made(u)] /\ decided = [u \in Users |-> status(u)]
    BY DEF AccountsInit
  <2> HIDE DEF made
  <2>2. \A u \in Users : made(u) \in UserRows
    BY <1>2, <2>1
  <2>3. \A u \in Users : status(u) \in UserStatus
    BY <1>2 DEF UserRows
  <2> HIDE DEF status
  <2> QED BY <2>1, <2>2, <2>3
<1>4. AccountRows
  BY <1>3, RestIsCall DEF AccountRows, AccountsInit
<1>5. \A w \in Workers : job[w].at = "rest"
  BY RestIsCall DEF AccountsInit
<1>6. JobsKnow /\ ReadsStand /\ OneWorkerEach
  BY <1>5 DEF JobsKnow, ReadsStand, OneWorkerEach, OnEvent
<1>7. \A e \in Events : FromEvent(e) = {}
  BY <1>2, AccountsAssumption DEF FromEvent, Here
<1>8. MadeOnce
  BY <1>7 DEF MadeOnce, AccountsInit
<1>9. StatusIsLastDecision
  BY <1>2 DEF StatusIsLastDecision
<1> QED BY <1>4, <1>6, <1>8, <1>9 DEF AccountsInv

(* Every step keeps the invariant.                                           *)
LEMMA AccountsStep == AccountsInv /\ [AccountsNext]_accountVars => AccountsInv'
<1> SUFFICES ASSUME AccountsInv, [AccountsNext]_accountVars PROVE AccountsInv'
  OBVIOUS
<1>1. ASSUME NEW w \in Workers, AccountStep(w) PROVE AccountsInv'
  BY <1>1, JobsKeep, WebhooksKeep, CreateUserFromEventKeeps, PanelKeeps, PlayersKeep DEF AccountStep
<1>2. CASE UNCHANGED accountVars
  BY <1>2 DEF accountVars, AccountsInv, AccountRows, JobsKnow, ReadsStand, MadeOnce, OneWorkerEach,
              FromEvent, Here, StatusIsLastDecision
<1> QED BY <1>1, <1>2 DEF AccountsNext

(* For any users, addresses, deliveries and overlap of the calls: a stored   *)
(* registration says PROCESSED exactly when it has made its one user, but    *)
(* for events two calls worked on at once, and a user's status is what the   *)
(* last decision made it, unless a call that had read the row earlier wrote  *)
(* after it.                                                                 *)
THEOREM AccountsAlwaysAgree == AccountsSpec => []AccountsAgree
<1>1. ASSUME AccountsInv PROVE AccountsAgree
  <2>1. AccountsTypeOK
    BY <1>1 DEF AccountsInv, AccountRows, AccountsTypeOK, UserRows, JobCalls, JobStages
  <2>2. ASSUME NEW e \in Events PROVE Cardinality(FromEvent(e)) <= 1
    <3>1. CASE FromEvent(e) = {}
      BY <3>1, FS_EmptySet
    <3>2. CASE FromEvent(e) # {}
      <4>1. PICK u \in FromEvent(e) : TRUE
        BY <3>2
      <4>2. FromEvent(e) = {u}
        BY <1>1, <4>1 DEF AccountsInv, MadeOnce
      <4>3. Cardinality({u}) = 1
        BY FS_Singleton
      <4> QED BY <4>2, <4>3
    <3> QED BY <3>1, <3>2
  <2>3. EventTellsTheUser
    BY <1>1, <2>2 DEF AccountsInv, MadeOnce, EventTellsTheUser
  <2> QED BY <1>1, <2>1, <2>3 DEF AccountsInv, AccountsAgree
<1> QED BY <1>1, AccountsInvInit, AccountsStep, PTL DEF AccountsSpec
-----------------------------------------------------------------------------
(***************************************************************************)
(* The game at the table.                                                  *)
(***************************************************************************)

TricksTaken(g) == SumOver(g.won, Seats)
OnTable(g) == {g.trick[i].card : i \in DOMAIN g.trick}
HasPlayed(g, s) == \E i \in DOMAIN g.trick : g.trick[i].seat = s
AllDistinct(cards) == \A i, j \in DOMAIN cards : cards[i] = cards[j] => i = j

(* No card twice: in a hand, in two hands, in a hand and on the table or     *)
(* twice on the table, where no seat has played twice either.                *)
CardsApart(g) ==
    /\ \A s \in Seats : AllDistinct(g.hands[s]) /\ ToSet(g.hands[s]) \cap OnTable(g) = {}
    /\ \A s, q \in Seats : s # q => ToSet(g.hands[s]) \cap ToSet(g.hands[q]) = {}
    /\ \A i, j \in DOMAIN g.trick :
           i # j => g.trick[i].card # g.trick[j].card /\ g.trick[i].seat # g.trick[j].seat

(* A seat has played once for every trick taken, and once more if its card   *)
(* lies on the table.                                                        *)
HandsCounted(g) ==
    \A s \in Seats :
        Len(g.hands[s]) = MaxBid - TricksTaken(g) - (IF HasPlayed(g, s) THEN 1 ELSE 0)

(* While the game is live there is a card left to play for the seat whose    *)
(* turn it is, which is the one after the last that played.                  *)
TurnKept(g) ==
    /\ g.turn \in Seats
    /\ TricksTaken(g) < MaxBid
    /\ \A s \in Seats : g.timeouts[s] < MaxTimeouts
    /\ g.phase = "BIDDING" => g.trick = <<>>
    /\ \A i \in DOMAIN g.trick : g.trick[i].seat = (g.turn + 3 + i - Len(g.trick)) % 4

BagsShown(score, bags) == bags < BagPenaltyAt /\ \E k \in Int : score - bags = k * TrickPoints

GameKept(g) ==
    /\ g \in Games
    /\ Len(g.trick) < 4
    /\ TricksTaken(g) <= MaxBid
    /\ \A s \in Seats : g.timeouts[s] <= MaxTimeouts
    /\ g.phase # "COMPLETED" => CardsApart(g) /\ HandsCounted(g)
    /\ Live(g) => TurnKept(g)
    /\ \A t \in Sides : BagsShown(g.score[t], g.bags[t])

TableInv ==
    /\ GameKept(game)
    /\ game.hand <= MaxHands
    /\ late \in BOOLEAN /\ delayed \in Delays
    /\ log = 1 .. game.version
    /\ revealed \in [Seats -> 0 .. MaxHands] /\ shown \in [Seats -> 0 .. MaxHands]
    /\ reading \in [Seats -> SUBSET (1 .. MaxHands)]
    /\ ruling \in 0 .. game.version
    /\ ruling # 0 => Live(game)

(* Every reveal is answered before its hand is over: the player of a seat    *)
(* has seen what the row says.                                               *)
RevealsPrompt ==
    ~delayed =>
        \A s \in Seats : /\ reading[s] \subseteq {game.hand}
                         /\ shown[s] = revealed[s] /\ revealed[s] <= game.hand
-----------------------------------------------------------------------------
(* Filters.                                                                  *)

KeptFrom(cards, S, f) ==
    f = [n \in 0 .. Len(cards) |->
            IF n = 0 THEN <<>>
            ELSE IF cards[n] \in S THEN Append(f[n - 1], cards[n]) ELSE f[n - 1]]

(* The recursion of filter has a solution over every hand.                   *)
LEMMA KeptExists ==
  ASSUME NEW cards, Len(cards) \in Nat, NEW S
  PROVE  \E f : KeptFrom(cards, S, f)
<1> DEFINE Step(f, n) == IF n = 0 THEN <<>>
                         ELSE IF cards[n] \in S THEN Append(f[n - 1], cards[n]) ELSE f[n - 1]
           Is(m, f) == f = [n \in 0 .. m |-> Step(f, n)]
           bad == {m \in Nat : ~ \E f : Is(m, f)}
<1>1. ASSUME bad # {} PROVE FALSE
  <2>1. PICK m \in bad : \A k \in bad : m <= k
    <3>1. bad \in SUBSET Nat
      OBVIOUS
    <3> HIDE DEF bad
    <3> QED  BY <3>1, <1>1, SmallestNumber
  <2>2. Is(0, [n \in 0 .. 0 |-> <<>>])
    OBVIOUS
  <2>3. m # 0
    BY <2>1, <2>2
  <2>4. m - 1 \in Nat /\ m - 1 \notin bad
    <3>1. m \in Nat
      BY <2>1
    <3> HIDE DEF bad
    <3> QED  BY <3>1, <2>1, <2>3
  <2>5. PICK f : Is(m - 1, f)
    BY <2>4
  <2> DEFINE g == [n \in 0 .. m |-> IF n = m THEN Step(f, m) ELSE f[n]]
  <2>6. ASSUME NEW n \in 0 .. m PROVE g[n] = Step(g, n)
    <3>1. \A k \in 0 .. m - 1 : f[k] = Step(f, k)
      BY <2>5
    <3>2. n # 0 => n - 1 \in 0 .. m /\ n - 1 # m /\ g[n - 1] = f[n - 1]
      BY <2>1
    <3>3. Step(g, n) = Step(f, n)
      <4> HIDE DEF g
      <4> QED  BY <3>2
    <3>4. CASE n = m
      <4>1. g[n] = Step(f, m)
        BY <3>4
      <4> QED  BY <4>1, <3>3, <3>4
    <3>5. CASE n # m
      <4>1. n \in 0 .. m - 1 /\ g[n] = f[n]
        BY <3>5, <2>1
      <4> HIDE DEF g, Step
      <4> QED  BY <4>1, <3>1, <3>3
    <3> QED  BY <3>4, <3>5
  <2>7. Is(m, g)
    <3> HIDE DEF g, Step
    <3>1. g = [n \in 0 .. m |-> g[n]]
      BY DEF g
    <3> QED  BY <2>6, <3>1
  <2> HIDE DEF Is, g
  <2> QED  BY <2>7, <2>1
<1>2. \E f : Is(Len(cards), f)
  BY <1>1
<1> QED  BY <1>2 DEF KeptFrom

(* Filtered(cards, S) is the last value of that solution.                    *)
LEMMA FilteredIs ==
  ASSUME NEW cards, Len(cards) \in Nat, NEW S
  PROVE  \E f : KeptFrom(cards, S, f) /\ Filtered(cards, S) = f[Len(cards)]
<1> DEFINE f == CHOOSE f : KeptFrom(cards, S, f)
<1>1. KeptFrom(cards, S, f)
  BY KeptExists, Zenon
<1>2. Filtered(cards, S) = f[Len(cards)]
  BY DEF Filtered, KeptFrom
<1> QED  BY <1>1, <1>2

(* A card appended to a hand is the one card added.                          *)
LEMMA CardAppended ==
  ASSUME NEW h \in Seq(Deck), NEW c \in Deck
  PROVE  ToSet(Append(h, c)) = ToSet(h) \cup {c}
<1>1. DOMAIN h = 1 .. Len(h) /\ Len(h) \in Nat
  OBVIOUS
<1>2. DOMAIN Append(h, c) = 1 .. Len(h) + 1
  OBVIOUS
<1>3. Append(h, c)[Len(h) + 1] = c /\ \A i \in 1 .. Len(h) : Append(h, c)[i] = h[i]
  OBVIOUS
<1>4. 1 .. Len(h) + 1 = (1 .. Len(h)) \cup {Len(h) + 1}
  BY <1>1
<1> QED  BY <1>1, <1>2, <1>3, <1>4 DEF ToSet

(* A filter keeps the cards of S and no other, each once.                    *)
LEMMA FilterKeeps ==
  ASSUME NEW cards \in Seq(Deck), NEW S
  PROVE  /\ Filtered(cards, S) \in Seq(Deck)
         /\ ToSet(Filtered(cards, S)) = ToSet(cards) \cap S
         /\ AllDistinct(cards) => AllDistinct(Filtered(cards, S))
<1>1. Len(cards) \in Nat /\ DOMAIN cards = 1 .. Len(cards)
  OBVIOUS
<1>2. PICK f : KeptFrom(cards, S, f) /\ Filtered(cards, S) = f[Len(cards)]
  BY <1>1, FilteredIs
<1>3. /\ f[0] = <<>>
      /\ \A n \in 1 .. Len(cards) :
             f[n] = IF cards[n] \in S THEN Append(f[n - 1], cards[n]) ELSE f[n - 1]
  <2>1. \A n \in 0 .. Len(cards) :
            f[n] = IF n = 0 THEN <<>>
                   ELSE IF cards[n] \in S THEN Append(f[n - 1], cards[n]) ELSE f[n - 1]
    BY <1>2, Zenon DEF KeptFrom
  <2> QED  BY <1>1, <2>1
<1> DEFINE Fine(n) == /\ f[n] \in Seq(Deck)
                      /\ ToSet(f[n]) = {cards[i] : i \in 1 .. n} \cap S
                      /\ AllDistinct(cards) => AllDistinct(f[n])
           bad == {n \in 0 .. Len(cards) : ~ Fine(n)}
<1>4. ASSUME bad # {} PROVE FALSE
  <2>1. PICK n \in bad : \A k \in bad : n <= k
    <3>1. bad \in SUBSET Nat
      OBVIOUS
    <3> HIDE DEF bad
    <3> QED  BY <3>1, <1>4, SmallestNumber
  <2>2. n \in 0 .. Len(cards) /\ ~ Fine(n)
    BY <2>1
  <2>3. Fine(0)
    BY <1>3 DEF ToSet, AllDistinct
  <2>4. n \in 1 .. Len(cards) /\ n - 1 \in 0 .. Len(cards) /\ n - 1 \notin bad
    <3> HIDE DEF bad, Fine
    <3> QED  BY <1>1, <2>1, <2>2, <2>3
  <2>5. Fine(n - 1)
    BY <2>4
  <2>6. {cards[i] : i \in 1 .. n} = {cards[i] : i \in 1 .. n - 1} \cup {cards[n]}
    BY <2>4
  <2>7. CASE cards[n] \notin S
    <3>1. f[n] = f[n - 1]
      BY <2>4, <2>7, <1>3
    <3>2. {cards[i] : i \in 1 .. n} \cap S = {cards[i] : i \in 1 .. n - 1} \cap S
      BY <2>6, <2>7
    <3> QED  BY <3>1, <3>2, <2>5, <2>2
  <2>8. CASE cards[n] \in S
    <3> DEFINE h == f[n - 1]
               c == cards[n]
    <3>1. f[n] = Append(h, c) /\ h \in Seq(Deck) /\ c \in Deck
      <4>1. h \in Seq(Deck)
        BY <2>5
      <4>2. c \in Deck
        BY <2>4
      <4> QED  BY <4>1, <4>2, <2>4, <2>8, <1>3
    <3>2. ToSet(h) = {cards[i] : i \in 1 .. n - 1} \cap S
      BY <2>5
    <3> HIDE DEF h
    <3>3. ToSet(Append(h, c)) = ToSet(h) \cup {c}
      BY <3>1, CardAppended
    <3>4. ToSet(f[n]) = {cards[i] : i \in 1 .. n} \cap S
      BY <3>1, <3>2, <3>3, <2>6, <2>8
    <3>5. ASSUME AllDistinct(cards) PROVE AllDistinct(f[n])
      <4>1. AllDistinct(h)
        BY <2>5, <3>5 DEF h
      <4>2. c \notin ToSet(h)
        <5>1. ASSUME NEW i \in 1 .. n - 1 PROVE cards[i] # cards[n]
          BY <3>5, <2>4, <1>1 DEF AllDistinct
        <5> QED  BY <5>1, <3>2
      <4>3. \A i \in 1 .. Len(h) : h[i] # c
        BY <4>2, <3>1 DEF ToSet
      <4> QED  BY <4>1, <4>3, <3>1 DEF AllDistinct
    <3> QED  BY <3>1, <3>4, <3>5, <2>2
  <2> QED  BY <2>7, <2>8
<1>5. Fine(Len(cards))
  <2>1. Len(cards) \in 0 .. Len(cards) /\ bad = {}
    <3>1. Len(cards) \in 0 .. Len(cards)
      BY <1>1
    <3> HIDE DEF bad
    <3> QED  BY <3>1, <1>4
  <2> HIDE DEF Fine
  <2> QED  BY <2>1
<1>6. ToSet(cards) = {cards[i] : i \in 1 .. Len(cards)}
  BY <1>1 DEF ToSet
<1> QED  BY <1>2, <1>5, <1>6

(* Without takes the card out, and one card less remains.                    *)
LEMMA WithoutTakes ==
  ASSUME NEW cards \in Seq(Deck), AllDistinct(cards), NEW c \in ToSet(cards)
  PROVE  /\ Without(cards, c) \in Seq(Deck)
         /\ ToSet(Without(cards, c)) = ToSet(cards) \ {c}
         /\ AllDistinct(Without(cards, c))
         /\ Len(Without(cards, c)) = Len(cards) - 1
<1> DEFINE S == Deck \ {c}
<1>1. Len(cards) \in Nat /\ DOMAIN cards = 1 .. Len(cards) /\ \A i \in 1 .. Len(cards) : cards[i] \in Deck
  OBVIOUS
<1>2. PICK k \in 1 .. Len(cards) : cards[k] = c
  BY <1>1 DEF ToSet
<1>3. \A i \in 1 .. Len(cards) : cards[i] \in S <=> i # k
  BY <1>1, <1>2 DEF AllDistinct
<1>4. PICK f : KeptFrom(cards, S, f) /\ Filtered(cards, S) = f[Len(cards)]
  BY <1>1, FilteredIs
<1>5. /\ f[0] = <<>>
      /\ \A n \in 1 .. Len(cards) :
             f[n] = IF cards[n] \in S THEN Append(f[n - 1], cards[n]) ELSE f[n - 1]
  <2>1. \A n \in 0 .. Len(cards) :
            f[n] = IF n = 0 THEN <<>>
                   ELSE IF cards[n] \in S THEN Append(f[n - 1], cards[n]) ELSE f[n - 1]
    BY <1>4, Zenon DEF KeptFrom
  <2> QED  BY <1>1, <2>1
<1> HIDE DEF S
<1> DEFINE Fine(n) == f[n] \in Seq(Deck) /\ Len(f[n]) = IF k <= n THEN n - 1 ELSE n
           bad == {n \in 0 .. Len(cards) : ~ Fine(n)}
<1>6. ASSUME bad # {} PROVE FALSE
  <2>1. PICK n \in bad : \A m \in bad : n <= m
    <3>1. bad \in SUBSET Nat
      OBVIOUS
    <3> HIDE DEF bad
    <3> QED  BY <3>1, <1>6, SmallestNumber
  <2>2. n \in 0 .. Len(cards) /\ ~ Fine(n)
    BY <2>1
  <2>3. Fine(0)
    BY <1>5, <1>2
  <2>4. n \in 1 .. Len(cards) /\ n - 1 \in 0 .. Len(cards) /\ n - 1 \notin bad
    <3> HIDE DEF bad, Fine
    <3> QED  BY <1>1, <2>1, <2>2, <2>3
  <2>5. Fine(n - 1)
    BY <2>4
  <2>6. CASE n = k
    BY <2>2, <2>4, <2>5, <2>6, <1>3, <1>5
  <2>7. CASE n # k
    <3>1. f[n] = Append(f[n - 1], cards[n]) /\ cards[n] \in Deck
      BY <2>4, <2>7, <1>1, <1>3, <1>5
    <3>2. Len(f[n]) = Len(f[n - 1]) + 1 /\ f[n] \in Seq(Deck)
      BY <3>1, <2>5
    <3> QED  BY <3>2, <2>2, <2>4, <2>5, <2>7, <1>2
  <2> QED  BY <2>6, <2>7
<1>7. Len(Filtered(cards, S)) = Len(cards) - 1
  <2>1. Len(cards) \in 0 .. Len(cards) /\ bad = {}
    <3>1. Len(cards) \in 0 .. Len(cards)
      BY <1>1
    <3> HIDE DEF bad
    <3> QED  BY <3>1, <1>6
  <2>2. Fine(Len(cards))
    <3> HIDE DEF Fine
    <3> QED  BY <2>1
  <2>3. k <= Len(cards)
    BY <1>1, <1>2
  <2>4. Len(f[Len(cards)]) = Len(cards) - 1
    BY <2>2, <2>3
  <2> QED  BY <1>4, <2>4
<1>8. ToSet(cards) \cap S = ToSet(cards) \ {c}
  BY <1>1 DEF ToSet, S
<1> QED  BY <1>7, <1>8, FilterKeeps DEF Without, S
-----------------------------------------------------------------------------
(* The deal.                                                                 *)

(* A shuffled deck holds every card, and none twice.                         *)
LEMMA DeckApart ==
  ASSUME NEW deck \in Shuffles
  PROVE  deck \in Seq(Deck) /\ Len(deck) = 4 * MaxBid /\ AllDistinct(deck)
<1>1. deck \in Seq(Deck) /\ Len(deck) = 4 * MaxBid /\ ToSet(deck) = Deck
  BY DeckAssumption
<1>2. Len(deck) \in Nat /\ DOMAIN deck = 1 .. Len(deck)
  BY <1>1
<1> DEFINE I == 1 .. Len(deck)
<1>3. IsFiniteSet(I) /\ Cardinality(I) = Len(deck)
  <2>1. IsFiniteSet(1 .. Len(deck)) /\ Cardinality(1 .. Len(deck)) = IF 1 > Len(deck) THEN 0 ELSE Len(deck) - 1 + 1
    BY <1>2, FS_Interval
  <2> QED  BY <1>2, <2>1
<1>4. deck \in Surjection(I, Deck)
  BY <1>1, <1>2 DEF ToSet, Surjection
<1>5. Cardinality(I) = Cardinality(Deck)
  BY <1>1, <1>3, DeckAssumption
<1>6. deck \in Injection(I, Deck)
  <2> HIDE DEF I
  <2> QED  BY <1>3, <1>4, <1>5, FS_Surjection
<1>7. AllDistinct(deck)
  BY <1>2, <1>6 DEF Injection, IsInjective, AllDistinct
<1> QED  BY <1>1, <1>7

(* Every seat gets a hand of cards of its own.                               *)
LEMMA DealApart ==
  ASSUME NEW deck \in Shuffles, NEW dealer \in Seats
  PROVE  LET hands == Dealt(deck, dealer)
         IN  /\ hands \in [Seats -> Seq(Deck)]
             /\ \A s \in Seats : Len(hands[s]) = MaxBid /\ AllDistinct(hands[s])
             /\ \A s, q \in Seats : s # q => ToSet(hands[s]) \cap ToSet(hands[q]) = {}
<1> DEFINE hands == Dealt(deck, dealer)
           Off(s) == (s - dealer - 1) % 4
<1>1. MaxBid \in Nat \ {0}
  BY RulesAssumption
<1>2. deck \in Seq(Deck) /\ Len(deck) = 4 * MaxBid /\ AllDistinct(deck)
  BY DeckApart
<1>3. DOMAIN deck = 1 .. 4 * MaxBid /\ \A n \in 1 .. 4 * MaxBid : deck[n] \in Deck
  BY <1>1, <1>2
<1>4. \A s \in Seats : Off(s) \in 0 .. 3 /\ \A q \in Seats : Off(s) = Off(q) => s = q
  BY DEF Seats
<1> HIDE DEF Off
<1>5. \A s \in Seats, i \in 1 .. MaxBid : 4 * (i - 1) + Off(s) + 1 \in 1 .. 4 * MaxBid
  BY <1>1, <1>4
<1>6. hands = [s \in Seats |-> [i \in 1 .. MaxBid |-> deck[4 * (i - 1) + Off(s) + 1]]]
  BY DEF Dealt, Off
<1> HIDE DEF hands
<1>7. ASSUME NEW s \in Seats
      PROVE  /\ hands[s] \in Seq(Deck) /\ Len(hands[s]) = MaxBid /\ DOMAIN hands[s] = 1 .. MaxBid
             /\ \A i \in 1 .. MaxBid : hands[s][i] = deck[4 * (i - 1) + Off(s) + 1]
  <2>1. hands[s] = [i \in 1 .. MaxBid |-> deck[4 * (i - 1) + Off(s) + 1]]
    BY <1>6
  <2>2. \A i \in 1 .. MaxBid : deck[4 * (i - 1) + Off(s) + 1] \in Deck
    BY <1>3, <1>5
  <2> QED  BY <2>1, <2>2, <1>1
<1>8. ASSUME NEW s \in Seats, NEW q \in Seats, NEW i \in 1 .. MaxBid, NEW j \in 1 .. MaxBid,
             hands[s][i] = hands[q][j]
      PROVE  s = q /\ i = j
  <2>1. 4 * (i - 1) + Off(s) + 1 = 4 * (j - 1) + Off(q) + 1
    <3> DEFINE m == 4 * (i - 1) + Off(s) + 1
               n == 4 * (j - 1) + Off(q) + 1
    <3>1. m \in DOMAIN deck /\ n \in DOMAIN deck
      BY <1>3, <1>5
    <3>2. deck[m] = deck[n]
      BY <1>7, <1>8
    <3> HIDE DEF m, n
    <3>3. m = n
      BY <3>1, <3>2, <1>2 DEF AllDistinct
    <3> QED  BY <3>3 DEF m, n
  <2>2. Off(s) \in 0 .. 3 /\ Off(q) \in 0 .. 3
    BY <1>4
  <2>3. Off(s) = Off(q) /\ i = j
    BY <2>1, <2>2, <1>1
  <2> QED  BY <2>3, <1>4
<1>9. hands \in [Seats -> Seq(Deck)]
  BY <1>6, <1>7
<1>10. \A s \in Seats : Len(hands[s]) = MaxBid /\ AllDistinct(hands[s])
  BY <1>7, <1>8 DEF AllDistinct
<1>11. ASSUME NEW s \in Seats, NEW q \in Seats, s # q PROVE ToSet(hands[s]) \cap ToSet(hands[q]) = {}
  BY <1>7, <1>8, <1>11 DEF ToSet
<1> QED  BY <1>9, <1>10, <1>11 DEF hands

-----------------------------------------------------------------------------
(* Sums over the four seats.                                                 *)

(* The four seats, and sums over them and over a side's two.                 *)
LEMMA SeatsFinite ==
  Seats = {0, 1, 2, 3} /\ IsFiniteSet(Seats)
<1>1. IsFiniteSet(0 .. 3)
  <2>1. 0 \in Int /\ 3 \in Int
    OBVIOUS
  <2> QED  BY <2>1, FS_Interval, Zenon
<1> QED  BY <1>1 DEF Seats

LEMMA FourSeats ==
  ASSUME NEW f \in [Seats -> Int]
  PROVE  SumOver(f, Seats) = f[0] + f[1] + f[2] + f[3]
<1>1. Seats = {0, 1, 2, 3} /\ IsFiniteSet(Seats)
  BY SeatsFinite
<1> HIDE DEF Seats
<1>2. /\ SumOver(f, {}) = 0
      /\ SumOver(f, {} \cup {0}) = SumOver(f, {}) + f[0]
      /\ SumOver(f, {0} \cup {1}) = SumOver(f, {0}) + f[1]
      /\ SumOver(f, {0, 1} \cup {2}) = SumOver(f, {0, 1}) + f[2]
      /\ SumOver(f, {0, 1, 2} \cup {3}) = SumOver(f, {0, 1, 2}) + f[3]
  <2>1. {0} \in SUBSET Seats /\ {0, 1} \in SUBSET Seats /\ {0, 1, 2} \in SUBSET Seats /\ {} \in SUBSET Seats
    BY <1>1
  <2>2. 0 \in Seats \ {} /\ 1 \in Seats \ {0} /\ 2 \in Seats \ {0, 1} /\ 3 \in Seats \ {0, 1, 2}
    BY <1>1
  <2>3. SumOver(f, {} \cup {0}) = SumOver(f, {}) + f[0]
    BY <2>1, <2>2, <1>1, SumPut
  <2>4. SumOver(f, {0} \cup {1}) = SumOver(f, {0}) + f[1]
    BY <2>1, <2>2, <1>1, SumPut
  <2>5. SumOver(f, {0, 1} \cup {2}) = SumOver(f, {0, 1}) + f[2]
    BY <2>1, <2>2, <1>1, SumPut
  <2>6. SumOver(f, {0, 1, 2} \cup {3}) = SumOver(f, {0, 1, 2}) + f[3]
    BY <2>1, <2>2, <1>1, SumPut
  <2> QED  BY <2>3, <2>4, <2>5, <2>6, SumEmpty
<1>3. /\ {} \cup {0} = {0} /\ {0} \cup {1} = {0, 1} /\ {0, 1} \cup {2} = {0, 1, 2}
      /\ {0, 1, 2} \cup {3} = Seats
  BY <1>1
<1>4. f[0] \in Int /\ f[1] \in Int /\ f[2] \in Int /\ f[3] \in Int
  BY <1>1
<1>5. SumOver(f, {0}) = f[0]
  BY <1>2, <1>3, <1>4
<1>6. SumOver(f, {0, 1}) = f[0] + f[1]
  BY <1>2, <1>3, <1>5
<1>7. SumOver(f, {0, 1, 2}) = f[0] + f[1] + f[2]
  BY <1>2, <1>3, <1>6
<1> QED  BY <1>2, <1>3, <1>7

LEMMA TwoSeats ==
  ASSUME NEW f \in [Seats -> Int], NEW t \in Sides
  PROVE  SumOver(f, SeatsOf(t)) = f[t] + f[t + 2]
<1>1. Seats = {0, 1, 2, 3} /\ IsFiniteSet(Seats)
  BY SeatsFinite
<1>2. t \in Seats /\ t + 2 \in Seats /\ t # t + 2
  BY DEF Seats, Sides
<1>3. SeatsOf(t) = {t} \cup {t + 2} /\ {} \cup {t} = {t}
  BY DEF SeatsOf, SideOf, Sides, Seats
<1> HIDE DEF Seats
<1>4. SumOver(f, {t} \cup {t + 2}) = SumOver(f, {t}) + f[t + 2]
  BY <1>1, <1>2, SumPut
<1>5. SumOver(f, {} \cup {t}) = SumOver(f, {}) + f[t]
  BY <1>1, <1>2, SumPut
<1>6. f[t] \in Int /\ f[t + 2] \in Int /\ SumOver(f, {}) = 0
  BY <1>2, SumEmpty
<1>7. SumOver(f, SeatsOf(t)) = SumOver(f, {t}) + f[t + 2]
  BY <1>3, <1>4, Zenon
<1>8. SumOver(f, {t}) = SumOver(f, {}) + f[t]
  BY <1>3, <1>5, Zenon
<1> QED  BY <1>6, <1>7, <1>8

-----------------------------------------------------------------------------
(* What may be played.                                                       *)

(* What is legal is held, and whoever holds cards and has the turn may play. *)
LEMMA LegalHeld ==
  ASSUME NEW g \in Games, NEW s \in Seats
  PROVE  /\ LegalCards(g, s) \in Seq(Deck)
         /\ ToSet(LegalCards(g, s)) \subseteq ToSet(g.hands[s])
         /\ g.phase = "PLAYING" /\ g.turn = s /\ g.hands[s] # <<>> => LegalCards(g, s) # <<>>
<1> DEFINE cards == g.hands[s]
<1>1. cards \in Seq(Deck)
  BY DEF Games
<1>2. ASSUME NEW S
      PROVE  /\ Filtered(cards, S) \in Seq(Deck)
             /\ ToSet(Filtered(cards, S)) \subseteq ToSet(cards)
  <2> HIDE DEF cards
  <2> QED  BY <1>1, FilterKeeps
<1>3. ASSUME NEW S
      PROVE  /\ IfAny(Filtered(cards, S), cards) \in Seq(Deck)
             /\ ToSet(IfAny(Filtered(cards, S), cards)) \subseteq ToSet(cards)
             /\ cards # <<>> => IfAny(Filtered(cards, S), cards) # <<>>
  <2> HIDE DEF cards
  <2> QED  BY <1>1, <1>2 DEF IfAny
<1>4. ToSet(<<>>) = {} /\ <<>> \in Seq(Deck)
  BY DEF ToSet
<1> HIDE DEF cards
<1> DEFINE led == SuitOf(g.trick[1].card)
           follow == {c \in Deck : SuitOf(c) = led}
           plain == {c \in Deck : SuitOf(c) # Spade}
<1>5. LegalCards(g, s) =
        IF g.phase # "PLAYING" \/ g.turn # s THEN <<>>
        ELSE IF g.trick # <<>> THEN IfAny(Filtered(cards, follow), cards)
        ELSE IF g.broken THEN cards ELSE IfAny(Filtered(cards, plain), cards)
  BY Zenon DEF LegalCards, cards
<1> HIDE DEF follow, plain
<1> QED  BY <1>1, <1>3, <1>4, <1>5 DEF cards
-----------------------------------------------------------------------------
(* Who takes a trick.                                                        *)

Better(best, play) == IF Beats(best, play) THEN play ELSE best

(* A trick's entries are plays.                                              *)
LEMMA PlaysOf ==
  ASSUME NEW trick \in Seq(Plays)
  PROVE  \A i \in 1 .. Len(trick) : trick[i] \in Plays
OBVIOUS

(* TrickWinner compares the four plays in turn.                              *)
LEMMA WinnerIs ==
  ASSUME NEW trick, Len(trick) = 4
  PROVE  TrickWinner(trick) =
           Better(Better(Better(trick[1], trick[2]), trick[3]), trick[4]).seat
<1> DEFINE Is(f) == f = [n \in 1 .. 4 |-> IF n = 1 THEN trick[1]
                                          ELSE IF Beats(f[n - 1], trick[n]) THEN trick[n] ELSE f[n - 1]]
           two == Better(trick[1], trick[2])
           three == Better(two, trick[3])
           four == Better(three, trick[4])
           g == [n \in 1 .. 4 |-> IF n = 1 THEN trick[1] ELSE IF n = 2 THEN two
                                  ELSE IF n = 3 THEN three ELSE four]
<1>1. Is(g)
  <2>1. g[1] = trick[1] /\ g[2] = two /\ g[3] = three /\ g[4] = four
    OBVIOUS
  <2>2. ASSUME NEW n \in 1 .. 4
        PROVE  g[n] = IF n = 1 THEN trick[1] ELSE IF Beats(g[n - 1], trick[n]) THEN trick[n] ELSE g[n - 1]
    <3>1. n = 1 \/ n = 2 \/ n = 3 \/ n = 4
      OBVIOUS
    <3>2. 2 - 1 = 1 /\ 3 - 1 = 2 /\ 4 - 1 = 3
      OBVIOUS
    <3> HIDE DEF g
    <3>3. CASE n = 1
      BY <3>3, <2>1
    <3>4. CASE n = 2
      BY <3>4, <2>1, <3>2 DEF Better
    <3>5. CASE n = 3
      <4> HIDE DEF two
      <4> QED  BY <3>5, <2>1, <3>2 DEF Better
    <3>6. CASE n = 4
      <4> HIDE DEF two, three
      <4> QED  BY <3>6, <2>1, <3>2 DEF Better
    <3> QED  BY <3>1, <3>3, <3>4, <3>5, <3>6
  <2>3. g = [n \in 1 .. 4 |-> g[n]]
    OBVIOUS
  <2> HIDE DEF g
  <2> QED  BY <2>2, <2>3
<1> DEFINE f == CHOOSE f : Is(f)
<1>2. Is(f)
  <2> HIDE DEF Is, g
  <2> QED  BY <1>1, Zenon
<1>3. TrickWinner(trick) = f[4].seat
  BY DEF TrickWinner
<1> HIDE DEF f
<1>4. /\ f[1] = trick[1]
      /\ f[2] = Better(f[1], trick[2])
      /\ f[3] = Better(f[2], trick[3])
      /\ f[4] = Better(f[3], trick[4])
  <2>1. \A n \in 1 .. 4 :
          f[n] = IF n = 1 THEN trick[1] ELSE IF Beats(f[n - 1], trick[n]) THEN trick[n] ELSE f[n - 1]
    BY <1>2, Zenon
  <2> QED  BY <2>1 DEF Better
<1> QED  BY <1>3, <1>4

(* The best of the plays so far: a spade, or a card of the suit led while no *)
(* spade has been played, and the highest of its suit.                       *)
BestOf(trick, n, best) ==
    /\ \E i \in 1 .. n : best = trick[i]
    /\ \/ SuitOf(best.card) = Spade
       \/ /\ SuitOf(best.card) = SuitOf(trick[1].card)
          /\ \A i \in 1 .. n : SuitOf(trick[i].card) # Spade
    /\ \A i \in 1 .. n : SuitOf(trick[i].card) = SuitOf(best.card)
                            => RankOf(trick[i].card) <= RankOf(best.card)

(* The best of n plays, compared with the next, is the best of n + 1.        *)
LEMMA BestStays ==
  ASSUME NEW trick \in Seq(Plays), NEW n \in 1 .. Len(trick) - 1, NEW best, BestOf(trick, n, best)
  PROVE  BestOf(trick, n + 1, Better(best, trick[n + 1]))
<1>1. Len(trick) \in Nat /\ \A i \in 1 .. Len(trick) : trick[i] \in Plays
  OBVIOUS
<1>2. \A i \in 1 .. Len(trick) : RankOf(trick[i].card) \in Nat
  BY <1>1, DeckAssumption DEF Plays, RankOf
<1>3. n + 1 \in 1 .. Len(trick) /\ (\A i \in 1 .. n + 1 : i \in 1 .. n \/ i = n + 1)
      /\ (\A i \in 1 .. n : i \in 1 .. n + 1 /\ i \in 1 .. Len(trick)) /\ n + 1 \in 1 .. n + 1
  BY <1>1
<1> DEFINE play == trick[n + 1]
<1>4. RankOf(best.card) \in Nat /\ RankOf(play.card) \in Nat
  BY <1>2, <1>3 DEF BestOf
<1>5. CASE Beats(best, play)
  <2>1. Better(best, play) = play
    BY <1>5 DEF Better
  <2>2. \A i \in 1 .. n : SuitOf(trick[i].card) = SuitOf(play.card)
                             => RankOf(trick[i].card) <= RankOf(play.card)
    BY <1>2, <1>3, <1>4, <1>5 DEF Beats, BestOf
  <2>3. \/ SuitOf(play.card) = Spade
        \/ /\ SuitOf(play.card) = SuitOf(trick[1].card)
           /\ \A i \in 1 .. n + 1 : SuitOf(trick[i].card) # Spade
    BY <1>3, <1>5 DEF Beats, BestOf
  <2>4. \A i \in 1 .. n + 1 : SuitOf(trick[i].card) = SuitOf(play.card)
                             => RankOf(trick[i].card) <= RankOf(play.card)
    BY <1>3, <1>4, <2>2
  <2> QED  BY <1>3, <2>1, <2>3, <2>4 DEF BestOf
<1>6. CASE ~ Beats(best, play)
  <2>1. Better(best, play) = best
    BY <1>6 DEF Better
  <2>2. SuitOf(play.card) = SuitOf(best.card) => RankOf(play.card) <= RankOf(best.card)
    BY <1>4, <1>6 DEF Beats
  <2>3. SuitOf(best.card) # Spade => SuitOf(play.card) # Spade
    BY <1>6 DEF Beats
  <2> QED  BY <1>3, <2>1, <2>2, <2>3 DEF BestOf
<1> QED  BY <1>5, <1>6

(* The winner's play is the best of the four.                                *)
LEMMA WinnerIsBest ==
  ASSUME NEW trick \in Seq(Plays), Len(trick) = 4
  PROVE  \E best : BestOf(trick, 4, best) /\ TrickWinner(trick) = best.seat
<1> DEFINE two == Better(trick[1], trick[2])
           three == Better(two, trick[3])
           four == Better(three, trick[4])
<1>1. \A i \in 1 .. 4 : trick[i] \in Plays /\ RankOf(trick[i].card) \in Nat
  <2>1. \A i \in 1 .. 4 : trick[i] \in Plays
    BY PlaysOf
  <2> QED  BY <2>1, DeckAssumption DEF Plays, RankOf
<1>2. BestOf(trick, 1, trick[1])
  BY <1>1 DEF BestOf
<1>3. BestOf(trick, 1 + 1, Better(trick[1], trick[1 + 1]))
  BY <1>2, BestStays
<1>4. BestOf(trick, 2 + 1, Better(two, trick[2 + 1]))
  BY <1>3, BestStays
<1>5. BestOf(trick, 3 + 1, Better(three, trick[3 + 1]))
  <2>1. BestOf(trick, 3, three)
    BY <1>4
  <2>2. 3 \in 1 .. Len(trick) - 1
    OBVIOUS
  <2> HIDE DEF three
  <2> QED  BY <2>1, <2>2, BestStays
<1>6. BestOf(trick, 4, four) /\ TrickWinner(trick) = four.seat
  <2>1. BestOf(trick, 4, four)
    BY <1>5
  <2>2. TrickWinner(trick) = four.seat
    BY WinnerIs
  <2> QED  BY <2>1, <2>2
<1> HIDE DEF four
<1> QED  BY <1>6

(* The best play is the highest spade or, without one, the highest card of   *)
(* the suit that was led: there is one such play only.                       *)
LEMMA BestTakes ==
  ASSUME NEW trick \in Seq(Plays), Len(trick) = 4,
         \A i, j \in 1 .. 4 : trick[i].card = trick[j].card => i = j
  PROVE  LET In(suit) == {p \in ToSet(trick) : SuitOf(p.card) = suit}
             Contest == IF In(Spade) # {} THEN In(Spade) ELSE In(SuitOf(trick[1].card))
             best == CHOOSE p \in Contest : \A q \in Contest : RankOf(q.card) <= RankOf(p.card)
         IN  TrickWinner(trick) = best.seat
<1> DEFINE In(suit) == {p \in ToSet(trick) : SuitOf(p.card) = suit}
           Contest == IF In(Spade) # {} THEN In(Spade) ELSE In(SuitOf(trick[1].card))
           Highest(p) == \A q \in Contest : RankOf(q.card) <= RankOf(p.card)
           best == CHOOSE p \in Contest : Highest(p)
<1>1. \A i \in 1 .. 4 : trick[i].card \in Deck /\ RankOf(trick[i].card) \in Nat
  <2>1. \A i \in 1 .. 4 : trick[i] \in Plays
    BY PlaysOf
  <2> QED  BY <2>1, DeckAssumption DEF Plays, RankOf
<1>2. PICK b : BestOf(trick, 4, b) /\ TrickWinner(trick) = b.seat
  BY WinnerIsBest
<1>3. ToSet(trick) = {trick[i] : i \in 1 .. 4}
  BY DEF ToSet
<1>4. PICK i \in 1 .. 4 : b = trick[i]
  BY <1>2 DEF BestOf
<1>5. Contest = In(SuitOf(b.card))
  BY <1>2, <1>3, <1>4 DEF BestOf
<1>6. b \in Contest
  BY <1>3, <1>4, <1>5
<1>7. Highest(b)
  BY <1>2, <1>3, <1>5 DEF BestOf
<1>8. best \in Contest /\ Highest(best)
  <2> HIDE DEF Contest, Highest
  <2> QED  BY <1>6, <1>7, Zenon
<1>9. PICK j \in 1 .. 4 : best = trick[j] /\ SuitOf(best.card) = SuitOf(b.card)
  <2> HIDE DEF best
  <2> QED  BY <1>3, <1>5, <1>8
<1>10. RankOf(best.card) <= RankOf(b.card) /\ RankOf(b.card) <= RankOf(best.card)
  <2> HIDE DEF Contest, best
  <2> QED  BY <1>6, <1>7, <1>8
<1>11. best.card = b.card
  <2> HIDE DEF best
  <2>1. best.card \in Deck /\ b.card \in Deck
    BY <1>1, <1>4, <1>9
  <2>2. RankOf(best.card) = RankOf(b.card)
    BY <1>1, <1>4, <1>9, <1>10
  <2> QED  BY <2>1, <2>2, <1>9, DeckAssumption DEF SuitOf, RankOf
<1>12. best = b
  <2> HIDE DEF best
  <2> QED  BY <1>4, <1>9, <1>11
<1> QED  BY <1>2, <1>12
-----------------------------------------------------------------------------
(* The steps of the game, one by one.                                        *)

(* Tricks taken are the four seats' tricks.                                  *)
LEMMA TricksAre ==
  ASSUME NEW g \in Games
  PROVE  /\ TricksTaken(g) = g.won[0] + g.won[1] + g.won[2] + g.won[3]
         /\ TricksTaken(g) \in Nat
         /\ \A s \in Seats : g.won[s] <= TricksTaken(g)
<1>1. g.won \in [Seats -> Nat] /\ g.won \in [Seats -> Int]
  BY DEF Games
<1>2. TricksTaken(g) = g.won[0] + g.won[1] + g.won[2] + g.won[3]
  BY <1>1, FourSeats DEF TricksTaken
<1>3. g.won[0] \in Nat /\ g.won[1] \in Nat /\ g.won[2] \in Nat /\ g.won[3] \in Nat
  BY <1>1 DEF Seats
<1>4. \A s \in Seats : s = 0 \/ s = 1 \/ s = 2 \/ s = 3
  BY DEF Seats
<1> QED  BY <1>2, <1>3, <1>4

(* What CardsApart and HandsCounted say depends on the cards alone.          *)
LEMMA SameCards ==
  ASSUME NEW g, NEW h, CardsApart(g), HandsCounted(g),
         h.hands = g.hands, h.trick = g.trick, h.won = g.won
  PROVE  CardsApart(h) /\ HandsCounted(h)
<1>1. OnTable(h) = OnTable(g) /\ TricksTaken(h) = TricksTaken(g)
  BY DEF OnTable, TricksTaken
<1>2. \A s : HasPlayed(h, s) <=> HasPlayed(g, s)
  BY DEF HasPlayed
<1>3. CardsApart(h)
  BY <1>1 DEF CardsApart
<1>4. HandsCounted(h)
  BY <1>1, <1>2 DEF HandsCounted
<1> QED  BY <1>3, <1>4

(* placeBid.                                                                 *)
LEMMA BidKept ==
  ASSUME NEW g, GameKept(g), NEW s \in Seats, NEW bid \in Bids,
         g.phase = "BIDDING", g.turn = s
  PROVE  LET h == PlaceBid(g, s, bid)
         IN  /\ GameKept(h) /\ Live(h)
             /\ h.version = g.version + 1 /\ h.hand = g.hand
             /\ h.bids = [g.bids EXCEPT ![s] = bid]
             /\ \A q \in Seats : h.timeouts[q] = g.timeouts[q]
<1> DEFINE h == PlaceBid(g, s, bid)
<1>1. g \in Games /\ g.phase = "BIDDING" /\ g.turn = s
  BY DEF GameKept
<1>2. TurnKept(g) /\ CardsApart(g) /\ HandsCounted(g)
  BY <1>1 DEF GameKept, Live
<1>3. /\ h.version = g.version + 1 /\ h.hand = g.hand /\ h.dealer = g.dealer /\ h.broken = g.broken
      /\ h.bids = [g.bids EXCEPT ![s] = bid] /\ h.hands = g.hands /\ h.trick = g.trick
      /\ h.won = g.won /\ h.score = g.score /\ h.bags = g.bags /\ h.timeouts = g.timeouts
      /\ h.winner = g.winner
      /\ h.phase \in {"BIDDING", "PLAYING"}
      /\ h.turn \in {NextSeat(g.dealer), NextSeat(s)}
  BY <1>1 DEF Games, PlaceBid
<1>4. h \in Games
  <2>1. \A q \in Seats : NextSeat(q) \in Seats
    BY DEF Seats, NextSeat
  <2>2. g.dealer \in Seats /\ [g.bids EXCEPT ![s] = bid] \in [Seats -> Bids \cup {NoBid}]
    BY <1>1 DEF Games
  <2>3. h = [g EXCEPT !.version = h.version, !.bids = h.bids, !.phase = h.phase, !.turn = h.turn]
    BY <1>1 DEF Games, PlaceBid
  <2>4. h.turn \in Seats \cup {NoSeat} /\ h.phase \in Phases /\ h.bids \in [Seats -> Bids \cup {NoBid}]
        /\ h.version \in Nat \ {0}
    <3> HIDE DEF h
    <3>1. h.turn \in Seats
      BY <1>3, <2>1, <2>2
    <3>2. h.phase \in Phases
      BY <1>3 DEF Phases
    <3>3. h.version \in Nat \ {0}
      <4>1. g.version \in Nat
        BY <1>1 DEF Games
      <4> QED  BY <4>1, <1>3
    <3> QED  BY <3>1, <3>2, <3>3, <1>3, <2>2
  <2> HIDE DEF h
  <2> QED  BY <1>1, <2>3, <2>4 DEF Games
<1>5. h.turn \in Seats /\ h.trick = <<>>
  <2>1. \A q \in Seats : NextSeat(q) \in Seats
    BY DEF Seats, NextSeat
  <2>2. g.dealer \in Seats /\ g.trick = <<>>
    BY <1>1, <1>2 DEF Games, TurnKept
  <2> QED  BY <1>3, <2>1, <2>2
<1> HIDE DEF h
<1>6. CardsApart(h) /\ HandsCounted(h) /\ TricksTaken(h) = TricksTaken(g)
  BY <1>2, <1>3, SameCards DEF TricksTaken
<1>7. TurnKept(h)
  BY <1>2, <1>3, <1>5, <1>6 DEF TurnKept
<1>8. GameKept(h)
  BY <1>3, <1>4, <1>6, <1>7 DEF GameKept
<1> QED  BY <1>3, <1>8 DEF h, Live
-----------------------------------------------------------------------------
(* Points.                                                                   *)

Multiple(n) == \E k \in Int : n = k * TrickPoints

(* Points that are multiples of a trick's add up to such points.             *)
LEMMA MultiplesAdd ==
  ASSUME NEW m \in Int, NEW n \in Int, Multiple(m), Multiple(n), NEW q \in Int
  PROVE  Multiple(m + n) /\ Multiple(m - n) /\ Multiple(-n) /\ Multiple(q * n)
<1>1. TrickPoints \in Int
  BY RulesAssumption
<1>2. PICK k \in Int : m = k * TrickPoints
  BY DEF Multiple
<1>3. PICK j \in Int : n = j * TrickPoints
  BY DEF Multiple
<1>4. m + n = (k + j) * TrickPoints /\ m - n = (k - j) * TrickPoints
  BY <1>1, <1>2, <1>3
<1>5. -n = (-j) * TrickPoints /\ q * n = (q * j) * TrickPoints
  BY <1>1, <1>3
<1>6. k + j \in Int /\ k - j \in Int /\ -j \in Int /\ q * j \in Int
  OBVIOUS
<1> QED  BY <1>4, <1>5, <1>6 DEF Multiple

(* What the penalty for bags leaves.                                         *)
LEMMA Division ==
  ASSUME NEW a \in Nat, NEW b \in Nat \ {0}
  PROVE  /\ a \div b \in Int /\ a % b \in Nat /\ a % b < b
         /\ a = b * (a \div b) + (a % b)
OBVIOUS

LEMMA MultiplesDivide ==
  ASSUME NEW n \in Int, Multiple(n)
  PROVE  n % TrickPoints = 0
<1>1. TrickPoints \in Nat \ {0}
  BY RulesAssumption
<1>2. PICK k \in Int : n = k * TrickPoints
  BY DEF Multiple
<1> DEFINE q == n \div TrickPoints
           r == n % TrickPoints
<1>3. q \in Int /\ r \in Int /\ 0 <= r /\ r < TrickPoints /\ n = TrickPoints * q + r
  BY <1>1
<1> HIDE DEF q, r
<1>4. r = (k - q) * TrickPoints
  BY <1>1, <1>2, <1>3
<1>5. k - q \in Int
  BY <1>3
<1>6. ASSUME k - q >= 1 PROVE FALSE
  <2>1. (k - q) * TrickPoints >= 1 * TrickPoints
    BY <1>1, <1>5, <1>6
  <2> QED  BY <1>1, <1>3, <1>4, <2>1
<1>7. ASSUME k - q <= -1 PROVE FALSE
  <2>1. (k - q) * TrickPoints <= -1 * TrickPoints
    BY <1>1, <1>5, <1>7
  <2> QED  BY <1>1, <1>3, <1>4, <2>1
<1>8. k - q = 0
  BY <1>5, <1>6, <1>7
<1>9. r = 0
  BY <1>1, <1>4, <1>8
<1> QED  BY <1>9 DEF r

(* The numbers of the rules.                                                 *)
LEMMA RulesAre ==
  /\ TrickPoints \in Nat \ {0} /\ BagPenaltyAt \in Nat \ {0}
  /\ \A n \in {NilBonus, BlindNilBonus, BagPenaltyAt, BagPenalty} : n \in Nat /\ Multiple(n)
BY RulesAssumption DEF Multiple

(* A nil wins or loses a multiple of a trick's points.                       *)
LEMMA NilsAre ==
  ASSUME NEW bid \in Bids \cup {NoBid}, NEW won \in Nat
  PROVE  NilPoints(bid, won) \in Int /\ Multiple(NilPoints(bid, won))
<1>1. Bonus(bid) \in Nat /\ Multiple(Bonus(bid))
  BY RulesAre DEF Bonus
<1>2. -Bonus(bid) \in Int /\ Multiple(-Bonus(bid))
  BY <1>1, MultiplesAdd
<1>3. Multiple(0)
  <2>1. 0 = 0 * TrickPoints
    BY RulesAre
  <2> QED  BY <2>1 DEF Multiple
<1> QED  BY <1>1, <1>2, <1>3 DEF NilPoints

(* Whatever is bid and won, every point that is not a multiple of a trick's  *)
(* is a bag, and no more bags are left than cost nothing.                    *)
LEMMA ScoreKept ==
  ASSUME NEW g \in Games, NEW t \in Sides, BagsShown(g.score[t], g.bags[t])
  PROVE  LET r == ScoreTeam(g, t)
         IN  r.score \in Int /\ r.bags \in Nat /\ BagsShown(r.score, r.bags)
<1> DEFINE amounts  == [s \in Seats |-> g.bids[s].amount]
           nils     == [s \in Seats |-> NilPoints(g.bids[s], g.won[s])]
           contract == SumOver(amounts, SeatsOf(t))
           tricks   == SumOver(g.won, SeatsOf(t))
           over     == IF tricks >= contract THEN tricks - contract ELSE 0
           points   == IF tricks >= contract THEN contract * TrickPoints + over
                                             ELSE -(contract * TrickPoints)
           extra    == SumOver(nils, SeatsOf(t))
           bags     == g.bags[t] + over
           fines    == bags \div BagPenaltyAt
           r        == ScoreTeam(g, t)
<1>1. r = [score |-> g.score[t] + points + extra - fines * BagPenalty, bags |-> bags % BagPenaltyAt]
  BY Zenon DEF ScoreTeam, BagsLeft
<1>2. /\ g.score[t] \in Int /\ g.bags[t] \in Nat /\ t \in Seats /\ t + 2 \in Seats
      /\ \A s \in Seats : g.won[s] \in Nat /\ g.bids[s] \in Bids \cup {NoBid}
  <2>1. /\ g.score \in [Sides -> Int] /\ g.bags \in [Sides -> Nat] /\ g.won \in [Seats -> Nat]
        /\ g.bids \in [Seats -> Bids \cup {NoBid}]
    BY DEF Games
  <2>2. t \in Seats /\ t + 2 \in Seats
    BY DEF Sides, Seats
  <2> QED  BY <2>1, <2>2
<1>3. \A s \in Seats : g.bids[s].amount \in Int
  BY <1>2, RulesAssumption DEF Bids, NoBid
<1>4. \A s \in Seats : NilPoints(g.bids[s], g.won[s]) \in Int /\ Multiple(NilPoints(g.bids[s], g.won[s]))
  BY <1>2, NilsAre
<1>5. amounts \in [Seats -> Int] /\ nils \in [Seats -> Int] /\ g.won \in [Seats -> Int]
  <2>1. g.won \in [Seats -> Nat]
    BY DEF Games
  <2>2. g.won \in [Seats -> Int]
    BY <2>1
  <2> QED  BY <1>3, <1>4, <2>2
<1>6. contract = amounts[t] + amounts[t + 2] /\ extra = nils[t] + nils[t + 2]
      /\ tricks = g.won[t] + g.won[t + 2]
  <2> HIDE DEF amounts, nils
  <2> QED  BY <1>5, TwoSeats
<1>7. contract \in Int /\ tricks \in Int
  BY <1>2, <1>3, <1>6
<1>8. extra \in Int /\ Multiple(extra)
  <2>1. nils[t] \in Int /\ nils[t + 2] \in Int /\ Multiple(nils[t]) /\ Multiple(nils[t + 2])
    BY <1>2, <1>4
  <2> HIDE DEF nils
  <2> QED  BY <1>6, <2>1, MultiplesAdd
<1> HIDE DEF contract, tricks, extra
<1>9. over \in Nat /\ points - over \in Int /\ Multiple(points - over)
  <2>1. contract * TrickPoints \in Int /\ Multiple(contract * TrickPoints)
    BY <1>7, RulesAre DEF Multiple
  <2>2. -(contract * TrickPoints) \in Int /\ Multiple(-(contract * TrickPoints))
    BY <2>1, MultiplesAdd
  <2>3. CASE tricks >= contract
    BY <2>1, <2>3, <1>7
  <2>4. CASE ~ (tricks >= contract)
    BY <2>2, <2>4, <1>7
  <2> QED  BY <2>3, <2>4
<1>10. points \in Int
  BY <1>7, <1>9, RulesAre
<1> HIDE DEF over, points
<1>11. bags \in Nat
  BY <1>2, <1>9
<1>12. /\ fines \in Int /\ bags % BagPenaltyAt \in Nat /\ bags % BagPenaltyAt < BagPenaltyAt
       /\ bags = BagPenaltyAt * fines + (bags % BagPenaltyAt)
  <2> HIDE DEF bags
  <2> QED  BY <1>11, Division, RulesAre
<1> DEFINE left == bags % BagPenaltyAt
           d    == g.score[t] - g.bags[t]
           new  == g.score[t] + points + extra - fines * BagPenalty
<1>13. d \in Int /\ Multiple(d)
  BY <1>2 DEF BagsShown, Multiple
<1>14. Multiple(fines * BagPenalty) /\ Multiple(fines * BagPenaltyAt)
       /\ fines * BagPenalty \in Int /\ fines * BagPenaltyAt \in Int
  <2> HIDE DEF fines
  <2> QED  BY <1>12, RulesAre, MultiplesAdd
<1>15. left = bags - fines * BagPenaltyAt /\ left \in Nat
  <2> HIDE DEF bags, fines
  <2>1. BagPenaltyAt * fines = fines * BagPenaltyAt
    BY <1>12, RulesAre
  <2> QED  BY <1>11, <1>12, <1>14, <2>1
<1> HIDE DEF fines, left
<1>16. new - left = (d + (points - over)) + (extra - fines * BagPenalty) + fines * BagPenaltyAt
  BY <1>2, <1>8, <1>9, <1>10, <1>12, <1>14, <1>15
<1>17. Multiple(new - left)
  <2> HIDE DEF d, new
  <2> DEFINE a == d + (points - over)
             b == extra - fines * BagPenalty
  <2>1. a \in Int /\ Multiple(a)
    BY <1>9, <1>13, MultiplesAdd
  <2>2. b \in Int /\ Multiple(b)
    BY <1>8, <1>14, MultiplesAdd
  <2> HIDE DEF a, b
  <2>3. a + b \in Int /\ Multiple(a + b)
    <3>1. a + b \in Int /\ 0 \in Int
      BY <2>1, <2>2
    <3> QED  BY <2>1, <2>2, <3>1, MultiplesAdd, Zenon
  <2>4. Multiple((a + b) + fines * BagPenaltyAt)
    BY <2>3, <1>14, MultiplesAdd
  <2> QED  BY <2>4, <1>16, Zenon DEF a, b
<1>18. new \in Int
  BY <1>2, <1>8, <1>10, <1>14
<1>19. r.score = new /\ r.bags = left
  BY <1>1 DEF left
<1>20. left < BagPenaltyAt
  BY <1>12 DEF left
<1> HIDE DEF r, new
<1> QED  BY <1>15, <1>17, <1>18, <1>19, <1>20 DEF BagsShown, Multiple, r
-----------------------------------------------------------------------------
(* The end of a hand, and a card.                                            *)

LEMMA SeatAfter ==
  \A s \in Seats : NextSeat(s) \in Seats
BY DEF Seats, NextSeat

(* A hand that has just been dealt.                                          *)
LEMMA DealtKept ==
  ASSUME NEW h \in Games, NEW deck \in Shuffles, NEW dealer \in Seats,
         h.phase = "BIDDING", h.trick = <<>>, h.won = [s \in Seats |-> 0],
         h.hands = Dealt(deck, dealer), h.turn \in Seats,
         \A s \in Seats : h.timeouts[s] < MaxTimeouts,
         \A t \in Sides : BagsShown(h.score[t], h.bags[t])
  PROVE  GameKept(h)
<1>1. /\ \A s \in Seats : Len(h.hands[s]) = MaxBid /\ AllDistinct(h.hands[s])
      /\ \A s, q \in Seats : s # q => ToSet(h.hands[s]) \cap ToSet(h.hands[q]) = {}
  <2> DEFINE hands == Dealt(deck, dealer)
  <2>1. /\ \A s \in Seats : Len(hands[s]) = MaxBid /\ AllDistinct(hands[s])
        /\ \A s, q \in Seats : s # q => ToSet(hands[s]) \cap ToSet(hands[q]) = {}
    BY DealApart
  <2>2. h.hands = hands
    OBVIOUS
  <2> HIDE DEF hands
  <2> QED  BY <2>1, <2>2
<1>2. TricksTaken(h) = 0 /\ MaxBid \in Nat \ {0}
  <2>1. \A s \in Seats : h.won[s] = 0
    OBVIOUS
  <2>2. h.won[0] = 0 /\ h.won[1] = 0 /\ h.won[2] = 0 /\ h.won[3] = 0
    BY <2>1 DEF Seats
  <2>3. TricksTaken(h) = h.won[0] + h.won[1] + h.won[2] + h.won[3]
    BY TricksAre
  <2>4. MaxBid \in Nat \ {0}
    BY RulesAssumption
  <2> QED  BY <2>2, <2>3, <2>4
<1>3. OnTable(h) = {} /\ (\A s : ~ HasPlayed(h, s)) /\ DOMAIN h.trick = {} /\ Len(h.trick) = 0
  BY DEF OnTable, HasPlayed
<1>4. CardsApart(h)
  BY <1>1, <1>3 DEF CardsApart
<1>5. HandsCounted(h)
  <2>1. MaxBid - TricksTaken(h) - 0 = MaxBid
    BY <1>2
  <2>2. \A s \in Seats : Len(h.hands[s]) = MaxBid
    BY <1>1
  <2> QED  BY <2>1, <2>2, <1>3 DEF HandsCounted
<1>6. TurnKept(h)
  BY <1>2, <1>3 DEF TurnKept
<1>7. \A s \in Seats : h.timeouts[s] <= MaxTimeouts
  <2>1. \A s \in Seats : h.timeouts[s] \in Nat
    BY DEF Games
  <2> QED  BY <2>1, RulesAssumption
<1> QED  BY <1>2, <1>3, <1>4, <1>5, <1>6, <1>7 DEF GameKept

(* The end of a hand: the game is over, or the next hand is dealt.           *)
LEMMA FinishKept ==
  ASSUME NEW g \in Games, NEW deck \in Shuffles, TricksTaken(g) <= MaxBid,
         \A s \in Seats : g.timeouts[s] < MaxTimeouts,
         \A t \in Sides : BagsShown(g.score[t], g.bags[t])
  PROVE  LET h == FinishHand(g, deck)
         IN  /\ GameKept(h) /\ h.version = g.version /\ h.timeouts = g.timeouts
             /\ \/ h.phase = "COMPLETED" /\ h.hand = g.hand /\ h.bids = g.bids
                \/ /\ h.phase = "BIDDING" /\ h.hand = g.hand + 1
                   /\ h.bids = [s \in Seats |-> NoBid] /\ h.won = [s \in Seats |-> 0]
                   /\ h.trick = <<>>
<1> DEFINE score  == [t \in Sides |-> ScoreTeam(g, t).score]
           bags   == [t \in Sides |-> ScoreTeam(g, t).bags]
           scored == [g EXCEPT !.score = score, !.bags = bags]
           over   == [scored EXCEPT !.phase = "COMPLETED", !.turn = NoSeat, !.trick = <<>>,
                                    !.winner = IF score[0] > score[1] THEN 0 ELSE 1]
           next   == StartNextHand(scored, deck)
           h      == FinishHand(g, deck)
<1>1. \A t \in Sides : score[t] \in Int /\ bags[t] \in Nat /\ BagsShown(score[t], bags[t])
  BY ScoreKept
<1>2. score \in [Sides -> Int] /\ bags \in [Sides -> Nat]
  BY <1>1
<1>3. h = IF Decided(score) THEN over ELSE next
  <2>1. \A t \in Sides : [q \in Sides |-> ScoreTeam(g, q)][t] = ScoreTeam(g, t)
    OBVIOUS
  <2>2. /\ score = [t \in Sides |-> [q \in Sides |-> ScoreTeam(g, q)][t].score]
        /\ bags = [t \in Sides |-> [q \in Sides |-> ScoreTeam(g, q)][t].bags]
    BY <2>1
  <2> HIDE DEF score, bags
  <2> QED  BY <2>2, Zenon DEF FinishHand
<1> HIDE DEF score, bags
<1>4. /\ scored \in Games /\ scored.won = g.won /\ scored.timeouts = g.timeouts /\ scored.hand = g.hand
      /\ scored.score = score /\ scored.bags = bags /\ scored.version = g.version /\ scored.bids = g.bids
      /\ scored.dealer = g.dealer
  BY <1>2 DEF Games
<1> HIDE DEF scored
<1>5. \A s \in Seats : g.timeouts[s] <= MaxTimeouts
  <2>1. \A s \in Seats : g.timeouts[s] \in Nat
    BY DEF Games
  <2> QED  BY <2>1, RulesAssumption
<1>6. CASE Decided(score)
  <2>1. h = over
    BY <1>3, <1>6
  <2>2. /\ over.won = g.won /\ over.timeouts = g.timeouts /\ over.hand = g.hand /\ over.score = score
        /\ over.bags = bags /\ over.version = g.version /\ over.bids = g.bids
        /\ over.phase = "COMPLETED" /\ over.trick = <<>>
    BY <1>4 DEF Games
  <2>3. over \in Games
    <3>1. /\ "COMPLETED" \in Phases /\ NoSeat \in Seats \cup {NoSeat} /\ <<>> \in Seq(Plays)
          /\ (IF score[0] > score[1] THEN 0 ELSE 1) \in Sides \cup {NoSeat}
      BY DEF Phases, Sides
    <3> QED  BY <1>4, <3>1 DEF Games
  <2> HIDE DEF over
  <2>4. TricksTaken(over) <= MaxBid /\ Len(over.trick) < 4
    BY <2>2 DEF TricksTaken
  <2>5. GameKept(over)
    BY <2>2, <2>3, <2>4, <1>1, <1>5 DEF GameKept, Live
  <2> QED  BY <2>1, <2>2, <2>5
<1>7. CASE ~ Decided(score)
  <2> DEFINE dealer == NextSeat(g.dealer)
             hands  == Dealt(deck, dealer)
  <2>1. h = next
    BY <1>3, <1>7
  <2>2. /\ next.timeouts = g.timeouts /\ next.hand = g.hand + 1 /\ next.score = score
        /\ next.bags = bags /\ next.version = g.version /\ next.bids = [s \in Seats |-> NoBid]
        /\ next.phase = "BIDDING" /\ next.trick = <<>> /\ next.hands = hands
        /\ next.won = [s \in Seats |-> 0] /\ next.turn = NextSeat(dealer)
    BY <1>4 DEF Games, StartNextHand
  <2>3. dealer \in Seats /\ NextSeat(dealer) \in Seats
    BY SeatAfter DEF Games
  <2>4. hands \in [Seats -> Seq(Deck)]
    <3> HIDE DEF dealer
    <3> QED  BY <2>3, DealApart
  <2>5. next \in Games
    <3>1. /\ "BIDDING" \in Phases /\ <<>> \in Seq(Plays) /\ g.hand \in Nat \ {0}
          /\ [s \in Seats |-> NoBid] \in [Seats -> Bids \cup {NoBid}] /\ [s \in Seats |-> 0] \in [Seats -> Nat]
      BY DEF Phases, Games
    <3>2. g.hand + 1 \in Nat \ {0} /\ FALSE \in BOOLEAN
      BY <3>1
    <3>3. next = [scored EXCEPT !.phase = "BIDDING", !.hand = g.hand + 1, !.dealer = dealer,
                                !.turn = NextSeat(dealer), !.broken = FALSE,
                                !.bids = [s \in Seats |-> NoBid], !.hands = hands,
                                !.trick = <<>>, !.won = [s \in Seats |-> 0]]
      <4> HIDE DEF hands
      <4>1. scored.hand = g.hand /\ scored.dealer = g.dealer
        BY <1>4
      <4> QED  BY <4>1 DEF StartNextHand, hands
    <3> HIDE DEF next, hands, dealer
    <3> QED  BY <1>4, <2>3, <2>4, <3>1, <3>2, <3>3 DEF Games
  <2> HIDE DEF next, dealer
  <2>6. GameKept(next)
    <3>1. next.hands = Dealt(deck, dealer)
      BY <2>2
    <3> QED  BY <2>2, <2>3, <2>5, <3>1, <1>1, DealtKept
  <2> QED  BY <2>1, <2>2, <2>6
<1> QED  BY <1>6, <1>7

LEMMA UpToThree ==
  \A n \in Nat : n < 4 => n \in 0 .. 3
OBVIOUS

(* The seats that have played are the ones before the turn.                  *)
LEMMA PlayedBefore ==
  ASSUME NEW g \in Games, Len(g.trick) < 4, TurnKept(g)
  PROVE  /\ ~ HasPlayed(g, g.turn)
         /\ Len(g.trick) = 3 => \A q \in Seats : HasPlayed(g, q) <=> q # g.turn
<1> DEFINE n == Len(g.trick)
<1>1. n \in 0 .. 3 /\ DOMAIN g.trick = 1 .. n
  <2>1. g.trick \in Seq(Plays)
    BY DEF Games
  <2>2. Len(g.trick) \in Nat /\ DOMAIN g.trick = 1 .. Len(g.trick)
    BY <2>1
  <2>3. Len(g.trick) \in 0 .. 3
    BY <2>2, UpToThree
  <2> QED  BY <2>2, <2>3
<1>2. g.turn \in 0 .. 3 /\ \A i \in 1 .. n : g.trick[i].seat = (g.turn + 3 + i - n) % 4
  BY <1>1 DEF TurnKept, Seats
<1>3. \A q \in Seats : HasPlayed(g, q) <=> \E i \in 1 .. n : (g.turn + 3 + i - n) % 4 = q
  BY <1>1, <1>2 DEF HasPlayed
<1> HIDE DEF n
<1>4. ~ HasPlayed(g, g.turn)
  <2>1. \A t \in 0 .. 3, d \in 0 .. 2 : (t + 3 - d) % 4 # t
    OBVIOUS
  <2>2. \A i \in 1 .. n : n - i \in 0 .. 2 /\ g.turn + 3 + i - n = g.turn + 3 - (n - i)
    BY <1>1, <1>2
  <2>3. \A i \in 1 .. n : (g.turn + 3 + i - n) % 4 # g.turn
    BY <1>2, <2>1, <2>2
  <2> QED  BY <1>2, <1>3, <2>3 DEF Seats
<1>5. ASSUME n = 3, NEW q \in Seats PROVE HasPlayed(g, q) <=> q # g.turn
  <2>1. ASSUME q # g.turn PROVE \E i \in 1 .. 3 : (g.turn + 3 + i - 3) % 4 = q
    <3>1. (g.turn + 3 + 1 - 3) % 4 = q \/ (g.turn + 3 + 2 - 3) % 4 = q \/ (g.turn + 3 + 3 - 3) % 4 = q
      BY <1>2, <2>1 DEF Seats
    <3> QED  BY <3>1
  <2>2. q # g.turn => HasPlayed(g, q)
    BY <2>1, <1>3, <1>5
  <2> QED  BY <2>2, <1>4
<1> QED  BY <1>4, <1>5 DEF n

(* What a card does: it lies on the table, takes the trick with the hand     *)
(* going on, or ends the hand, and with it the game or not.                  *)
LaidDown(g, s, c, h) ==
    /\ Len(g.trick) < 3 /\ h.trick = Append(g.trick, [seat |-> s, card |-> c])
    /\ h.phase = "PLAYING" /\ h.hand = g.hand /\ h.bids = g.bids /\ h.won = g.won /\ h.score = g.score

TrickTaken(g, s, c, h) ==
    /\ Len(g.trick) = 3 /\ h.trick = <<>>
    /\ h.won = [g.won EXCEPT ![TrickWinner(Append(g.trick, [seat |-> s, card |-> c]))] = @ + 1]
    /\ h.phase = "PLAYING" /\ h.hand = g.hand /\ h.bids = g.bids /\ h.score = g.score

HandOver(g, h) ==
    /\ Len(g.trick) = 3
    /\ \/ h.phase = "COMPLETED" /\ h.hand = g.hand /\ h.bids = g.bids
       \/ /\ h.phase = "BIDDING" /\ h.hand = g.hand + 1 /\ h.bids = [q \in Seats |-> NoBid]
          /\ h.won = [q \in Seats |-> 0] /\ h.trick = <<>>

(* playCard.                                                                 *)
LEMMA PlayKept ==
  ASSUME NEW g, GameKept(g), NEW s \in Seats, NEW c, CanPlay(g, s, c), NEW deck \in Shuffles
  PROVE  LET h == PlayCard(g, s, c, deck)
         IN  /\ GameKept(h) /\ h.version = g.version + 1 /\ h.timeouts = g.timeouts
             /\ LaidDown(g, s, c, h) \/ TrickTaken(g, s, c, h) \/ HandOver(g, h)
<1> DEFINE hands  == [g.hands EXCEPT ![s] = Without(@, c)]
           play   == [seat |-> s, card |-> c]
           trick  == Append(g.trick, play)
           played == [g EXCEPT !.version = @ + 1, !.hands = hands, !.broken = @ \/ SuitOf(c) = Spade]
           winner == TrickWinner(trick)
           taken  == [played EXCEPT !.trick = <<>>, !.won[winner] = @ + 1, !.turn = winner]
           on     == [played EXCEPT !.trick = trick, !.turn = NextSeat(s)]
           h      == PlayCard(g, s, c, deck)
<1>1. g \in Games /\ g.phase = "PLAYING" /\ g.turn = s /\ c \in ToSet(g.hands[s])
  <2>1. c \in ToSet(LegalCards(g, s)) /\ ToSet(<<>>) = {} /\ g \in Games
    BY DEF CanPlay, GameKept, ToSet
  <2>2. g.phase = "PLAYING" /\ g.turn = s
    BY <2>1 DEF LegalCards
  <2> QED  BY <2>1, <2>2, LegalHeld
<1>2. CardsApart(g) /\ HandsCounted(g) /\ TurnKept(g) /\ Len(g.trick) < 4
  BY <1>1 DEF GameKept, Live
<1>3. g.trick \in Seq(Plays) /\ g.hands \in [Seats -> Seq(Deck)] /\ c \in Deck /\ play \in Plays
  <2>1. g.trick \in Seq(Plays) /\ g.hands \in [Seats -> Seq(Deck)]
    BY <1>1 DEF Games
  <2>2. c \in Deck
    BY <1>1, <2>1 DEF ToSet
  <2> QED  BY <2>1, <2>2 DEF Plays
<1>4. AllDistinct(g.hands[s])
  BY <1>2 DEF CardsApart
<1>5. /\ hands \in [Seats -> Seq(Deck)] /\ \A q \in Seats : AllDistinct(hands[q])
      /\ \A q \in Seats : ToSet(hands[q]) = ToSet(g.hands[q]) \ (IF q = s THEN {c} ELSE {})
      /\ \A q \in Seats : Len(hands[q]) = Len(g.hands[q]) - (IF q = s THEN 1 ELSE 0)
  <2>1. /\ Without(g.hands[s], c) \in Seq(Deck)
        /\ ToSet(Without(g.hands[s], c)) = ToSet(g.hands[s]) \ {c}
        /\ AllDistinct(Without(g.hands[s], c))
        /\ Len(Without(g.hands[s], c)) = Len(g.hands[s]) - 1
    BY <1>1, <1>3, <1>4, WithoutTakes
  <2>2. hands[s] = Without(g.hands[s], c) /\ \A q \in Seats : q # s => hands[q] = g.hands[q]
    BY <1>3
  <2>3. \A q \in Seats : Len(g.hands[q]) \in Nat /\ AllDistinct(g.hands[q])
    BY <1>2, <1>3 DEF CardsApart
  <2>4. hands \in [Seats -> Seq(Deck)]
    BY <1>3, <2>1
  <2> HIDE DEF hands
  <2> QED  BY <2>1, <2>2, <2>3, <2>4
<1>6. /\ trick \in Seq(Plays) /\ Len(trick) = Len(g.trick) + 1 /\ Len(g.trick) \in 0 .. 3
      /\ DOMAIN trick = 1 .. Len(trick) /\ DOMAIN g.trick = 1 .. Len(g.trick)
      /\ \A i \in 1 .. Len(g.trick) : trick[i] = g.trick[i]
      /\ trick[Len(g.trick) + 1] = play
  <2> HIDE DEF play
  <2>1. Len(g.trick) \in Nat /\ DOMAIN g.trick = 1 .. Len(g.trick)
    BY <1>3
  <2>2. trick \in Seq(Plays) /\ Len(trick) = Len(g.trick) + 1
        /\ (\A i \in 1 .. Len(g.trick) : trick[i] = g.trick[i]) /\ trick[Len(g.trick) + 1] = play
    BY <1>3
  <2> HIDE DEF trick
  <2>3. DOMAIN trick = 1 .. Len(trick)
    BY <2>2
  <2>4. Len(g.trick) \in 0 .. 3
    BY <1>2, <2>1, UpToThree
  <2> QED  BY <2>1, <2>2, <2>3, <2>4
<1>7. /\ \A i \in 1 .. Len(g.trick) : g.trick[i].card # c /\ g.trick[i].seat # s
      /\ \A i \in 1 .. Len(g.trick) : \A q \in Seats : g.trick[i].card \notin ToSet(g.hands[q])
      /\ \A q \in Seats : q # s => c \notin ToSet(g.hands[q])
  <2>1. ~ HasPlayed(g, s)
    BY <1>1, <1>2, PlayedBefore
  <2>2. \A i \in 1 .. Len(g.trick) : g.trick[i].card \in OnTable(g)
    BY <1>6 DEF OnTable
  <2> QED  BY <1>1, <1>2, <1>6, <2>1, <2>2 DEF CardsApart, HasPlayed
<1>8. \A i, j \in 1 .. Len(trick) : i # j => trick[i].card # trick[j].card /\ trick[i].seat # trick[j].seat
  <2> SUFFICES ASSUME NEW i \in 1 .. Len(trick), NEW j \in 1 .. Len(trick), i # j
               PROVE  trick[i].card # trick[j].card /\ trick[i].seat # trick[j].seat
    OBVIOUS
  <2>1. play.card = c /\ play.seat = s
    OBVIOUS
  <2>2. \A k, m \in 1 .. Len(g.trick) :
            k # m => g.trick[k].card # g.trick[m].card /\ g.trick[k].seat # g.trick[m].seat
    BY <1>2, <1>6 DEF CardsApart
  <2> HIDE DEF trick, play
  <2>3. \A k \in 1 .. Len(trick) : k \in 1 .. Len(g.trick) \/ k = Len(g.trick) + 1
    BY <1>6
  <2>4. CASE i \in 1 .. Len(g.trick) /\ j \in 1 .. Len(g.trick)
    BY <1>6, <2>2, <2>4
  <2>5. CASE i \in 1 .. Len(g.trick) /\ j = Len(g.trick) + 1
    BY <1>6, <1>7, <2>1, <2>5
  <2>6. CASE i = Len(g.trick) + 1 /\ j \in 1 .. Len(g.trick)
    BY <1>6, <1>7, <2>1, <2>6
  <2> QED  BY <2>3, <2>4, <2>5, <2>6
<1>9. h = IF Len(trick) < 4 THEN on
          ELSE IF \A q \in Seats : hands[q] = <<>> THEN FinishHand(taken, deck) ELSE taken
  BY Zenon DEF PlayCard
<1>10. /\ played \in Games /\ played.version = g.version + 1 /\ played.hands = hands
       /\ played.phase = g.phase /\ played.dealer = g.dealer /\ played.bids = g.bids
       /\ played.won = g.won /\ played.hand = g.hand /\ played.score = g.score /\ played.bags = g.bags
       /\ played.timeouts = g.timeouts /\ played.winner = g.winner /\ played.trick = g.trick
       /\ played.turn = g.turn
  <2>1. g.version + 1 \in Nat \ {0} /\ (g.broken \/ SuitOf(c) = Spade) \in BOOLEAN
    BY <1>1 DEF Games
  <2> HIDE DEF hands
  <2> QED  BY <1>1, <1>5, <2>1 DEF Games
<1> HIDE DEF hands, trick, play, played, h
<1>11. CASE Len(trick) < 4
  <2>1. h = on
    BY <1>9, <1>11
  <2>2. NextSeat(s) \in Seats
    BY SeatAfter
  <2>3. /\ on \in Games /\ on.version = g.version + 1 /\ on.hands = hands
        /\ on.phase = "PLAYING" /\ on.bids = g.bids /\ on.won = g.won /\ on.hand = g.hand
        /\ on.score = g.score /\ on.bags = g.bags /\ on.timeouts = g.timeouts
        /\ on.trick = trick /\ on.turn = NextSeat(s)
    BY <1>1, <1>6, <1>10, <2>2 DEF Games
  <2> HIDE DEF on
  <2>4. TricksTaken(on) = TricksTaken(g)
    BY <2>3 DEF TricksTaken
  <2>5. \A x : x \in OnTable(on) => x = c \/ \E i \in 1 .. Len(g.trick) : x = g.trick[i].card
    <3>1. OnTable(on) = {trick[i].card : i \in 1 .. Len(trick)}
      BY <1>6, <2>3 DEF OnTable
    <3>2. trick[Len(g.trick) + 1].card = c
      BY <1>6 DEF play
    <3>3. \A i \in 1 .. Len(trick) : i \in 1 .. Len(g.trick) \/ i = Len(g.trick) + 1
      BY <1>6
    <3>4. \A i \in 1 .. Len(g.trick) : trick[i] = g.trick[i]
      BY <1>6
    <3> QED  BY <3>1, <3>2, <3>3, <3>4
  <2>6. CardsApart(on)
    <3>1. \A q \in Seats : AllDistinct(on.hands[q]) /\ ToSet(on.hands[q]) \cap OnTable(on) = {}
      BY <1>5, <1>7, <2>3, <2>5
    <3>2. \A q, r \in Seats : q # r => ToSet(on.hands[q]) \cap ToSet(on.hands[r]) = {}
      <4>1. \A q, r \in Seats : q # r => ToSet(g.hands[q]) \cap ToSet(g.hands[r]) = {}
        BY <1>2 DEF CardsApart
      <4>2. \A q \in Seats : ToSet(hands[q]) \subseteq ToSet(g.hands[q])
        BY <1>5
      <4> QED  BY <4>1, <4>2, <2>3
    <3>3. \A i, j \in DOMAIN on.trick :
              i # j => on.trick[i].card # on.trick[j].card /\ on.trick[i].seat # on.trick[j].seat
      BY <1>6, <1>8, <2>3
    <3> QED  BY <3>1, <3>2, <3>3 DEF CardsApart
  <2>7. ASSUME NEW q \in Seats PROVE HasPlayed(on, q) <=> HasPlayed(g, q) \/ q = s
    <3>1. play.seat = s /\ Len(trick) \in DOMAIN trick
      BY <1>6 DEF play
    <3>2. HasPlayed(on, q) <=> \E i \in DOMAIN trick : trick[i].seat = q
      BY <2>3 DEF HasPlayed
    <3>3. HasPlayed(g, q) <=> \E i \in 1 .. Len(g.trick) : trick[i].seat = q
      BY <1>6 DEF HasPlayed
    <3>4. \A i \in 1 .. Len(trick) : i \in 1 .. Len(g.trick) \/ i = Len(g.trick) + 1
      BY <1>6
    <3> QED  BY <1>6, <3>1, <3>2, <3>3, <3>4
  <2>8. HandsCounted(on)
    <3>1. ~ HasPlayed(g, s)
      BY <1>1, <1>2, PlayedBefore
    <3>2. TricksTaken(g) \in Nat /\ MaxBid \in Nat /\ \A q \in Seats : Len(g.hands[q]) \in Nat
      BY <1>1, <1>3, TricksAre, RulesAssumption
    <3>3. ASSUME NEW q \in Seats
          PROVE  Len(on.hands[q]) = MaxBid - TricksTaken(on) - (IF HasPlayed(on, q) THEN 1 ELSE 0)
      <4>1. Len(g.hands[q]) = MaxBid - TricksTaken(g) - (IF HasPlayed(g, q) THEN 1 ELSE 0)
        BY <1>2 DEF HandsCounted
      <4>2. Len(on.hands[q]) = Len(g.hands[q]) - (IF q = s THEN 1 ELSE 0)
        BY <1>5, <2>3
      <4> QED  BY <4>1, <4>2, <3>1, <3>2, <2>4, <2>7
    <3> QED  BY <3>3 DEF HandsCounted
  <2>9. TurnKept(on)
    <3>1. ASSUME NEW i \in DOMAIN on.trick
          PROVE  on.trick[i].seat = (on.turn + 3 + i - Len(on.trick)) % 4
      <4>1. on.turn = (s + 1) % 4 /\ s \in 0 .. 3
        BY <2>3 DEF NextSeat, Seats
      <4>2. i \in 1 .. Len(g.trick) \/ i = Len(g.trick) + 1
        BY <1>6, <2>3
      <4>3. CASE i \in 1 .. Len(g.trick)
        <5>1. on.trick[i].seat = (s + 3 + i - Len(g.trick)) % 4
          BY <4>3, <1>1, <1>2, <1>6, <2>3 DEF TurnKept
        <5>2. \A t \in 0 .. 3, d \in 0 .. 2 : (((t + 1) % 4) + 3 - (d + 1)) % 4 = (t + 3 - d) % 4
          OBVIOUS
        <5> DEFINE d == Len(g.trick) - i
        <5>3. /\ d \in 0 .. 2 /\ s + 3 + i - Len(g.trick) = s + 3 - d
              /\ on.turn + 3 + i - Len(on.trick) = ((s + 1) % 4) + 3 - (d + 1)
          <6>1. Len(on.trick) = Len(g.trick) + 1
            BY <1>6, <2>3
          <6>2. Len(g.trick) \in 0 .. 3 /\ Len(g.trick) + 1 < 4
            BY <1>6, <1>11
          <6> DEFINE n == Len(g.trick)
          <6>3. n \in 0 .. 3 /\ n + 1 < 4 /\ i \in 1 .. n /\ Len(on.trick) = n + 1 /\ d = n - i
            BY <6>1, <6>2, <4>3
          <6> HIDE DEF n, d
          <6>4. /\ d \in 0 .. 2 /\ s + 3 + i - n = s + 3 - d
                /\ on.turn + 3 + i - Len(on.trick) = ((s + 1) % 4) + 3 - (d + 1)
            BY <6>3, <4>1
          <6> QED  BY <6>4, Zenon DEF n
        <5> HIDE DEF d
        <5> QED  BY <5>1, <5>2, <5>3, <4>1
      <4>4. CASE i = Len(g.trick) + 1
        BY <4>1, <4>4, <1>6, <2>3 DEF play
      <4> QED  BY <4>2, <4>3, <4>4
    <3> QED  BY <3>1, <2>2, <2>3, <2>4, <1>2 DEF TurnKept
  <2>10. GameKept(on)
    BY <2>3, <2>4, <2>6, <2>8, <2>9, <1>11 DEF GameKept
  <2>11. LaidDown(g, s, c, on)
    BY <2>3, <1>6, <1>11 DEF LaidDown, trick, play
  <2> QED  BY <2>1, <2>3, <2>10, <2>11 DEF h
<1>12. CASE ~ (Len(trick) < 4)
  <2>1. Len(g.trick) = 3 /\ Len(trick) = 4
    BY <1>6, <1>12
  <2>2. winner \in Seats
    <3>1. PICK best : BestOf(trick, 4, best) /\ winner = best.seat
      BY <1>6, <2>1, WinnerIsBest
    <3>2. best \in Plays
      BY <3>1, <1>6, <2>1, PlaysOf DEF BestOf
    <3> QED  BY <3>1, <3>2 DEF Plays
  <2> HIDE DEF winner
  <2>3. /\ taken \in Games /\ taken.version = g.version + 1 /\ taken.hands = hands
        /\ taken.phase = "PLAYING" /\ taken.bids = g.bids
        /\ taken.won = [g.won EXCEPT ![winner] = @ + 1] /\ taken.hand = g.hand
        /\ taken.score = g.score /\ taken.bags = g.bags /\ taken.timeouts = g.timeouts
        /\ taken.trick = <<>> /\ taken.turn = winner
    <3>1. g.won \in [Seats -> Nat]
      BY <1>1 DEF Games
    <3>2. [g.won EXCEPT ![winner] = @ + 1] \in [Seats -> Nat]
      BY <3>1, <2>2
    <3>3. <<>> \in Seq(Plays)
      OBVIOUS
    <3> QED  BY <1>1, <1>10, <2>2, <3>2, <3>3 DEF Games
  <2> HIDE DEF taken
  <2>4. TricksTaken(taken) = TricksTaken(g) + 1 /\ TricksTaken(g) \in Nat
    <3>1. winner = 0 \/ winner = 1 \/ winner = 2 \/ winner = 3
      BY <2>2 DEF Seats
    <3>2. g.won \in [Seats -> Nat] /\ Seats = {0, 1, 2, 3}
      BY <1>1, SeatsFinite DEF Games
    <3>3. \A q \in Seats : taken.won[q] = g.won[q] + (IF q = winner THEN 1 ELSE 0) /\ g.won[q] \in Nat
      BY <2>3, <3>2
    <3>4. /\ TricksTaken(g) = g.won[0] + g.won[1] + g.won[2] + g.won[3]
          /\ TricksTaken(taken) = taken.won[0] + taken.won[1] + taken.won[2] + taken.won[3]
      BY <1>1, <2>3, TricksAre
    <3> QED  BY <3>1, <3>2, <3>3, <3>4
  <2>5. ASSUME NEW q \in Seats PROVE Len(hands[q]) = MaxBid - TricksTaken(taken)
    <3>1. HasPlayed(g, q) <=> q # s
      BY <1>1, <1>2, <2>1, PlayedBefore
    <3>2. MaxBid \in Nat /\ Len(g.hands[q]) \in Nat
      BY <1>3, RulesAssumption
    <3>3. Len(g.hands[q]) = MaxBid - TricksTaken(g) - (IF HasPlayed(g, q) THEN 1 ELSE 0)
      BY <1>2 DEF HandsCounted
    <3>4. Len(hands[q]) = Len(g.hands[q]) - (IF q = s THEN 1 ELSE 0)
      BY <1>5
    <3> QED  BY <3>1, <3>2, <3>3, <3>4, <2>4
  <2>6. TricksTaken(taken) <= MaxBid /\ \A q \in Seats : g.timeouts[q] < MaxTimeouts
    <3>1. TricksTaken(g) < MaxBid /\ \A q \in Seats : g.timeouts[q] < MaxTimeouts
      BY <1>2 DEF TurnKept
    <3>2. MaxBid \in Nat
      BY RulesAssumption
    <3> QED  BY <3>1, <3>2, <2>4
  <2>7. \A t \in Sides : BagsShown(taken.score[t], taken.bags[t])
    BY <2>3 DEF GameKept
  <2>8. CASE \A q \in Seats : hands[q] = <<>>
    <3>1. h = FinishHand(taken, deck)
      BY <1>9, <1>12, <2>8
    <3>2. \A q \in Seats : taken.timeouts[q] < MaxTimeouts
      BY <2>3, <2>6
    <3>3. LET n == FinishHand(taken, deck)
          IN  /\ GameKept(n) /\ n.version = taken.version /\ n.timeouts = taken.timeouts
              /\ \/ n.phase = "COMPLETED" /\ n.hand = taken.hand /\ n.bids = taken.bids
                 \/ /\ n.phase = "BIDDING" /\ n.hand = taken.hand + 1
                    /\ n.bids = [q \in Seats |-> NoBid] /\ n.won = [q \in Seats |-> 0]
                    /\ n.trick = <<>>
      BY <2>3, <2>6, <2>7, <3>2, FinishKept
    <3> QED  BY <3>1, <3>3, <2>1, <2>3 DEF h, HandOver
  <2>9. CASE ~ \A q \in Seats : hands[q] = <<>>
    <3>1. h = taken
      BY <1>9, <1>12, <2>9
    <3>2. PICK q \in Seats : hands[q] # <<>>
      BY <2>9
    <3>3. TricksTaken(taken) < MaxBid
      <4>1. hands[q] \in Seq(Deck) /\ MaxBid \in Nat
        BY <1>5, RulesAssumption
      <4>2. Len(hands[q]) > 0
        BY <4>1, <3>2
      <4> QED  BY <4>1, <4>2, <2>4, <2>5
    <3>4. OnTable(taken) = {} /\ (\A r : ~ HasPlayed(taken, r)) /\ DOMAIN taken.trick = {}
          /\ Len(taken.trick) = 0
      BY <2>3 DEF OnTable, HasPlayed
    <3>5. CardsApart(taken)
      <4>1. \A r, p \in Seats : r # p => ToSet(hands[r]) \cap ToSet(hands[p]) = {}
        <5>1. \A r, p \in Seats : r # p => ToSet(g.hands[r]) \cap ToSet(g.hands[p]) = {}
          BY <1>2 DEF CardsApart
        <5>2. \A r \in Seats : ToSet(hands[r]) \subseteq ToSet(g.hands[r])
          BY <1>5
        <5> QED  BY <5>1, <5>2
      <4> QED  BY <4>1, <1>5, <2>3, <3>4 DEF CardsApart
    <3>6. HandsCounted(taken)
      BY <2>3, <2>4, <2>5, <3>4, RulesAssumption DEF HandsCounted
    <3>7. TurnKept(taken)
      BY <2>2, <2>3, <2>6, <3>3, <3>4 DEF TurnKept
    <3>8. \A r \in Seats : taken.timeouts[r] <= MaxTimeouts
      BY <2>3 DEF GameKept
    <3>9. GameKept(taken)
      BY <2>3, <2>6, <2>7, <3>4, <3>5, <3>6, <3>7, <3>8 DEF GameKept
    <3>10. TrickTaken(g, s, c, taken)
      BY <2>1, <2>3 DEF TrickTaken, winner, trick, play
    <3> QED  BY <3>1, <3>9, <3>10, <2>3 DEF h
  <2> QED  BY <2>8, <2>9
<1> QED  BY <1>11, <1>12
-----------------------------------------------------------------------------
(* Forfeits, timeouts and the first hand.                                    *)

(* forfeitMatch.                                                             *)
LEMMA ForfeitKept ==
  ASSUME NEW g, GameKept(g), Live(g), NEW s \in Seats
  PROVE  LET h == ForfeitMatch(g, s)
         IN  /\ GameKept(h) /\ h.version = g.version + 1 /\ h.hand = g.hand /\ h.bids = g.bids
             /\ h.timeouts = g.timeouts /\ h.phase = "FORFEITED"
<1> DEFINE h == ForfeitMatch(g, s)
<1>1. g \in Games /\ CardsApart(g) /\ HandsCounted(g)
  BY DEF GameKept, Live
<1>2. 1 - SideOf(s) \in Sides
  BY DEF Sides, Seats, SideOf
<1>3. /\ h \in Games /\ h.version = g.version + 1 /\ h.hand = g.hand /\ h.bids = g.bids
      /\ h.hands = g.hands /\ h.trick = g.trick /\ h.won = g.won /\ h.score = g.score
      /\ h.bags = g.bags /\ h.timeouts = g.timeouts /\ h.phase = "FORFEITED"
  <2>1. h = [g EXCEPT !.version = g.version + 1, !.phase = "FORFEITED", !.turn = NoSeat,
                      !.winner = 1 - SideOf(s)]
    BY <1>1 DEF ForfeitMatch, Games
  <2>2. g.version + 1 \in Nat \ {0} /\ "FORFEITED" \in Phases
    BY <1>1 DEF Games, Phases
  <2> HIDE DEF h
  <2> QED  BY <1>1, <1>2, <2>1, <2>2 DEF Games
<1> HIDE DEF h
<1>4. CardsApart(h) /\ HandsCounted(h) /\ TricksTaken(h) = TricksTaken(g)
  BY <1>1, <1>3, SameCards DEF TricksTaken
<1>5. GameKept(h)
  BY <1>3, <1>4 DEF GameKept, Live
<1> QED  BY <1>3, <1>5 DEF h

(* Counting a timeout disturbs nothing else.                                 *)
LEMMA TimeoutsSet ==
  ASSUME NEW g, GameKept(g), NEW s \in Seats, NEW n \in Nat, n <= MaxTimeouts,
         Live(g) => n < MaxTimeouts
  PROVE  LET h == [g EXCEPT !.timeouts[s] = n]
         IN  /\ GameKept(h) /\ h.version = g.version /\ h.hand = g.hand /\ h.bids = g.bids
             /\ h.phase = g.phase
<1> DEFINE h == [g EXCEPT !.timeouts[s] = n]
<1>1. g \in Games
  BY DEF GameKept
<1>2. /\ h.version = g.version /\ h.hand = g.hand /\ h.bids = g.bids
      /\ h.hands = g.hands /\ h.trick = g.trick /\ h.won = g.won /\ h.score = g.score
      /\ h.bags = g.bags /\ h.timeouts = [g.timeouts EXCEPT ![s] = n] /\ h.phase = g.phase
      /\ h.turn = g.turn
  BY <1>1 DEF Games
<1>3. g.timeouts \in [Seats -> Nat] /\ [g.timeouts EXCEPT ![s] = n] \in [Seats -> Nat]
  BY <1>1 DEF Games
<1>4. h \in Games
  <2>1. h = [g EXCEPT !.timeouts = [g.timeouts EXCEPT ![s] = n]]
    BY <1>1 DEF Games
  <2> HIDE DEF h
  <2> QED  BY <1>1, <1>3, <2>1 DEF Games
<1> HIDE DEF h
<1>5. \A q \in Seats : h.timeouts[q] = IF q = s THEN n ELSE g.timeouts[q]
  BY <1>2, <1>3
<1>6. TricksTaken(h) = TricksTaken(g)
  BY <1>2 DEF TricksTaken
<1>7. Live(h) => TurnKept(h)
  BY <1>2, <1>5, <1>6 DEF GameKept, TurnKept, Live
<1>8. h.phase # "COMPLETED" => CardsApart(h) /\ HandsCounted(h)
  BY <1>2, SameCards DEF GameKept
<1>9. GameKept(h)
  BY <1>2, <1>4, <1>5, <1>6, <1>7, <1>8 DEF GameKept
<1> QED  BY <1>2, <1>9 DEF h

(* A turn that timed out is a bid of one, the first legal card or, the third *)
(* time, a forfeit: there always is a card.                                  *)
LEMMA TimeoutKept ==
  ASSUME NEW g, GameKept(g), Live(g), NEW deck \in Shuffles
  PROVE  LET h == ApplyTurnTimeout(g, deck)
         IN  /\ GameKept(h) /\ h.version = g.version + 1
             /\ \/ h.hand = g.hand /\ h.bids = g.bids
                \/ h.hand = g.hand + 1 /\ h.bids = [q \in Seats |-> NoBid]
                \/ h.hand = g.hand /\ h.bids = [g.bids EXCEPT ![g.turn] = [amount |-> 1, blind |-> FALSE]]
<1> DEFINE s     == g.turn
           count == g.timeouts[s] + 1
           one   == [amount |-> 1, blind |-> FALSE]
           first == LegalCards(g, s)[1]
           next  == IF GivesUp(count) THEN ForfeitMatch(g, s)
                    ELSE IF g.phase = "BIDDING" THEN PlaceBid(g, s, one)
                    ELSE PlayCard(g, s, first, deck)
           Fate  == \/ next.hand = g.hand /\ next.bids = g.bids
                    \/ next.hand = g.hand + 1 /\ next.bids = [q \in Seats |-> NoBid]
                    \/ next.hand = g.hand /\ next.bids = [g.bids EXCEPT ![s] = one]
<1>1. g \in Games /\ TurnKept(g) /\ HandsCounted(g) /\ Len(g.trick) < 4
  BY DEF GameKept, Live
<1>2. s \in Seats /\ g.timeouts[s] \in Nat /\ g.timeouts[s] < MaxTimeouts /\ MaxTimeouts \in Nat
  BY <1>1, RulesAssumption DEF TurnKept, Games
<1>3. count \in Nat /\ count <= MaxTimeouts
  BY <1>2
<1>4. ApplyTurnTimeout(g, deck) = [next EXCEPT !.timeouts[s] = count]
  BY Zenon DEF ApplyTurnTimeout
<1>5. /\ GameKept(next) /\ next.version = g.version + 1 /\ Fate
      /\ Live(next) => count < MaxTimeouts
  <2>1. CASE GivesUp(count)
    <3>1. next = ForfeitMatch(g, s)
      BY <2>1
    <3> HIDE DEF next, s
    <3> QED  BY <1>2, <3>1, ForfeitKept DEF Live, s
  <2>2. CASE ~ GivesUp(count) /\ g.phase = "BIDDING"
    <3>1. next = PlaceBid(g, s, one)
      BY <2>2
    <3>2. one \in Bids
      BY RulesAssumption DEF Bids
    <3>3. count < MaxTimeouts
      BY <2>2, <1>2, <1>3 DEF GivesUp
    <3> HIDE DEF next, one, count
    <3> QED  BY <1>2, <2>2, <3>1, <3>2, <3>3, BidKept
  <2>3. CASE ~ GivesUp(count) /\ g.phase # "BIDDING"
    <3>1. next = PlayCard(g, s, first, deck) /\ g.phase = "PLAYING"
      BY <2>3 DEF Live
    <3>2. g.hands[s] \in Seq(Deck) /\ TricksTaken(g) \in Nat /\ MaxBid \in Nat
      BY <1>1, <1>2, TricksAre, RulesAssumption DEF Games
    <3>3. ~ HasPlayed(g, s)
      BY <1>1, PlayedBefore
    <3>4. Len(g.hands[s]) = MaxBid - TricksTaken(g) /\ TricksTaken(g) < MaxBid
      BY <1>1, <1>2, <3>2, <3>3 DEF HandsCounted, TurnKept
    <3>5. g.hands[s] # <<>>
      BY <3>2, <3>4
    <3>6. LegalCards(g, s) \in Seq(Deck) /\ LegalCards(g, s) # <<>>
      BY <1>1, <1>2, <3>1, <3>5, LegalHeld
    <3>7. CanPlay(g, s, first)
      <4> DEFINE legal == LegalCards(g, s)
      <4>1. 1 \in DOMAIN legal
        <5>1. legal \in Seq(Deck) /\ legal # <<>>
          BY <3>6
        <5> HIDE DEF legal
        <5> QED  BY <5>1
      <4> QED  BY <4>1 DEF CanPlay, ToSet
    <3>8. count < MaxTimeouts
      BY <2>3, <1>2, <1>3 DEF GivesUp
    <3> HIDE DEF next, first, count, s
    <3>9. /\ GameKept(next) /\ next.version = g.version + 1
          /\ LaidDown(g, s, first, next) \/ TrickTaken(g, s, first, next) \/ HandOver(g, next)
      BY <1>2, <3>1, <3>7, PlayKept
    <3> QED  BY <3>8, <3>9 DEF LaidDown, TrickTaken, HandOver
  <2> QED  BY <2>1, <2>2, <2>3
<1> HIDE DEF next, count, s
<1> DEFINE h == [next EXCEPT !.timeouts[s] = count]
<1>6. /\ GameKept(h) /\ h.version = next.version /\ h.hand = next.hand /\ h.bids = next.bids
  BY <1>2, <1>3, <1>5, TimeoutsSet
<1> HIDE DEF h
<1>7. ApplyTurnTimeout(g, deck) = h
  BY <1>4 DEF h
<1> QED  BY <1>5, <1>6, <1>7 DEF s

(* createSpadesState.                                                        *)
LEMMA OpeningKept ==
  ASSUME NEW deck \in Shuffles
  PROVE  LET h == CreateSpadesState(deck)
         IN  GameKept(h) /\ h.version = 1 /\ h.hand = 1
<1> DEFINE h == CreateSpadesState(deck)
<1>1. 0 \in Seats /\ NextSeat(0) \in Seats
  BY DEF Seats, NextSeat
<1>2. Dealt(deck, 0) \in [Seats -> Seq(Deck)]
  BY <1>1, DealApart
<1>3. h \in Games
  <2>1. /\ "BIDDING" \in Phases /\ <<>> \in Seq(Plays) /\ 1 \in Nat \ {0} /\ NoSeat \in Sides \cup {NoSeat}
        /\ [s \in Seats |-> NoBid] \in [Seats -> Bids \cup {NoBid}] /\ [s \in Seats |-> 0] \in [Seats -> Nat]
        /\ [t \in Sides |-> 0] \in [Sides -> Int] /\ [t \in Sides |-> 0] \in [Sides -> Nat]
    BY DEF Phases
  <2> QED  BY <1>1, <1>2, <2>1 DEF Games, CreateSpadesState
<1>4. /\ h.phase = "BIDDING" /\ h.trick = <<>> /\ h.won = [s \in Seats |-> 0]
      /\ h.hands = Dealt(deck, 0) /\ h.turn = NextSeat(0) /\ h.version = 1 /\ h.hand = 1
      /\ \A s \in Seats : h.timeouts[s] = 0
      /\ \A t \in Sides : h.score[t] = 0 /\ h.bags[t] = 0
  BY DEF CreateSpadesState
<1> HIDE DEF h
<1>5. \A s \in Seats : h.timeouts[s] < MaxTimeouts
  BY <1>4, RulesAssumption
<1>6. BagsShown(0, 0)
  <2>1. 0 - 0 = 0 * TrickPoints /\ 0 < BagPenaltyAt
    BY RulesAre
  <2> QED  BY <2>1 DEF BagsShown
<1>7. GameKept(h)
  BY <1>1, <1>3, <1>4, <1>5, <1>6, DealtKept
<1> QED  BY <1>4, <1>7 DEF h
-----------------------------------------------------------------------------
(* The server keeps the game.                                                *)

(* What a command that goes through has done: the game is one version on,    *)
(* and a bid of blind nil is from a seat that has not been shown the hand.   *)
Committed ==
    /\ GameKept(game') /\ game'.version = game.version + 1
    /\ game.hand <= game'.hand /\ game'.hand <= MaxHands
    /\ delayed \/ game'.hand = game.hand \/ \A s \in Seats : reading[s] = {}
    /\ Live(game') \/ ruling = 0
    /\ late' = FALSE /\ log' = log \cup {game'.version}
    /\ UNCHANGED <<seatVars, ruling, delayed>>
    /\ \A s \in Seats : BidsBlind(s) => revealed[s] < game.hand

(* A bid by one seat, a new hand or none is no blind bid of another seat.    *)
LEMMA NoneBlind ==
  ASSUME TableInv, NEW q \in Seats, NEW bid \in Bids,
         \/ game'.bids = game.bids
         \/ game'.bids = [s \in Seats |-> NoBid]
         \/ game'.bids = [game.bids EXCEPT ![q] = bid]
  PROVE  \A s \in Seats : BidsBlind(s) => s = q /\ bid.blind
<1>1. game.bids \in [Seats -> Bids \cup {NoBid}]
  BY DEF TableInv, GameKept, Games
<1>2. NoBid.blind = FALSE
  BY DEF NoBid
<1> SUFFICES ASSUME NEW s \in Seats, game.bids[s] = NoBid, game'.bids[s].blind
             PROVE  s = q /\ bid.blind
  BY DEF BidsBlind
<1>3. CASE game'.bids = game.bids
  BY <1>2, <1>3
<1>4. CASE game'.bids = [p \in Seats |-> NoBid]
  BY <1>2, <1>4
<1>5. CASE game'.bids = [game.bids EXCEPT ![q] = bid]
  BY <1>1, <1>2, <1>5
<1> QED  BY <1>3, <1>4, <1>5

(* The commands of a player.                                                 *)
LEMMA BidCommits ==
  ASSUME TableInv, NEW s \in Seats, NEW bid \in MayBid[s], Bid(s, bid)
  PROVE  Committed
<1>1. GameKept(game) /\ bid \in Bids /\ game.phase = "BIDDING" /\ game.turn = s
  BY PlayersAssumption DEF TableInv, Bid, CanBid
<1> DEFINE next == PlaceBid(game, s, bid)
<1>2. /\ GameKept(next) /\ next.version = game.version + 1 /\ next.hand = game.hand
      /\ next.bids = [game.bids EXCEPT ![s] = bid]
  BY <1>1, BidKept
<1>3. Commit(next) /\ (bid.blind => MayBlind(s))
  BY DEF Bid
<1> HIDE DEF next
<1>4. game' = next
  BY <1>3 DEF Commit
<1>5. \A q \in Seats : BidsBlind(q) => revealed[q] < game.hand
  <2>1. \A q \in Seats : BidsBlind(q) => q = s /\ bid.blind
    BY <1>1, <1>2, <1>4, NoneBlind
  <2> QED  BY <2>1, <1>3 DEF MayBlind
<1>6. game.hand \in Nat
  BY <1>1 DEF GameKept, Games
<1> QED  BY <1>2, <1>3, <1>4, <1>5, <1>6 DEF Commit, Committed

LEMMA PlayCommits ==
  ASSUME TableInv, NEW s \in Seats, NEW c, NEW deck \in Shuffles, Play(s, c, deck)
  PROVE  Committed
<1>1. GameKept(game) /\ CanPlay(game, s, c)
  BY DEF TableInv, Play
<1> DEFINE next == PlayCard(game, s, c, deck)
<1>2. /\ GameKept(next) /\ next.version = game.version + 1
      /\ \/ next.hand = game.hand /\ next.bids = game.bids
         \/ next.hand = game.hand + 1 /\ next.bids = [q \in Seats |-> NoBid]
  <2>1. /\ GameKept(next) /\ next.version = game.version + 1
        /\ LaidDown(game, s, c, next) \/ TrickTaken(game, s, c, next) \/ HandOver(game, next)
    BY <1>1, PlayKept
  <2> HIDE DEF next
  <2> QED  BY <2>1 DEF LaidDown, TrickTaken, HandOver
<1>3. Commit(next)
  BY DEF Play
<1> HIDE DEF next
<1>4. game' = next
  BY <1>3 DEF Commit
<1>5. \A q \in Seats : ~ BidsBlind(q)
  <2> DEFINE bid == [amount |-> 0, blind |-> FALSE]
  <2>1. bid \in Bids /\ ~ bid.blind
    BY RulesAssumption DEF Bids
  <2> HIDE DEF bid
  <2> QED  BY <2>1, <1>2, <1>4, NoneBlind
<1>6. game.hand \in Nat
  BY <1>1 DEF GameKept, Games
<1> QED  BY <1>2, <1>3, <1>4, <1>5, <1>6 DEF Commit, Committed

LEMMA TimeoutCommits ==
  ASSUME TableInv, NEW deck \in Shuffles, ClaimTimeout(deck)
  PROVE  Committed
<1>1. GameKept(game) /\ Live(game) /\ game.turn \in Seats
  BY DEF TableInv, ClaimTimeout, GameKept, TurnKept
<1> DEFINE next == ApplyTurnTimeout(game, deck)
           bid == [amount |-> 1, blind |-> FALSE]
<1>2. /\ GameKept(next) /\ next.version = game.version + 1
      /\ \/ next.hand = game.hand /\ next.bids = game.bids
         \/ next.hand = game.hand + 1 /\ next.bids = [q \in Seats |-> NoBid]
         \/ next.hand = game.hand /\ next.bids = [game.bids EXCEPT ![game.turn] = bid]
  BY <1>1, TimeoutKept
<1>3. Commit(next)
  BY DEF ClaimTimeout
<1> HIDE DEF next
<1>4. game' = next
  BY <1>3 DEF Commit
<1>5. \A q \in Seats : ~ BidsBlind(q)
  <2>1. bid \in Bids /\ ~ bid.blind
    BY RulesAssumption DEF Bids
  <2>2. PICK s \in Seats : s = game.turn
    BY <1>1
  <2> HIDE DEF bid
  <2>3. \/ game'.bids = game.bids
        \/ game'.bids = [q \in Seats |-> NoBid]
        \/ game'.bids = [game.bids EXCEPT ![s] = bid]
    BY <1>2, <1>4, <2>2
  <2> QED  BY <2>1, <2>3, NoneBlind
<1>6. game.hand \in Nat
  BY <1>1 DEF GameKept, Games
<1> QED  BY <1>2, <1>3, <1>4, <1>5, <1>6 DEF Commit, Committed

LEMMA ForfeitCommits ==
  ASSUME TableInv, NEW s \in Seats, Forfeit(s)
  PROVE  Committed
<1>1. GameKept(game) /\ Live(game)
  BY DEF TableInv, Forfeit, CanForfeit
<1> DEFINE next == ForfeitMatch(game, s)
<1>2. /\ GameKept(next) /\ next.version = game.version + 1 /\ next.hand = game.hand
      /\ next.bids = game.bids
  BY <1>1, ForfeitKept
<1>3. Commit(next)
  BY DEF Forfeit
<1> HIDE DEF next
<1>4. game' = next
  BY <1>3 DEF Commit
<1>5. \A q \in Seats : ~ BidsBlind(q)
  <2> DEFINE bid == [amount |-> 0, blind |-> FALSE]
  <2>1. bid \in Bids /\ ~ bid.blind
    BY RulesAssumption DEF Bids
  <2> HIDE DEF bid
  <2> QED  BY <2>1, <1>2, <1>4, NoneBlind
<1>6. game.hand \in Nat
  BY <1>1 DEF GameKept, Games
<1> QED  BY <1>2, <1>3, <1>4, <1>5, <1>6 DEF Commit, Committed

(* A command that goes through keeps the table in order.                     *)
LEMMA CommitsKeep ==
  ASSUME TableInv, RevealsPrompt, Committed
  PROVE  TableInv' /\ RevealsPrompt'
<1>1. /\ game.version \in Nat \ {0} /\ game'.version = game.version + 1 /\ game.hand \in Nat
      /\ game'.hand \in Nat
  BY DEF TableInv, Committed, GameKept, Games
<1>2. log' = 1 .. game'.version
  <2>1. log = 1 .. game.version /\ log' = log \cup {game.version + 1}
    BY <1>1 DEF TableInv, Committed
  <2>2. \A v \in Nat \ {0} : 1 .. v + 1 = (1 .. v) \cup {v + 1}
    OBVIOUS
  <2> QED  BY <1>1, <2>1, <2>2
<1>3. ruling' \in 0 .. game'.version /\ (ruling' # 0 => Live(game'))
  BY <1>1 DEF TableInv, Committed
<1>4. /\ revealed' \in [Seats -> 0 .. MaxHands] /\ shown' \in [Seats -> 0 .. MaxHands]
      /\ reading' \in [Seats -> SUBSET (1 .. MaxHands)] /\ late' \in BOOLEAN /\ delayed' \in Delays
  BY DEF TableInv, Committed, seatVars
<1>5. TableInv'
  BY <1>2, <1>3, <1>4 DEF TableInv, Committed
<1>6. RevealsPrompt'
  <2> SUFFICES ASSUME ~ delayed, NEW s \in Seats
               PROVE  /\ reading[s] \subseteq {game'.hand}
                      /\ shown[s] = revealed[s] /\ revealed[s] <= game'.hand
    BY DEF RevealsPrompt, Committed, seatVars
  <2>1. reading[s] \subseteq {game.hand} /\ shown[s] = revealed[s] /\ revealed[s] <= game.hand
    BY DEF RevealsPrompt
  <2>2. game'.hand = game.hand \/ reading[s] = {}
    BY DEF Committed
  <2>3. revealed[s] \in Nat /\ game.hand <= game'.hand
    BY PlayersAssumption DEF TableInv, Committed
  <2> QED  BY <2>1, <2>2, <2>3, <1>1
<1> QED  BY <1>5, <1>6

(* The larger of two numbers.                                                *)
LEMMA MaxIs ==
  ASSUME NEW m \in Nat, NEW n \in Nat
  PROVE  Max({m, n}) = IF n > m THEN n ELSE m
<1> DEFINE top == IF n > m THEN n ELSE m
<1>1. top \in {m, n} /\ \A y \in {m, n} : top >= y
  OBVIOUS
<1>2. \A x \in {m, n} : (\A y \in {m, n} : x >= y) => x = top
  OBVIOUS
<1> HIDE DEF top
<1>3. (CHOOSE x \in {m, n} : \A y \in {m, n} : x >= y) = top
  BY <1>1, <1>2
<1> QED  BY <1>3 DEF Max, top

(* Whatever leaves the game as it is.                                        *)
LEMMA QuietKeeps ==
  ASSUME TableInv, UNCHANGED <<game, log, delayed>>, late' \in BOOLEAN,
         revealed' \in [Seats -> 0 .. MaxHands], shown' \in [Seats -> 0 .. MaxHands],
         reading' \in [Seats -> SUBSET (1 .. MaxHands)],
         ruling' \in 0 .. game.version, ruling' # 0 => Live(game)
  PROVE  TableInv'
BY DEF TableInv

(* revealHand, which takes no lock.                                          *)
LEMMA RevealKeeps ==
  ASSUME TableInv, RevealsPrompt, NEW s \in Seats,
         RevealRead(s) \/ \E n \in 1 .. MaxHands : RevealWrite(s, n)
  PROVE  TableInv' /\ RevealsPrompt'
<1>1. /\ revealed \in [Seats -> 0 .. MaxHands] /\ shown \in [Seats -> 0 .. MaxHands]
      /\ reading \in [Seats -> SUBSET (1 .. MaxHands)] /\ MaxHands \in Nat /\ late \in BOOLEAN
      /\ game.hand \in 1 .. MaxHands /\ ruling \in 0 .. game.version /\ (ruling # 0 => Live(game))
  <2>1. game.hand \in Nat \ {0} /\ game.hand <= MaxHands /\ MaxHands \in Nat
    BY PlayersAssumption DEF TableInv, GameKept, Games
  <2> QED  BY <2>1 DEF TableInv
<1>2. CASE RevealRead(s)
  <2>1. /\ reading' = [reading EXCEPT ![s] = @ \cup {game.hand}]
        /\ UNCHANGED <<game, late, log, revealed, shown, ruling, delayed>>
    BY <1>2 DEF RevealRead
  <2>2. reading' \in [Seats -> SUBSET (1 .. MaxHands)]
    BY <1>1, <2>1
  <2>3. TableInv'
    BY <1>1, <2>1, <2>2, QuietKeeps
  <2>4. RevealsPrompt'
    BY <1>1, <2>1 DEF RevealsPrompt
  <2> QED  BY <2>3, <2>4
<1>3. CASE \E n \in 1 .. MaxHands : RevealWrite(s, n)
  <2>1. PICK n \in 1 .. MaxHands : RevealWrite(s, n)
    BY <1>3
  <2>2. /\ n \in reading[s]
        /\ reading' = [reading EXCEPT ![s] = @ \ {n}]
        /\ revealed' = [revealed EXCEPT ![s] = n]
        /\ shown' = [shown EXCEPT ![s] = Max({@, n})]
        /\ UNCHANGED <<game, late, log, ruling, delayed>>
    BY <2>1 DEF RevealWrite
  <2>3. shown[s] \in Nat /\ n \in Nat
    BY <1>1
  <2>4. Max({shown[s], n}) = IF n > shown[s] THEN n ELSE shown[s]
    BY <2>3, MaxIs
  <2>5. /\ revealed' \in [Seats -> 0 .. MaxHands] /\ shown' \in [Seats -> 0 .. MaxHands]
        /\ reading' \in [Seats -> SUBSET (1 .. MaxHands)]
    BY <1>1, <2>2, <2>4
  <2>6. TableInv'
    BY <1>1, <2>2, <2>5, QuietKeeps
  <2>7. RevealsPrompt'
    <3> SUFFICES ASSUME ~ delayed, NEW q \in Seats
                 PROVE  /\ reading'[q] \subseteq {game.hand}
                        /\ shown'[q] = revealed'[q] /\ revealed'[q] <= game.hand
      BY <2>2 DEF RevealsPrompt
    <3>1. reading[q] \subseteq {game.hand} /\ shown[q] = revealed[q] /\ revealed[q] <= game.hand
      BY DEF RevealsPrompt
    <3>2. CASE q = s
      <4>1. n = game.hand /\ shown[s] <= n
        BY <2>2, <3>1, <3>2
      <4>2. shown'[s] = Max({shown[s], n}) /\ revealed'[s] = n /\ reading'[s] \subseteq reading[s]
        BY <1>1, <2>2
      <4> QED  BY <1>1, <2>3, <2>4, <3>1, <3>2, <4>1, <4>2
    <3>3. CASE q # s
      BY <1>1, <2>2, <3>1, <3>3
    <3> QED  BY <3>2, <3>3
  <2> QED  BY <2>6, <2>7
<1> QED  BY <1>2, <1>3

(* disqualifyPlayer, and a deadline that passes.                             *)
LEMMA RulingKeeps ==
  ASSUME TableInv, RevealsPrompt, RulingRead \/ RulingWrite \/ RulingAborts \/ DeadlinePasses
  PROVE  TableInv' /\ RevealsPrompt' /\ game'.bids = game.bids
<1>1. /\ revealed \in [Seats -> 0 .. MaxHands] /\ shown \in [Seats -> 0 .. MaxHands]
      /\ reading \in [Seats -> SUBSET (1 .. MaxHands)] /\ late \in BOOLEAN
      /\ game.version \in Nat \ {0} /\ ruling \in 0 .. game.version /\ (ruling # 0 => Live(game))
      /\ GameKept(game) /\ log = 1 .. game.version
  BY DEF TableInv, GameKept, Games
<1>2. CASE RulingRead \/ RulingAborts \/ DeadlinePasses
  <2>1. /\ UNCHANGED <<game, log, seatVars, delayed>> /\ late' \in BOOLEAN
        /\ ruling' \in 0 .. game.version /\ (ruling' # 0 => Live(game))
    <3>1. CASE RulingRead
      <4>1. ruling' = game.version /\ Live(game) /\ UNCHANGED <<game, late, log, seatVars, delayed>>
        BY <3>1 DEF RulingRead
      <4>2. game.version \in 0 .. game.version
        BY <1>1
      <4> QED  BY <1>1, <4>1, <4>2
    <3>2. CASE RulingAborts
      <4>1. ruling' = 0 /\ UNCHANGED <<game, late, log, seatVars, delayed>>
        BY <3>2 DEF RulingAborts
      <4>2. 0 \in 0 .. game.version
        BY <1>1
      <4> QED  BY <1>1, <4>1, <4>2
    <3>3. CASE DeadlinePasses
      BY <1>1, <3>3 DEF DeadlinePasses
    <3> QED  BY <1>2, <3>1, <3>2, <3>3
  <2>2. TableInv'
    BY <1>1, <2>1, QuietKeeps DEF seatVars
  <2>3. RevealsPrompt'
    BY <2>1 DEF RevealsPrompt, seatVars
  <2> QED  BY <2>1, <2>2, <2>3
<1>3. CASE RulingWrite
  <2>1. /\ ruling # 0 /\ ruling + 1 \notin log
        /\ game' = [ForfeitMatch(game, Suspect) EXCEPT !.version = ruling + 1]
        /\ log' = log \cup {ruling + 1} /\ late' = FALSE /\ ruling' = 0
        /\ UNCHANGED <<seatVars, delayed>>
    BY <1>3 DEF RulingWrite, Unlogged
  <2>2. ruling = game.version
    BY <1>1, <2>1
  <2> DEFINE next == ForfeitMatch(game, Suspect)
  <2>3. /\ GameKept(next) /\ next.version = game.version + 1 /\ next.hand = game.hand
        /\ next.bids = game.bids
    BY <1>1, <2>1, ForfeitKept, PlayersAssumption
  <2> HIDE DEF next
  <2>4. game' = [next EXCEPT !.version = ruling + 1]
    BY <2>1 DEF next
  <2>5. [next EXCEPT !.version = ruling + 1] = next
    BY <2>2, <2>3 DEF GameKept, Games
  <2>6. game' = next
    BY <2>4, <2>5
  <2>7. log' = 1 .. game'.version
    <3>1. \A v \in Nat \ {0} : 1 .. v + 1 = (1 .. v) \cup {v + 1}
      OBVIOUS
    <3> QED  BY <1>1, <2>1, <2>2, <2>3, <2>6, <3>1
  <2>8. /\ GameKept(game') /\ game'.hand <= MaxHands /\ ruling' \in 0 .. game'.version
        /\ delayed' \in Delays
    <3>1. game'.version \in Nat
      BY <1>1, <2>3, <2>6
    <3>2. game.hand <= MaxHands /\ delayed \in Delays
      BY DEF TableInv
    <3>3. GameKept(game') /\ game'.hand = game.hand
      BY <2>3, <2>6
    <3>4. ruling' \in 0 .. game'.version
      BY <2>1, <3>1
    <3>5. delayed' = delayed
      BY <2>1
    <3> QED  BY <3>2, <3>3, <3>4, <3>5
  <2>9. TableInv'
    BY <1>1, <2>1, <2>7, <2>8 DEF TableInv, seatVars
  <2>10. RevealsPrompt'
    BY <2>1, <2>3, <2>6 DEF RevealsPrompt, seatVars
  <2> QED  BY <2>3, <2>6, <2>9, <2>10
<1> QED  BY <1>2, <1>3

(* createMatch.                                                              *)
LEMMA TableOpens ==
  ASSUME Init
  PROVE  TableInv /\ RevealsPrompt
<1>1. PICK deck \in Shuffles : game = CreateSpadesState(deck)
  BY DEF Init
<1>2. GameKept(game) /\ game.version = 1 /\ game.hand = 1
  BY <1>1, OpeningKept
<1>3. MaxHands \in Nat \ {0}
  BY PlayersAssumption
<1>4. log = 1 .. game.version
  <2>1. 1 .. 1 = {1}
    OBVIOUS
  <2> QED  BY <1>2, <2>1 DEF Init
<1>5. /\ revealed \in [Seats -> 0 .. MaxHands] /\ shown \in [Seats -> 0 .. MaxHands]
      /\ reading \in [Seats -> SUBSET (1 .. MaxHands)] /\ late \in BOOLEAN /\ delayed \in Delays
      /\ ruling = 0 /\ \A s \in Seats : reading[s] = {} /\ shown[s] = revealed[s] /\ revealed[s] = 0
  <2>1. 0 \in 0 .. MaxHands
    BY <1>3
  <2>2. /\ revealed = [s \in Seats |-> 0] /\ shown = [s \in Seats |-> 0]
        /\ reading = [s \in Seats |-> {}] /\ late = FALSE /\ ruling = 0 /\ delayed \in Delays
    BY DEF Init
  <2> QED  BY <2>1, <2>2
<1>6. TableInv
  BY <1>2, <1>3, <1>4, <1>5 DEF TableInv
<1> QED  BY <1>2, <1>5, <1>6 DEF RevealsPrompt

(* A step keeps the table in order, and a blind bid comes from a seat whose  *)
(* row does not say that the hand has been revealed.                         *)
LEMMA TableStep ==
  ASSUME TableInv, RevealsPrompt, [Next]_vars
  PROVE  /\ TableInv' /\ RevealsPrompt'
         /\ \A s \in Seats : BidsBlind(s) => revealed[s] < game.hand
<1>1. CASE Committed
  BY <1>1, CommitsKeep DEF Committed
<1>2. ASSUME game'.bids = game.bids PROVE \A s \in Seats : ~ BidsBlind(s)
  <2> DEFINE bid == [amount |-> 0, blind |-> FALSE]
  <2>1. bid \in Bids /\ ~ bid.blind
    BY RulesAssumption DEF Bids
  <2> HIDE DEF bid
  <2>2. 0 \in Seats
    BY DEF Seats
  <2> QED  BY <1>2, <2>1, <2>2, NoneBlind
<1>3. ASSUME NEW s \in Seats, NEW bid \in MayBid[s], Bid(s, bid) PROVE Committed
  BY <1>3, BidCommits
<1>4. ASSUME NEW s \in Seats, NEW c, NEW deck \in Shuffles, Play(s, c, deck) PROVE Committed
  BY <1>4, PlayCommits
<1>5. ASSUME NEW deck \in Shuffles, ClaimTimeout(deck) PROVE Committed
  BY <1>5, TimeoutCommits
<1>6. ASSUME NEW s \in Seats, Forfeit(s) PROVE Committed
  BY <1>6, ForfeitCommits
<1>7. CASE RulingRead \/ RulingWrite \/ RulingAborts \/ DeadlinePasses
  BY <1>2, <1>7, RulingKeeps
<1>8. ASSUME NEW s \in Peekers, RevealRead(s) \/ \E n \in 1 .. MaxHands : RevealWrite(s, n)
      PROVE  TableInv' /\ RevealsPrompt' /\ game' = game
  <2>1. s \in Seats
    BY PlayersAssumption
  <2>2. game' = game
    BY <1>8 DEF RevealRead, RevealWrite
  <2> QED  BY <1>8, <2>1, <2>2, RevealKeeps
<1>9. CASE UNCHANGED vars
  BY <1>2, <1>9 DEF vars, seatVars, TableInv, RevealsPrompt
<1>10. ASSUME AnyOther
       PROVE  /\ TableInv' /\ RevealsPrompt'
              /\ \A s \in Seats : BidsBlind(s) => revealed[s] < game.hand
  BY <1>1, <1>2, <1>6, <1>7, <1>8, <1>10 DEF AnyOther
<1> QED  BY <1>1, <1>3, <1>4, <1>5, <1>9, <1>10 DEF Next

(* The table is in order in every state.                                     *)
THEOREM TableInvariance == Spec => [](TableInv /\ RevealsPrompt)
<1>1. Init => TableInv /\ RevealsPrompt
  BY TableOpens
<1>2. (TableInv /\ RevealsPrompt) /\ [Next]_vars => (TableInv /\ RevealsPrompt)'
  BY TableStep
<1> QED  BY <1>1, <1>2, PTL DEF Spec

(* The events tell the whole game.                                           *)
THEOREM EventsAlwaysTell == Spec => []EventsTellTheGame
<1>1. TableInv => EventsTellTheGame
  BY DEF TableInv, EventsTellTheGame
<1> QED  BY <1>1, TableInvariance, PTL

(* Blind nil is only bid on a hand its player has not been shown, as long as *)
(* every reveal is answered before its hand is over.                         *)
THEOREM BlindNilAlwaysUnseen == Spec => PromptBlindNilUnseen
<1>1. (TableInv /\ RevealsPrompt) /\ [Next]_vars
        => [~delayed => \A s \in Seats : BidsBlind(s) => shown[s] < game.hand]_vars
  <2> SUFFICES ASSUME TableInv, RevealsPrompt, [Next]_vars, ~delayed, NEW s \in Seats, BidsBlind(s)
               PROVE  shown[s] < game.hand
    OBVIOUS
  <2>1. revealed[s] < game.hand
    BY TableStep
  <2>2. shown[s] = revealed[s]
    BY DEF RevealsPrompt
  <2> QED  BY <2>1, <2>2
<1> QED  BY <1>1, TableInvariance, PTL DEF Spec, PromptBlindNilUnseen
-----------------------------------------------------------------------------
(* The deck adds up.                                                         *)

(* The cards in a hand, on the table and in the deck, counted.               *)
LEMMA HandSize ==
  ASSUME NEW cards \in Seq(Deck), AllDistinct(cards)
  PROVE  IsFiniteSet(ToSet(cards)) /\ Cardinality(ToSet(cards)) = Len(cards)
<1> DEFINE I == 1 .. Len(cards)
<1>1. Len(cards) \in Nat /\ DOMAIN cards = I /\ cards \in [I -> Deck]
  OBVIOUS
<1>2. IsFiniteSet(I) /\ Cardinality(I) = Len(cards)
  <2>1. IsFiniteSet(1 .. Len(cards)) /\ Cardinality(1 .. Len(cards)) = IF 1 > Len(cards) THEN 0 ELSE Len(cards) - 1 + 1
    BY <1>1, FS_Interval
  <2> QED  BY <1>1, <2>1
<1>3. cards \in Bijection(I, ToSet(cards))
  <2> HIDE DEF I
  <2>1. ToSet(cards) = {cards[i] : i \in I} /\ \A i, j \in I : cards[i] = cards[j] => i = j
    BY <1>1 DEF ToSet, AllDistinct
  <2>2. cards \in [I -> ToSet(cards)]
    BY <1>1, <2>1
  <2> QED  BY <1>1, <2>1, <2>2 DEF Bijection, Injection, Surjection, IsInjective
<1>4. ExistsBijection(I, ToSet(cards))
  BY <1>3 DEF ExistsBijection
<1> HIDE DEF I
<1> QED  BY <1>2, <1>4, FS_Bijection

LEMMA TableSize ==
  ASSUME NEW g \in Games, CardsApart(g), Len(g.trick) < 4
  PROVE  /\ IsFiniteSet(OnTable(g)) /\ Cardinality(OnTable(g)) = Len(g.trick)
         /\ LET p(s) == IF HasPlayed(g, s) THEN 1 ELSE 0
            IN  p(0) + p(1) + p(2) + p(3) = Len(g.trick)
<1> DEFINE n == Len(g.trick)
           cards == [i \in 1 .. n |-> g.trick[i].card]
           seat(i) == g.trick[i].seat
           p(s) == IF HasPlayed(g, s) THEN 1 ELSE 0
<1>1. g.trick \in Seq(Plays)
  BY DEF Games
<1>2. n \in 0 .. 3 /\ DOMAIN g.trick = 1 .. n /\ \A i \in 1 .. n : g.trick[i] \in Plays
  <2>1. Len(g.trick) \in Nat /\ DOMAIN g.trick = 1 .. Len(g.trick) /\ \A i \in 1 .. Len(g.trick) : g.trick[i] \in Plays
    BY <1>1
  <2>2. Len(g.trick) \in 0 .. 3
    BY <2>1, UpToThree
  <2> QED  BY <2>1, <2>2
<1>3. \A i \in 1 .. n : g.trick[i].card \in Deck /\ seat(i) \in Seats
  BY <1>2 DEF Plays
<1>4. \A i, j \in 1 .. n : i # j => g.trick[i].card # g.trick[j].card /\ seat(i) # seat(j)
  BY <1>2 DEF CardsApart
<1>5. \A s : HasPlayed(g, s) <=> \E i \in 1 .. n : seat(i) = s
  BY <1>2 DEF HasPlayed
<1>6. OnTable(g) = {g.trick[i].card : i \in 1 .. n}
  BY <1>2 DEF OnTable
<1> HIDE DEF n, seat
<1>7. /\ cards \in Seq(Deck) /\ Len(cards) = n /\ DOMAIN cards = 1 .. n
      /\ \A i \in 1 .. n : cards[i] = g.trick[i].card
  BY <1>2, <1>3
<1> HIDE DEF cards
<1>8. AllDistinct(cards) /\ ToSet(cards) = OnTable(g)
  BY <1>4, <1>6, <1>7 DEF AllDistinct, ToSet
<1>9. IsFiniteSet(OnTable(g)) /\ Cardinality(OnTable(g)) = n
  BY <1>7, <1>8, HandSize
<1>10. p(0) + p(1) + p(2) + p(3) = n
  <2>1. CASE n = 0
    <3>1. \A s : ~ HasPlayed(g, s)
      BY <1>5, <2>1
    <3> QED  BY <3>1, <2>1
  <2>2. CASE n = 1
    <3>1. \A i \in 1 .. 1 : i = 1
      OBVIOUS
    <3>2. seat(1) \in 0 .. 3 /\ \A s : HasPlayed(g, s) <=> seat(1) = s
      BY <1>3, <1>5, <2>2, <3>1 DEF Seats
    <3> QED  BY <3>2, <2>2
  <2>3. CASE n = 2
    <3>1. \A i \in 1 .. 2 : i = 1 \/ i = 2
      OBVIOUS
    <3>2. 1 \in 1 .. 2 /\ 2 \in 1 .. 2
      OBVIOUS
    <3>3. /\ seat(1) \in 0 .. 3 /\ seat(2) \in 0 .. 3 /\ seat(1) # seat(2)
          /\ \A s : HasPlayed(g, s) <=> seat(1) = s \/ seat(2) = s
      BY <1>3, <1>4, <1>5, <2>3, <3>1, <3>2 DEF Seats
    <3> QED  BY <3>3, <2>3
  <2>4. CASE n = 3
    <3>1. \A i \in 1 .. 3 : i = 1 \/ i = 2 \/ i = 3
      OBVIOUS
    <3>2. 1 \in 1 .. 3 /\ 2 \in 1 .. 3 /\ 3 \in 1 .. 3
      OBVIOUS
    <3>3. /\ seat(1) \in 0 .. 3 /\ seat(2) \in 0 .. 3 /\ seat(3) \in 0 .. 3
          /\ seat(1) # seat(2) /\ seat(1) # seat(3) /\ seat(2) # seat(3)
          /\ \A s : HasPlayed(g, s) <=> seat(1) = s \/ seat(2) = s \/ seat(3) = s
      BY <1>3, <1>4, <1>5, <2>4, <3>1, <3>2 DEF Seats
    <3> QED  BY <3>3, <2>4
  <2> QED  BY <1>2, <2>1, <2>2, <2>3, <2>4
<1> QED  BY <1>9, <1>10 DEF n

LEMMA DeckAddsUp ==
  ASSUME GameKept(game)
  PROVE  CardsAccounted
<1> SUFFICES ASSUME game.phase # "COMPLETED"
             PROVE  LET table == {game.trick[i].card : i \in DOMAIN game.trick}
                        held == UNION {ToSet(game.hands[s]) : s \in Seats}
                        tricks == SumOver(game.won, Seats)
                    IN /\ held \cap table = {}
                       /\ Cardinality(held) = SumOver([s \in Seats |-> Len(game.hands[s])], Seats)
                       /\ Cardinality(held) + Cardinality(table) + 4 * tricks = Cardinality(Deck)
                       /\ \A s \in Seats : Len(game.hands[s]) =
                            MaxBid - tricks - (IF \E i \in DOMAIN game.trick : game.trick[i].seat = s THEN 1 ELSE 0)
  BY DEF CardsAccounted
<1> DEFINE table == {game.trick[i].card : i \in DOMAIN game.trick}
           held == UNION {ToSet(game.hands[s]) : s \in Seats}
           tricks == SumOver(game.won, Seats)
           lens == [s \in Seats |-> Len(game.hands[s])]
           H(s) == ToSet(game.hands[s])
           p(s) == IF HasPlayed(game, s) THEN 1 ELSE 0
<1>1. game \in Games /\ CardsApart(game) /\ HandsCounted(game) /\ Len(game.trick) < 4
  BY DEF GameKept
<1>2. table = OnTable(game) /\ tricks = TricksTaken(game)
  BY DEF OnTable, TricksTaken
<1>3. \A s \in Seats : /\ IsFiniteSet(H(s)) /\ Cardinality(H(s)) = lens[s] /\ lens[s] \in Nat
                       /\ H(s) \cap table = {}
  <2> SUFFICES ASSUME NEW s \in Seats
               PROVE  /\ IsFiniteSet(H(s)) /\ Cardinality(H(s)) = lens[s] /\ lens[s] \in Nat
                      /\ H(s) \cap table = {}
    OBVIOUS
  <2>1. game.hands[s] \in Seq(Deck) /\ AllDistinct(game.hands[s]) /\ H(s) \cap OnTable(game) = {}
    BY <1>1 DEF CardsApart, Games
  <2>2. lens[s] = Len(game.hands[s]) /\ Len(game.hands[s]) \in Nat
    BY <2>1
  <2> HIDE DEF lens, table
  <2> QED  BY <2>1, <2>2, <1>2, HandSize
<1>4. \A s, q \in Seats : s # q => H(s) \cap H(q) = {}
  BY <1>1 DEF CardsApart
<1>5. /\ 0 \in Seats /\ 1 \in Seats /\ 2 \in Seats /\ 3 \in Seats
      /\ Seats = {0, 1, 2, 3}
  BY SeatsFinite
<1>6. lens \in [Seats -> Int] /\ SumOver(lens, Seats) = lens[0] + lens[1] + lens[2] + lens[3]
  <2>1. lens \in [Seats -> Int]
    BY <1>3
  <2> HIDE DEF lens
  <2> QED  BY <2>1, FourSeats
<1>7. held = ((H(0) \cup H(1)) \cup H(2)) \cup H(3)
  BY <1>5
<1>8. held \cap table = {}
  BY <1>3
<1>9. \A s \in Seats : lens[s] = MaxBid - tricks - p(s)
  BY <1>1, <1>2 DEF HandsCounted
<1>10. p(0) + p(1) + p(2) + p(3) = Len(game.trick) /\ Cardinality(table) = Len(game.trick)
  <2>1. p(0) + p(1) + p(2) + p(3) = Len(game.trick) /\ Cardinality(OnTable(game)) = Len(game.trick)
    BY <1>1, TableSize
  <2> QED  BY <2>1, <1>2, Zenon
<1>11. tricks \in Nat /\ MaxBid \in Nat /\ Cardinality(Deck) = 4 * MaxBid /\ Len(game.trick) \in Nat
  <2>1. game.trick \in Seq(Plays) /\ TricksTaken(game) \in Nat
    BY <1>1, TricksAre DEF Games
  <2>2. Len(game.trick) \in Nat
    BY <2>1
  <2>3. MaxBid \in Nat
    BY RulesAssumption
  <2>4. Cardinality(Deck) = 4 * MaxBid
    BY DeckAssumption
  <2> QED  BY <2>1, <2>2, <2>3, <2>4, <1>2, Zenon
<1> HIDE DEF H, lens
<1>12. Cardinality(held) = lens[0] + lens[1] + lens[2] + lens[3]
  <2> DEFINE A == H(0) \cup H(1)
             B == A \cup H(2)
  <2>0. /\ IsFiniteSet(H(0)) /\ IsFiniteSet(H(1)) /\ IsFiniteSet(H(2)) /\ IsFiniteSet(H(3))
        /\ Cardinality(H(0)) = lens[0] /\ Cardinality(H(1)) = lens[1]
        /\ Cardinality(H(2)) = lens[2] /\ Cardinality(H(3)) = lens[3]
        /\ lens[0] \in Nat /\ lens[1] \in Nat /\ lens[2] \in Nat /\ lens[3] \in Nat
    BY <1>3, <1>5
  <2>1. H(0) \cap H(1) = {} /\ A \cap H(2) = {} /\ B \cap H(3) = {} /\ Cardinality({}) = 0
    BY <1>4, <1>5, FS_EmptySet
  <2>2. IsFiniteSet(A) /\ Cardinality(A) = lens[0] + lens[1]
    <3>1. IsFiniteSet(A) /\ Cardinality(A) = Cardinality(H(0)) + Cardinality(H(1)) - Cardinality(H(0) \cap H(1))
      BY <2>0, FS_Union
    <3>2. Cardinality(H(0) \cap H(1)) = 0
      BY <2>1, Zenon
    <3> QED  BY <3>1, <3>2, <2>0
  <2> HIDE DEF A
  <2>3. IsFiniteSet(B) /\ Cardinality(B) = lens[0] + lens[1] + lens[2]
    <3>1. IsFiniteSet(B) /\ Cardinality(B) = Cardinality(A) + Cardinality(H(2)) - Cardinality(A \cap H(2))
      BY <2>0, <2>2, FS_Union
    <3>2. Cardinality(A \cap H(2)) = 0
      BY <2>1, Zenon
    <3> QED  BY <3>1, <3>2, <2>0, <2>2
  <2> HIDE DEF B
  <2>4. Cardinality(B \cup H(3)) = Cardinality(B) + Cardinality(H(3)) - Cardinality(B \cap H(3))
    BY <2>0, <2>3, FS_Union
  <2>5. held = B \cup H(3)
    BY <1>7 DEF A, B
  <2>6. Cardinality(B \cap H(3)) = 0
    BY <2>1, Zenon
  <2> HIDE DEF held
  <2> QED  BY <2>0, <2>3, <2>4, <2>5, <2>6
<1>13. /\ lens[0] = MaxBid - tricks - p(0) /\ lens[1] = MaxBid - tricks - p(1)
       /\ lens[2] = MaxBid - tricks - p(2) /\ lens[3] = MaxBid - tricks - p(3)
  BY <1>5, <1>9
<1> HIDE DEF held, table, tricks
<1>14. Cardinality(held) + Cardinality(table) + 4 * tricks = Cardinality(Deck)
  <2>1. p(0) \in Int /\ p(1) \in Int /\ p(2) \in Int /\ p(3) \in Int
    OBVIOUS
  <2> HIDE DEF p
  <2>2. lens[0] + lens[1] + lens[2] + lens[3]
          = 4 * MaxBid - 4 * tricks - (p(0) + p(1) + p(2) + p(3))
    BY <1>11, <1>13, <2>1
  <2>3. Cardinality(held) = 4 * MaxBid - 4 * tricks - Len(game.trick)
    BY <1>10, <1>12, <2>2
  <2> QED  BY <1>10, <1>11, <2>3
<1>15. \A s \in Seats : Len(game.hands[s]) =
          MaxBid - tricks - (IF \E i \in DOMAIN game.trick : game.trick[i].seat = s THEN 1 ELSE 0)
  BY <1>9 DEF HasPlayed, lens
<1>16. Cardinality(held) = SumOver(lens, Seats)
  BY <1>6, <1>12
<1> QED  BY <1>8, <1>14, <1>15, <1>16 DEF held, table, tricks, lens

(* A trick with its fourth play.                                             *)
LEMMA OneMorePlay ==
  ASSUME NEW trick \in Seq(Plays), NEW play \in Plays
  PROVE  /\ Append(trick, play) \in Seq(Plays) /\ Len(Append(trick, play)) = Len(trick) + 1
         /\ \A i \in 1 .. Len(trick) : Append(trick, play)[i] = trick[i]
         /\ Append(trick, play)[Len(trick) + 1] = play
OBVIOUS

(* Whatever fourth card is legal, the best card takes the trick.             *)
LEMMA BestIsTaken ==
  ASSUME GameKept(game)
  PROVE  TrickToTheBest
<1> SUFFICES ASSUME Len(game.trick) = 3, game.phase = "PLAYING",
                    NEW c \in ToSet(LegalCards(game, game.turn))
             PROVE  LET trick == Append(game.trick, [seat |-> game.turn, card |-> c])
                        In(suit) == {p \in ToSet(trick) : SuitOf(p.card) = suit}
                        Contest == IF In(Spade) # {} THEN In(Spade) ELSE In(SuitOf(trick[1].card))
                        best == CHOOSE p \in Contest : \A q \in Contest : RankOf(q.card) <= RankOf(p.card)
                    IN  TrickWinner(trick) = best.seat
  BY DEF TrickToTheBest
<1> DEFINE play == [seat |-> game.turn, card |-> c]
           trick == Append(game.trick, play)
<1>1. game \in Games /\ CardsApart(game) /\ TurnKept(game) /\ game.turn \in Seats
  BY DEF GameKept, Live, TurnKept
<1>2. c \in ToSet(game.hands[game.turn]) /\ c \notin OnTable(game)
  BY <1>1, LegalHeld DEF CardsApart
<1>3. game.trick \in Seq(Plays) /\ game.hands[game.turn] \in Seq(Deck)
  BY <1>1 DEF Games
<1>4. play \in Plays /\ play.card = c
  BY <1>1, <1>2, <1>3 DEF Plays, ToSet
<1> HIDE DEF play
<1>5. /\ trick \in Seq(Plays) /\ Len(trick) = 4
      /\ trick[1] = game.trick[1] /\ trick[2] = game.trick[2] /\ trick[3] = game.trick[3]
      /\ trick[4] = play
  <2>1. trick \in Seq(Plays) /\ Len(trick) = Len(game.trick) + 1
    BY <1>3, <1>4, OneMorePlay
  <2>2. (\A i \in 1 .. Len(game.trick) : trick[i] = game.trick[i]) /\ trick[Len(game.trick) + 1] = play
    BY <1>3, <1>4, OneMorePlay
  <2> HIDE DEF trick
  <2>3. 1 \in 1 .. Len(game.trick) /\ 2 \in 1 .. Len(game.trick) /\ 3 \in 1 .. Len(game.trick)
    OBVIOUS
  <2> QED  BY <2>1, <2>2, <2>3
<1>6. DOMAIN game.trick = 1 .. 3
  BY <1>3
<1>7. \A i, j \in 1 .. 4 : trick[i].card = trick[j].card => i = j
  <2>1. \A i, j \in 1 .. 3 : game.trick[i].card = game.trick[j].card => i = j
    BY <1>1, <1>6 DEF CardsApart
  <2>2. \A i \in 1 .. 3 : game.trick[i].card # c
    BY <1>2, <1>6 DEF OnTable
  <2>3. \A i \in 1 .. 4 : i \in 1 .. 3 \/ i = 4
    OBVIOUS
  <2>4. \A i \in 1 .. 3 : trick[i] = game.trick[i]
    <3>1. \A i \in 1 .. 3 : i = 1 \/ i = 2 \/ i = 3
      OBVIOUS
    <3> HIDE DEF trick
    <3> QED  BY <1>5, <3>1
  <2> HIDE DEF trick
  <2> QED  BY <1>4, <1>5, <2>1, <2>2, <2>3, <2>4
<1> HIDE DEF trick
<1>8. LET In(suit) == {p \in ToSet(trick) : SuitOf(p.card) = suit}
          Contest == IF In(Spade) # {} THEN In(Spade) ELSE In(SuitOf(trick[1].card))
          best == CHOOSE p \in Contest : \A q \in Contest : RankOf(q.card) <= RankOf(p.card)
      IN  TrickWinner(trick) = best.seat
  BY <1>5, <1>7, BestTakes
<1> QED  BY <1>8 DEF trick, play

(* The last digit of a side's score is its bags.                             *)
LEMMA ScoreIsShown ==
  ASSUME GameKept(game)
  PROVE  ScoreShowsBags
<1> SUFFICES ASSUME NEW t \in Sides
             PROVE  game.bags[t] < BagPenaltyAt /\ (game.score[t] - game.bags[t]) % TrickPoints = 0
  BY DEF ScoreShowsBags
<1>1. game.score[t] \in Int /\ game.bags[t] \in Nat
  BY DEF GameKept, Games
<1>2. BagsShown(game.score[t], game.bags[t])
  BY DEF GameKept
<1>3. Multiple(game.score[t] - game.bags[t]) /\ game.bags[t] < BagPenaltyAt
  BY <1>2 DEF BagsShown, Multiple
<1> QED  BY <1>1, <1>3, MultiplesDivide

(* The game is well formed, and keeps the rules, whatever is bid and played. *)
LEMMA TableTyped ==
  ASSUME TableInv
  PROVE  TypeOK
<1>1. \A s \in Seats : game.won[s] <= MaxBid /\ game.timeouts[s] <= MaxTimeouts
  <2>1. game \in Games /\ TricksTaken(game) <= MaxBid
    BY DEF TableInv, GameKept
  <2>2. \A s \in Seats : game.won[s] \in Nat /\ game.won[s] <= TricksTaken(game) /\ TricksTaken(game) \in Nat
    BY <2>1, TricksAre DEF Games
  <2>3. MaxBid \in Nat
    BY RulesAssumption
  <2> QED  BY <2>1, <2>2, <2>3 DEF TableInv, GameKept
<1> QED  BY <1>1 DEF TableInv, GameKept, TypeOK

(* The play as a whole keeps the rules: no card is lost, the best card takes *)
(* the trick, and every bag is on the score until its penalty is taken.      *)
THEOREM GameAlwaysByTheRules == Spec => []GameByTheRules
<1>1. TableInv => GameByTheRules
  BY TableTyped, DeckAddsUp, BestIsTaken, ScoreIsShown DEF GameByTheRules, TableInv
<1> QED  BY <1>1, TableInvariance, PTL
-----------------------------------------------------------------------------
(* The replay.                                                               *)

(* analyzeMatch's rule for the next card of a trick.                         *)
Follows(best, play, led) ==
    IF BetterSuit(best, play, led) \/ Higher(best, play) THEN play ELSE best

(* analyzeMatch compares the four plays in turn, too.                        *)
LEMMA ReplayWinnerIs ==
  ASSUME NEW trick, Len(trick) = 4
  PROVE  LET led == SuitOf(trick[1].card)
         IN  WinnerOf(trick) =
               Follows(Follows(Follows(trick[1], trick[2], led), trick[3], led), trick[4], led).seat
<1> DEFINE led == SuitOf(trick[1].card)
           Next1(best, play) == IF \/ BetterSuit(best, play, SuitOf(trick[1].card))
                                   \/ Higher(best, play) THEN play ELSE best
           Is(f) == f = [n \in 1 .. 4 |-> IF n = 1 THEN trick[1] ELSE Next1(f[n - 1], trick[n])]
           two == Next1(trick[1], trick[2])
           three == Next1(two, trick[3])
           four == Next1(three, trick[4])
           g == [n \in 1 .. 4 |-> IF n = 1 THEN trick[1] ELSE IF n = 2 THEN two
                                  ELSE IF n = 3 THEN three ELSE four]
<1>1. Is(g)
  <2>1. g[1] = trick[1] /\ g[2] = two /\ g[3] = three /\ g[4] = four
    OBVIOUS
  <2>2. ASSUME NEW n \in 1 .. 4 PROVE g[n] = IF n = 1 THEN trick[1] ELSE Next1(g[n - 1], trick[n])
    <3>1. n = 1 \/ n = 2 \/ n = 3 \/ n = 4
      OBVIOUS
    <3>2. 2 - 1 = 1 /\ 3 - 1 = 2 /\ 4 - 1 = 3
      OBVIOUS
    <3> HIDE DEF g, Next1
    <3>3. CASE n = 1
      BY <3>3, <2>1
    <3>4. CASE n = 2
      BY <3>4, <2>1, <3>2
    <3>5. CASE n = 3
      <4> HIDE DEF two
      <4> QED  BY <3>5, <2>1, <3>2
    <3>6. CASE n = 4
      <4> HIDE DEF two, three
      <4> QED  BY <3>6, <2>1, <3>2
    <3> QED  BY <3>1, <3>3, <3>4, <3>5, <3>6
  <2>3. g = [n \in 1 .. 4 |-> g[n]]
    OBVIOUS
  <2> HIDE DEF g, Next1
  <2> QED  BY <2>2, <2>3
<1> DEFINE f == CHOOSE f : Is(f)
<1>2. Is(f)
  <2> HIDE DEF Is, g
  <2> QED  BY <1>1, Zenon
<1>3. WinnerOf(trick) = f[4].seat
  BY DEF WinnerOf
<1> HIDE DEF f
<1>4. /\ f[1] = trick[1]
      /\ f[2] = Next1(f[1], trick[2])
      /\ f[3] = Next1(f[2], trick[3])
      /\ f[4] = Next1(f[3], trick[4])
  <2>1. \A n \in 1 .. 4 : f[n] = IF n = 1 THEN trick[1] ELSE Next1(f[n - 1], trick[n])
    BY <1>2, Zenon
  <2> HIDE DEF Next1
  <2> QED  BY <2>1
<1>5. \A best, play : Next1(best, play) = Follows(best, play, led)
  BY DEF Follows
<1> HIDE DEF Next1, led
<1>6. WinnerOf(trick) =
        Follows(Follows(Follows(trick[1], trick[2], led), trick[3], led), trick[4], led).seat
  BY <1>3, <1>4, <1>5
<1> QED  BY <1>6 DEF led

(* Its rule for tricks finds the seat that the engine found.                 *)
LEMMA SameWinner ==
  ASSUME NEW trick \in Seq(Plays), Len(trick) = 4
  PROVE  WinnerOf(trick) = TrickWinner(trick)
<1> DEFINE led == SuitOf(trick[1].card)
           two == Better(trick[1], trick[2])
           three == Better(two, trick[3])
<1>1. \A best, play, n : BestOf(trick, n, best) => Follows(best, play, led) = Better(best, play)
  BY DEF BestOf, Follows, Better, BetterSuit, Higher, Beats
<1>2. trick[1] \in Plays /\ RankOf(trick[1].card) \in Nat
  <2>1. 1 \in 1 .. Len(trick)
    OBVIOUS
  <2>2. trick[1] \in Plays
    BY <2>1, PlaysOf
  <2> QED  BY <2>2, DeckAssumption DEF Plays, RankOf
<1>3. BestOf(trick, 1, trick[1])
  BY <1>2 DEF BestOf
<1>4. BestOf(trick, 2, two)
  <2>1. BestOf(trick, 1 + 1, Better(trick[1], trick[1 + 1]))
    BY <1>3, BestStays
  <2> QED  BY <2>1
<1>5. BestOf(trick, 3, three)
  <2> HIDE DEF two
  <2>1. 2 \in 1 .. Len(trick) - 1
    OBVIOUS
  <2>2. BestOf(trick, 2 + 1, Better(two, trick[2 + 1]))
    BY <1>4, <2>1, BestStays
  <2> QED  BY <2>2
<1>6. Follows(trick[1], trick[2], led) = two
  BY <1>1, <1>3
<1>7. Follows(two, trick[3], led) = three
  <2> HIDE DEF two, led
  <2> QED  BY <1>1, <1>4
<1>8. Follows(three, trick[4], led) = Better(three, trick[4])
  <2> HIDE DEF three, led
  <2> QED  BY <1>1, <1>5
<1>9. WinnerOf(trick) = Follows(Follows(Follows(trick[1], trick[2], led), trick[3], led), trick[4], led).seat
  BY ReplayWinnerIs
<1>10. TrickWinner(trick) = Better(three, trick[4]).seat
  BY WinnerIs
<1> HIDE DEF led, two, three
<1> QED  BY <1>6, <1>7, <1>8, <1>9, <1>10

(* Unless a turn has timed out, analyzeMatch has replayed the same bids,     *)
(* tricks and score that the engine keeps, and counted the same feats.       *)
ReplayFollows ==
    ~slept =>
        /\ replay.score = game.score
        /\ replay.nils = feats.nils /\ replay.exact = feats.exact /\ replay.behind = feats.behind
        /\ game.phase # "COMPLETED" =>
              /\ replay.bids = Amounts
              /\ replay.tricks = game.won /\ replay.trick = game.trick

ReplayShape ==
    replay = [bids |-> replay.bids, tricks |-> replay.tricks, trick |-> replay.trick,
              score |-> replay.score, nils |-> replay.nils, exact |-> replay.exact,
              behind |-> replay.behind]

ReplayInv == ReplayFollows /\ ReplayShape

(* What no call but a bid or a card touches.                                 *)
LEMMA ReplayRests ==
  ASSUME ReplayInv, UNCHANGED <<replay, feats, slept>>,
         game'.score = game.score, game'.bids = game.bids, game'.won = game.won,
         game'.trick = game.trick, game.phase = "COMPLETED" => game'.phase = "COMPLETED"
  PROVE  ReplayInv'
BY DEF ReplayInv, ReplayFollows, ReplayShape, Amounts

(* A bid, and a card, replayed.                                              *)
LEMMA BidReplayed ==
  ASSUME TableInv, ReplayInv, WatchBid
  PROVE  ReplayInv'
<1>1. PICK s \in Seats : \E bid \in MayBid[s] :
        Bid(s, bid) /\ replay' = ReplayBid(s, bid.amount) /\ UNCHANGED <<feats, slept>>
  BY DEF WatchBid
<1>2. PICK bid \in MayBid[s] :
        Bid(s, bid) /\ replay' = ReplayBid(s, bid.amount) /\ UNCHANGED <<feats, slept>>
  BY <1>1
<1>3. game' = PlaceBid(game, s, bid) /\ game.phase = "BIDDING"
  BY <1>2 DEF Bid, Commit, CanBid
<1>4. /\ game'.bids = [game.bids EXCEPT ![s] = bid]
      /\ game'.won = game.won /\ game'.trick = game.trick /\ game'.score = game.score
  BY <1>3 DEF PlaceBid, TableInv, GameKept, Games
<1>5. game.bids \in [Seats -> Bids \cup {NoBid}]
  BY DEF TableInv, GameKept, Games
<1>6. Amounts' = [Amounts EXCEPT ![s] = bid.amount]
  BY <1>4, <1>5 DEF Amounts
<1>7. /\ replay'.bids = [replay.bids EXCEPT ![s] = bid.amount]
      /\ replay'.tricks = replay.tricks /\ replay'.trick = replay.trick
      /\ replay'.score = replay.score /\ replay'.nils = replay.nils
      /\ replay'.exact = replay.exact /\ replay'.behind = replay.behind
      /\ ReplayShape'
  BY <1>2 DEF ReplayInv, ReplayShape, ReplayBid
<1>8. ReplayFollows'
  BY <1>2, <1>3, <1>4, <1>6, <1>7 DEF ReplayInv, ReplayFollows
<1> QED  BY <1>7, <1>8 DEF ReplayInv

LEMMA PlayReplayed ==
  ASSUME TableInv, ReplayInv, WatchPlay
  PROVE  ReplayInv'
<1>0. PICK s \in Seats : \E c \in ToSet(game.hands[s]), deck \in Shuffles :
        /\ Play(s, c, deck) /\ replay' = ReplayCard(s, c, HandEnds, game'.score)
        /\ Witness(s, c) /\ UNCHANGED slept
  BY DEF WatchPlay
<1>1. PICK c \in ToSet(game.hands[s]), deck \in Shuffles :
        /\ Play(s, c, deck) /\ replay' = ReplayCard(s, c, HandEnds, game'.score)
        /\ Witness(s, c) /\ UNCHANGED slept
  BY <1>0
<1>2. GameKept(game) /\ CanPlay(game, s, c) /\ game' = PlayCard(game, s, c, deck)
  BY <1>1 DEF TableInv, Play, Commit
<1>3. LaidDown(game, s, c, game') \/ TrickTaken(game, s, c, game') \/ HandOver(game, game')
  <2> DEFINE next == PlayCard(game, s, c, deck)
  <2>1. LaidDown(game, s, c, next) \/ TrickTaken(game, s, c, next) \/ HandOver(game, next)
    BY <1>2, PlayKept
  <2> HIDE DEF next
  <2>2. game' = next
    BY <1>2 DEF next
  <2> QED  BY <2>1, <2>2
<1> DEFINE trick  == Append(game.trick, [seat |-> s, card |-> c])
           tricks == IF Len(trick) = 4 THEN [game.won EXCEPT ![TrickWinner(trick)] = @ + 1] ELSE game.won
<1>4. /\ game.trick \in Seq(Plays) /\ trick \in Seq(Plays) /\ Len(trick) = Len(game.trick) + 1
      /\ Len(game.trick) \in Nat /\ game.hand \in Nat
  <2>1. game \in Games /\ game.phase = "PLAYING" /\ game.turn = s
    <3>1. ToSet(<<>>) = {} /\ c \in ToSet(LegalCards(game, s))
      BY <1>2 DEF CanPlay, ToSet
    <3> QED  BY <1>2, <3>1 DEF LegalCards, GameKept
  <2>2. game.hands[s] \in Seq(Deck) /\ game.trick \in Seq(Plays) /\ game.hand \in Nat
    BY <2>1 DEF Games
  <2>3. c \in Deck
    BY <2>2 DEF ToSet
  <2>4. [seat |-> s, card |-> c] \in Plays
    BY <2>3 DEF Plays
  <2> QED  BY <2>2, <2>4
<1>5. game.phase = "PLAYING"
  <2>1. ToSet(<<>>) = {} /\ c \in ToSet(LegalCards(game, s))
    BY <1>2 DEF CanPlay, ToSet
  <2> QED  BY <2>1 DEF LegalCards
<1>6. Len(trick) = 4 => WinnerOf(trick) = TrickWinner(trick)
  <2> HIDE DEF trick
  <2> QED  BY <1>4, SameWinner
<1>7. ~ slept => /\ replay.bids = Amounts /\ replay.tricks = game.won /\ replay.trick = game.trick
                 /\ replay.score = game.score
                 /\ replay.nils = feats.nils /\ replay.exact = feats.exact /\ replay.behind = feats.behind
  BY <1>5 DEF ReplayInv, ReplayFollows
<1>8. ~ slept => replay' = IF HandEnds
                           THEN NewHand(game'.score, Counted(replay, Amounts, tricks, game.score))
                           ELSE [replay EXCEPT !.trick = IF Len(trick) = 4 THEN <<>> ELSE trick,
                                               !.tricks = tricks]
  <2> SUFFICES ASSUME ~ slept
               PROVE  replay' = IF HandEnds
                                THEN NewHand(game'.score, Counted(replay, Amounts, tricks, game.score))
                                ELSE [replay EXCEPT !.trick = IF Len(trick) = 4 THEN <<>> ELSE trick,
                                                    !.tricks = tricks]
    OBVIOUS
  <2> DEFINE seen   == Append(replay.trick, [seat |-> s, card |-> c])
             result == IF Len(seen) = 4 THEN [replay.tricks EXCEPT ![WinnerOf(seen)] = @ + 1]
                       ELSE replay.tricks
  <2>1. replay' = IF HandEnds
                  THEN NewHand(game'.score, Counted(replay, replay.bids, result, replay.score))
                  ELSE [replay EXCEPT !.trick = IF Len(seen) = 4 THEN <<>> ELSE seen, !.tricks = result]
    BY <1>1, Zenon DEF ReplayCard
  <2>2. seen = trick
    BY <1>7
  <2> HIDE DEF seen, trick
  <2>3. result = tricks
    BY <1>6, <1>7, <2>2
  <2> HIDE DEF result, tricks, HandEnds
  <2> QED  BY <1>7, <2>1, <2>2, <2>3
<1>9. ASSUME Len(game.trick) = 3 PROVE TricksWith(s, c) = tricks
  <2>1. ~ (3 < 3) /\ 3 + 1 = 4
    OBVIOUS
  <2>2. TricksWith(s, c) = [game.won EXCEPT ![TrickWinner(trick)] = @ + 1]
    BY <1>9, <2>1, Zenon DEF TricksWith
  <2>3. Len(trick) = 4
    BY <1>4, <1>9, <2>1
  <2> HIDE DEF trick
  <2> QED  BY <2>2, <2>3
<1> HIDE DEF trick, tricks
<1>10. ReplayShape'
  <2> DEFINE seen   == Append(replay.trick, [seat |-> s, card |-> c])
             result == IF Len(seen) = 4 THEN [replay.tricks EXCEPT ![WinnerOf(seen)] = @ + 1]
                       ELSE replay.tricks
             counts == Counted(replay, replay.bids, result, replay.score)
  <2>1. replay' = IF HandEnds THEN NewHand(game'.score, counts)
                  ELSE [replay EXCEPT !.trick = IF Len(seen) = 4 THEN <<>> ELSE seen, !.tricks = result]
    BY <1>1, Zenon DEF ReplayCard
  <2> HIDE DEF seen, result, counts, HandEnds
  <2>2. CASE HandEnds
    <3>1. replay' = NewHand(game'.score, counts)
      BY <2>1, <2>2
    <3> QED  BY <3>1 DEF NewHand, ReplayShape
  <2>3. CASE ~ HandEnds
    <3>1. replay' = [replay EXCEPT !.trick = IF Len(seen) = 4 THEN <<>> ELSE seen, !.tricks = result]
      BY <2>1, <2>3
    <3> QED  BY <3>1 DEF ReplayInv, ReplayShape
  <2> QED  BY <2>2, <2>3
<1>11. ReplayFollows'
  <2> SUFFICES ASSUME ~ slept PROVE ReplayFollows'
    BY <1>1 DEF ReplayFollows
  <2>1. CASE LaidDown(game, s, c, game') \/ TrickTaken(game, s, c, game')
    <3>1. ~ HandEnds /\ game'.bids = game.bids /\ game'.score = game.score
      BY <2>1 DEF LaidDown, TrickTaken, HandEnds
    <3>2. replay' = [replay EXCEPT !.trick = IF Len(trick) = 4 THEN <<>> ELSE trick, !.tricks = tricks]
      BY <1>8, <3>1
    <3>3. /\ replay'.bids = replay.bids /\ replay'.tricks = tricks
          /\ replay'.trick = (IF Len(trick) = 4 THEN <<>> ELSE trick)
          /\ replay'.score = replay.score /\ replay'.nils = replay.nils
          /\ replay'.exact = replay.exact /\ replay'.behind = replay.behind
      BY <3>2 DEF ReplayInv, ReplayShape
    <3>4. game'.won = tricks /\ game'.trick = (IF Len(trick) = 4 THEN <<>> ELSE trick)
      <4>1. CASE LaidDown(game, s, c, game')
        <5>1. /\ Len(game.trick) < 3 /\ game'.won = game.won
              /\ game'.trick = Append(game.trick, [seat |-> s, card |-> c])
          BY <4>1 DEF LaidDown
        <5>2. Len(trick) # 4
          BY <1>4, <5>1
        <5> QED  BY <5>1, <5>2 DEF trick, tricks
      <4>2. CASE TrickTaken(game, s, c, game')
        <5>1. /\ Len(game.trick) = 3 /\ game'.trick = <<>>
              /\ game'.won = [game.won EXCEPT ![TrickWinner(trick)] = @ + 1]
          BY <4>2 DEF TrickTaken, trick
        <5>2. Len(trick) = 4
          BY <1>4, <5>1
        <5> QED  BY <5>1, <5>2 DEF tricks
      <4> QED  BY <2>1, <4>1, <4>2
    <3>5. feats' = feats /\ Amounts' = Amounts
      BY <1>1, <3>1 DEF Witness, Amounts
    <3> QED  BY <1>7, <3>1, <3>3, <3>4, <3>5 DEF ReplayFollows
  <2>2. CASE HandOver(game, game')
    <3>1. HandEnds /\ Len(game.trick) = 3
      BY <1>4, <2>2 DEF HandOver, HandEnds
    <3>2. TricksWith(s, c) = tricks
      BY <1>9, <3>1
    <3>3. /\ replay' = NewHand(game'.score, Counted(replay, Amounts, tricks, game.score))
          /\ feats' = Counted(feats, Amounts, tricks, game.score)
      BY <1>1, <1>8, <3>1, <3>2 DEF Witness
    <3>4. Counted(replay, Amounts, tricks, game.score) = Counted(feats, Amounts, tricks, game.score)
      BY <1>7 DEF Counted
    <3>5. replay' = NewHand(game'.score, feats')
      BY <3>3, <3>4
    <3>6. /\ replay'.score = game'.score /\ replay'.nils = feats'.nils
          /\ replay'.exact = feats'.exact /\ replay'.behind = feats'.behind
          /\ replay'.bids = [q \in Seats |-> -1] /\ replay'.tricks = [q \in Seats |-> 0]
          /\ replay'.trick = <<>>
      BY <3>5 DEF NewHand
    <3>7. game'.phase # "COMPLETED" => /\ Amounts' = [q \in Seats |-> -1]
                                       /\ game'.won = [q \in Seats |-> 0] /\ game'.trick = <<>>
      BY <2>2 DEF HandOver, Amounts, NoBid
    <3> QED  BY <3>6, <3>7 DEF ReplayFollows
  <2> QED  BY <1>3, <2>1, <2>2
<1> QED  BY <1>10, <1>11 DEF ReplayInv

(* A game that is given up keeps its bids, its tricks and its score.         *)
LEMMA OtherReplayed ==
  ASSUME TableInv, ReplayInv, AnyOther, UNCHANGED <<replay, feats, slept>>
  PROVE  ReplayInv'
<1>1. ASSUME NEW s, NEW n, Live(game), game' = [ForfeitMatch(game, s) EXCEPT !.version = n]
      PROVE  ReplayInv'
  <2>1. /\ game'.score = game.score /\ game'.bids = game.bids /\ game'.won = game.won
        /\ game'.trick = game.trick
    BY <1>1 DEF ForfeitMatch, TableInv, GameKept, Games
  <2> QED  BY <1>1, <2>1, ReplayRests DEF Live
<1>2. ASSUME NEW s \in Seats, Forfeit(s) PROVE ReplayInv'
  <2>1. Live(game) /\ game' = ForfeitMatch(game, s)
    BY <1>2 DEF Forfeit, CanForfeit, Commit
  <2>2. /\ game'.score = game.score /\ game'.bids = game.bids /\ game'.won = game.won
        /\ game'.trick = game.trick
    BY <2>1 DEF ForfeitMatch, TableInv, GameKept, Games
  <2> QED  BY <2>1, <2>2, ReplayRests DEF Live
<1>3. CASE RulingWrite
  BY <1>1, <1>3 DEF RulingWrite, TableInv
<1>4. ASSUME game' = game PROVE ReplayInv'
  BY <1>4, ReplayRests
<1>5. \A s \in Peekers : RevealRead(s) => game' = game
  BY DEF RevealRead
<1>6. \A s \in Peekers : \A n \in 1 .. MaxHands : RevealWrite(s, n) => game' = game
  BY DEF RevealWrite
<1>7. DeadlinePasses \/ RulingRead \/ RulingAborts => game' = game
  BY DEF DeadlinePasses, RulingRead, RulingAborts
<1> QED  BY <1>2, <1>3, <1>4, <1>5, <1>6, <1>7 DEF AnyOther

(* The game that is watched is the game.                                     *)
LEMMA WatchedIsGame ==
  [ProgressNext]_progressVars => [Next]_vars
<1>1. WatchBid => Next
  BY DEF WatchBid, Next
<1>2. WatchPlay => Next
  BY DEF WatchPlay, Next
<1>3. WatchTimeout => Next
  BY DEF WatchTimeout, Next
<1>4. UNCHANGED progressVars => UNCHANGED vars
  BY DEF progressVars
<1> QED  BY <1>1, <1>2, <1>3, <1>4 DEF ProgressNext, Next

(* Whatever the game does, the replay follows it.                            *)
LEMMA ReplayStep ==
  ASSUME TableInv, ReplayInv, [ProgressNext]_progressVars
  PROVE  ReplayInv'
<1>1. CASE WatchTimeout
  <2>1. slept' = TRUE /\ replay' = replay
    BY <1>1 DEF WatchTimeout
  <2> QED  BY <2>1 DEF ReplayInv, ReplayFollows, ReplayShape
<1>2. CASE UNCHANGED progressVars
  BY <1>2 DEF progressVars, vars, ReplayInv, ReplayFollows, ReplayShape, Amounts
<1> QED  BY <1>1, <1>2, BidReplayed, PlayReplayed, OtherReplayed DEF ProgressNext

(* The achievements an overview derives from the events are those of the     *)
(* game the engine refereed.                                                 *)
THEOREM AchievementsAlwaysTell == ProgressSpec => []AchievementsTellTheGame
<1> DEFINE Inv == TableInv /\ RevealsPrompt /\ ReplayInv
<1>1. ProgressInit => Inv
  <2> SUFFICES ASSUME ProgressInit PROVE Inv
    OBVIOUS
  <2>1. TableInv /\ RevealsPrompt
    BY TableOpens DEF ProgressInit
  <2>2. replay = NewHand([t \in Sides |-> 0], NoFeats) /\ feats = NoFeats
    BY DEF ProgressInit
  <2>3. PICK deck \in Shuffles : game = CreateSpadesState(deck)
    BY DEF ProgressInit, Init
  <2>4. /\ game.score = [t \in Sides |-> 0] /\ game.won = [s \in Seats |-> 0] /\ game.trick = <<>>
        /\ Amounts = [s \in Seats |-> -1]
    BY <2>3 DEF CreateSpadesState, Amounts, NoBid
  <2>5. ReplayInv
    BY <2>2, <2>4 DEF ReplayInv, ReplayFollows, ReplayShape, NewHand
  <2> QED  BY <2>1, <2>5
<1>2. Inv /\ [ProgressNext]_progressVars => Inv'
  BY WatchedIsGame, TableStep, ReplayStep
<1>3. Inv => AchievementsTellTheGame
  BY DEF ReplayInv, ReplayFollows, AchievementsTellTheGame
<1> QED  BY <1>1, <1>2, <1>3, PTL DEF ProgressSpec

-----------------------------------------------------------------------------
(* Friends, blocks, challenges and the games challenges make. *)
ThreadStages == {"requesting", "responding", "challenging", "accepting", "matching", "resolving"}
ThreadCalls == [at : ThreadStages \cup {Free}, by : Players \cup {Free}, pair : SUBSET Players,
                ch : ChallengeIds \cup {0}, was : {"none", "PENDING", "ACCEPTED"}, with : ChallengeIds \cup {0},
                late : BOOLEAN, gone : BOOLEAN]
FriendRows == [status : {"none", "PENDING", "ACCEPTED", "DECLINED"}, by : Players \cup {Free}]
ChallengeRows == [from : Players \cup {Free}, to : Players \cup {Free},
                  status : {"none", "PENDING", "ACCEPTED", "MATCHED", "DECLINED", "CANCELLED", "EXPIRED"},
                  rank : Nat, match : GameIds \cup {0}]
GameRows == [live : BOOLEAN, seats : SUBSET Players, paired : BOOLEAN]

SocialRows ==
    /\ friendship \in [Acquainted -> FriendRows] /\ blocks \subseteq Players \X Players
    /\ challenge \in [ChallengeIds -> ChallengeRows] /\ match \in [GameIds -> GameRows]
    /\ thread \in [Threads -> ThreadCalls] /\ unlooked \subseteq Acquainted

(* A challenge is between two who may ask each other; one that is open has no *)
(* game, and the game of any other is one that two challenges made.           *)
ChallengesName ==
    \A c \in ChallengeIds :
        /\ challenge[c].status # "none" => PairOf(c) \in Acquainted
        /\ challenge[c].status \in Open \cup {"none"} => challenge[c].match = 0
        /\ challenge[c].match # 0 => match[challenge[c].match].paired

(* What an acceptance holds of a challenge while it holds the lock: no game   *)
(* yet, and neither of its players in a game that two challenges made.        *)
Matchable(c) ==
    /\ challenge[c].status # "none" /\ challenge[c].match = 0
    /\ \A g \in GameIds : match[g].live /\ match[g].paired => match[g].seats \cap PairOf(c) = {}

(* A call in progress is about two players who may ask each other, and was    *)
(* marked late if one blocked the other since it looked; what waits for a     *)
(* partner or has found one holds a challenge that can still be matched.      *)
Unblocked(t) == thread[t].late \/ ~Blocked(thread[t].pair)
ThreadKnows(t) ==
    /\ thread[t].at \in {"requesting", "responding", "challenging"} =>
           thread[t].pair \in Acquainted /\ thread[t].by \in thread[t].pair /\ Unblocked(t)
    /\ thread[t].at \in {"accepting", "matching"} =>
           /\ thread[t].ch \in ChallengeIds /\ Matchable(thread[t].ch)
           /\ thread[t].pair = PairOf(thread[t].ch) /\ Unblocked(t)
    /\ thread[t].at = "matching" =>
           /\ thread[t].with \in ChallengeIds /\ Matchable(thread[t].with) /\ thread[t].with # thread[t].ch
           /\ PairOf(thread[t].with) \cap PairOf(thread[t].ch) = {}
    /\ thread[t].at = "resolving" => thread[t].ch \in ChallengeIds /\ challenge[thread[t].ch].status # "none"

(* One acceptance at a time holds the advisory lock.                          *)
Holds(t) == thread[t].at \in {"accepting", "matching"}
ThreadsKnow ==
    /\ \A t \in Threads : ThreadKnows(t)
    /\ \A t, u \in Threads : Holds(t) /\ Holds(u) => t = u

SocialInv == SocialRows /\ ChallengesName /\ ThreadsKnow /\ ChallengesSeatOnce /\ BlockedStayApart

LEMMA IdleThread == Free0 \in ThreadCalls /\ Free0.at = Free
BY DEF Free0, ThreadCalls

LEMMA NoGameIsZero == 0 \notin GameIds
BY ChallengesAssumption

LEMMA SocialStarts ==
  ASSUME NEW friends \in SUBSET Acquainted, NEW some \in SUBSET ChallengeIds,
         NEW pending \in [some -> {w \in Players \X Players : {w[1], w[2]} \in Acquainted}],
         SocialInit(friends, pending)
  PROVE  SocialInv
<1>1. ASSUME NEW c \in ChallengeIds
      PROVE  /\ challenge[c] \in ChallengeRows /\ challenge[c].match = 0
             /\ challenge[c].status \in {"none", "PENDING"}
             /\ challenge[c].status # "none" => PairOf(c) \in Acquainted
  <2> DEFINE new == [from |-> Free, to |-> Free, status |-> "none", rank |-> 0, match |-> 0]
  <2>1. CASE c \in DOMAIN pending
    <3>1. pending[c] \in Players \X Players /\ {pending[c][1], pending[c][2]} \in Acquainted
      BY <2>1
    <3>2. challenge[c] = [from |-> pending[c][1], to |-> pending[c][2], status |-> "PENDING", rank |-> 0, match |-> 0]
      BY <2>1 DEF SocialInit
    <3>3. PairOf(c) = {pending[c][1], pending[c][2]}
      BY <3>2 DEF PairOf
    <3> QED
      BY <3>1, <3>2, <3>3 DEF ChallengeRows
  <2>2. CASE c \notin DOMAIN pending
    <3>1. challenge[c] = new
      BY <2>2 DEF SocialInit
    <3> QED
      BY <3>1 DEF ChallengeRows
  <2> QED
    BY <2>1, <2>2
<1>2. challenge \in [ChallengeIds -> ChallengeRows]
  <2>1. challenge = [c \in ChallengeIds |-> challenge[c]]
    BY DEF SocialInit
  <2> QED
    BY <1>1, <2>1
<1>3. SocialRows
  BY <1>2, IdleThread DEF SocialInit, SocialRows, FriendRows, GameRows
<1>4. ChallengesName
  BY <1>1 DEF ChallengesName
<1>5. ThreadsKnow
  BY IdleThread, ChallengesAssumption DEF SocialInit, ThreadsKnow, ThreadKnows, Holds
<1>6. ChallengesSeatOnce
  <2>1. \A c \in ChallengeIds : challenge[c].status # "MATCHED"
    BY <1>1
  <2>2. \A g \in GameIds : match[g].paired = FALSE
    BY DEF SocialInit
  <2> QED
    BY <2>1, <2>2 DEF ChallengesSeatOnce
<1>7. BlockedStayApart
  BY DEF SocialInit, BlockedStayApart, Blocked
<1> QED
  BY <1>3, <1>4, <1>5, <1>6, <1>7 DEF SocialInv

-----------------------------------------------------------------------------
(* What stands when a step leaves it alone. *)

(* The challenges are the same but for their status, and none of them is new. *)
OnlyStatus ==
    /\ challenge' \in [ChallengeIds -> ChallengeRows]
    /\ \A c \in ChallengeIds :
          /\ challenge'[c].from = challenge[c].from /\ challenge'[c].to = challenge[c].to
          /\ challenge'[c].match = challenge[c].match
          /\ challenge'[c].status = "none" <=> challenge[c].status = "none"
          /\ challenge'[c].status = "MATCHED" => challenge[c].status = "MATCHED"
          /\ challenge'[c].status \in Open => challenge[c].match = 0

LEMMA StatusOnly ==
  ASSUME SocialInv, OnlyStatus, match' = match
  PROVE  /\ ChallengesName' /\ ChallengesSeatOnce'
         /\ \A c \in ChallengeIds : PairOf(c)' = PairOf(c) /\ (Matchable(c) => Matchable(c)')
<1>1. \A c \in ChallengeIds : PairOf(c)' = PairOf(c)
  BY DEF OnlyStatus, PairOf
<1>2. ChallengesName'
  BY <1>1 DEF SocialInv, ChallengesName, OnlyStatus
<1>3. ChallengesSeatOnce'
  <2>1. \A g \in GameIds : {c \in ChallengeIds : challenge'[c].match = g} = {c \in ChallengeIds : challenge[c].match = g}
    BY DEF OnlyStatus
  <2>2. \A c \in ChallengeIds : challenge'[c].status = "MATCHED" => challenge'[c].match # 0
    BY DEF SocialInv, ChallengesSeatOnce, OnlyStatus
  <2>3. ASSUME NEW g \in GameIds, match[g].paired
        PROVE  LET cs == {c \in ChallengeIds : challenge'[c].match = g} IN
               Cardinality(cs) = 2 /\ match[g].seats = UNION {PairOf(c)' : c \in cs} /\ Cardinality(match[g].seats) = 4
    <3> DEFINE cs == {c \in ChallengeIds : challenge[c].match = g}
    <3>1. Cardinality(cs) = 2 /\ match[g].seats = UNION {PairOf(c) : c \in cs} /\ Cardinality(match[g].seats) = 4
      BY <2>3 DEF SocialInv, ChallengesSeatOnce
    <3>2. UNION {PairOf(c)' : c \in cs} = UNION {PairOf(c) : c \in cs}
      BY <1>1
    <3> QED
      BY <2>1, <3>1, <3>2
  <2>4. \A g, h \in GameIds : g # h /\ match[g].live /\ match[h].live /\ match[g].paired /\ match[h].paired
                               => match[g].seats \cap match[h].seats = {}
    BY DEF SocialInv, ChallengesSeatOnce
  <2> QED
    BY <2>2, <2>3, <2>4 DEF ChallengesSeatOnce
<1>4. \A c \in ChallengeIds : Matchable(c) => Matchable(c)'
  BY <1>1 DEF Matchable, OnlyStatus
<1> QED
  BY <1>1, <1>2, <1>3, <1>4

LEMMA SameIsOnlyStatus == ASSUME SocialInv, challenge' = challenge PROVE OnlyStatus
BY DEF SocialInv, SocialRows, ChallengesName, OnlyStatus

(* Threads that end, or go on where they were, know what they knew; a block    *)
(* made meanwhile marks the threads about its pair.                            *)
LEMMA ThreadsStand ==
  ASSUME SocialInv, thread' \in [Threads -> ThreadCalls],
         \A t \in Threads :
            \/ thread'[t].at = Free
            \/ /\ thread'[t].at = thread[t].at /\ thread'[t].by = thread[t].by /\ thread'[t].pair = thread[t].pair
               /\ thread'[t].ch = thread[t].ch /\ thread'[t].with = thread[t].with
               /\ thread[t].late => thread'[t].late,
         \A q \in Acquainted : Blocked(q)' => \/ Blocked(q)
                                              \/ \A t \in Threads : thread[t].pair = q => thread'[t].late \/ thread'[t].at = Free,
         \A c \in ChallengeIds : challenge[c].status # "none" => challenge'[c].status # "none" /\ PairOf(c)' = PairOf(c),
         \/ \A t \in Threads : ~Holds(t)'
         \/ \A c \in ChallengeIds : Matchable(c) => Matchable(c)'
  PROVE  ThreadsKnow'
<1>1. \A t, u \in Threads : Holds(t)' /\ Holds(u)' => t = u
  <2>1. \A t \in Threads : Holds(t)' => Holds(t)
    BY ChallengesAssumption DEF Holds
  <2> QED
    BY <2>1 DEF SocialInv, ThreadsKnow
<1>2. ASSUME NEW t \in Threads PROVE ThreadKnows(t)'
  <2>1. CASE thread'[t].at = Free
    BY <2>1, ChallengesAssumption DEF ThreadKnows
  <2>2. CASE thread'[t].at # Free
    <3>1. /\ thread'[t].at = thread[t].at /\ thread'[t].by = thread[t].by /\ thread'[t].pair = thread[t].pair
          /\ thread'[t].ch = thread[t].ch /\ thread'[t].with = thread[t].with /\ (thread[t].late => thread'[t].late)
          /\ ThreadKnows(t)
      BY <2>2 DEF SocialInv, ThreadsKnow
    <3>2. ASSUME thread[t].pair \in Acquainted, Unblocked(t) PROVE Unblocked(t)'
      <4>1. PICK q \in Acquainted : q = thread[t].pair
        BY <3>2
      <4>2. thread'[t].late \/ ~Blocked(q)'
        BY <2>2, <3>1, <3>2, <4>1 DEF Unblocked
      <4>3. thread'[t].pair = q
        BY <3>1, <4>1
      <4> QED
        BY <4>2, <4>3 DEF Unblocked, Blocked
    <3>3. CASE thread[t].at \in {"requesting", "responding", "challenging"}
      BY <3>1, <3>2, <3>3 DEF ThreadKnows
    <3>4. CASE thread[t].at = "resolving"
      BY <3>1, <3>4 DEF ThreadKnows
    <3>5. CASE Holds(t)
      <4>1. PICK c \in ChallengeIds : c = thread[t].ch
        BY <3>1, <3>5 DEF ThreadKnows, Holds
      <4>2. Matchable(c) /\ thread[t].pair = PairOf(c) /\ Unblocked(t)
        BY <3>1, <3>5, <4>1 DEF ThreadKnows, Holds
      <4>3. Holds(t)'
        BY <3>1, <3>5 DEF Holds
      <4>4. Matchable(c)' /\ PairOf(c)' = PairOf(c) /\ PairOf(c) \in Acquainted
        BY <4>2, <4>3 DEF Matchable, SocialInv, ChallengesName
      <4>5. thread'[t].ch = c /\ thread'[t].pair = PairOf(c)' /\ Unblocked(t)'
        BY <3>1, <3>2, <4>1, <4>2, <4>4
      <4>6. CASE thread[t].at = "accepting"
        BY <3>1, <4>4, <4>5, <4>6 DEF ThreadKnows, Matchable, PairOf
      <4>7. CASE thread[t].at = "matching"
        <5>1. PICK d \in ChallengeIds : d = thread[t].with
          BY <3>1, <4>7 DEF ThreadKnows
        <5>2. Matchable(d) /\ d # c /\ PairOf(d) \cap PairOf(c) = {}
          BY <3>1, <4>1, <4>7, <5>1 DEF ThreadKnows
        <5>3. Matchable(d)' /\ PairOf(d)' = PairOf(d)
          BY <4>3, <5>2 DEF Matchable
        <5>4. thread'[t].with = d
          BY <3>1, <5>1
        <5> QED
          BY <3>1, <4>4, <4>5, <4>7, <5>2, <5>3, <5>4 DEF ThreadKnows, Matchable, PairOf
      <4> QED
        BY <3>5, <4>6, <4>7 DEF Holds
    <3>6. thread[t].at \in ThreadStages
      BY <2>2, <3>1 DEF SocialInv, SocialRows, ThreadCalls
    <3> QED
      BY <3>3, <3>4, <3>5, <3>6 DEF ThreadStages, Holds
  <2> QED
    BY <2>1, <2>2
<1> QED
  BY <1>1, <1>2 DEF ThreadsKnow
(* A thread moves by itself and nothing else changes. *)
LEMMA ThreadMoves ==
  ASSUME SocialInv, NEW t \in Threads, NEW step \in ThreadCalls, thread' = [thread EXCEPT ![t] = step],
         UNCHANGED <<friendship, blocks, challenge, match, unlooked>>,
         ThreadKnows(t)', step.at \in {"accepting", "matching"} => LockFree \/ Holds(t)
  PROVE  SocialInv'
<1>1. SocialRows' /\ BlockedStayApart'
  BY DEF SocialInv, SocialRows, BlockedStayApart, Blocked, Between, PairOf
<1>2. ChallengesName' /\ ChallengesSeatOnce'
  BY StatusOnly, SameIsOnlyStatus
<1>3. thread'[t] = step /\ \A u \in Threads \ {t} : thread'[u] = thread[u]
  BY DEF SocialInv, SocialRows
<1>4. ASSUME NEW u \in Threads PROVE ThreadKnows(u)'
  <2>1. CASE u = t
    BY <2>1
  <2>2. CASE u # t
    BY <1>3, <2>2 DEF SocialInv, ThreadsKnow, ThreadKnows, Matchable, Unblocked, Blocked, PairOf
  <2> QED
    BY <2>1, <2>2
<1>5. \A u, v \in Threads : Holds(u)' /\ Holds(v)' => u = v
  <2>1. \A u \in Threads : Holds(u)' => u = t \/ Holds(u)
    BY <1>3 DEF Holds
  <2>2. Holds(t)' => \A u \in Threads \ {t} : ~Holds(u)
    BY <1>3 DEF Holds, LockFree, SocialInv, ThreadsKnow
  <2> QED
    BY <2>1, <2>2 DEF SocialInv, ThreadsKnow
<1> QED
  BY <1>1, <1>2, <1>4, <1>5 DEF SocialInv, ThreadsKnow

(* Calls that look, and go on or end: a friend's request or answer, a challenge, *)
(* its acceptance and what it is matched with, its end.                          *)
LEMMA LooksKeepSocial ==
  ASSUME SocialInv, NEW t \in Threads,
         RequestFriend(t) \/ RespondToFriend(t) \/ CheckChallenge(t)
  PROVE  SocialInv'
<1>1. UNCHANGED <<friendship, blocks, challenge, match, unlooked>>
  BY DEF RequestFriend, RespondToFriend, CheckChallenge
<1>2. PICK q \in Acquainted, p \in Players, at \in {"requesting", "responding", "challenging"} :
        p \in q /\ ~Blocked(q) /\ Begins(t, [Free0 EXCEPT !.at = at, !.by = p, !.pair = q])
  <2>0. \A q \in Acquainted : q \subseteq Players
    BY ChallengesAssumption
  <2>1. CASE RequestFriend(t)
    BY <2>0, <2>1 DEF RequestFriend
  <2>2. CASE RespondToFriend(t)
    BY <2>0, <2>2 DEF RespondToFriend
  <2>3. CASE CheckChallenge(t)
    BY <2>0, <2>3 DEF CheckChallenge
  <2> QED
    BY <2>1, <2>2, <2>3
<1> DEFINE step == [Free0 EXCEPT !.at = at, !.by = p, !.pair = q]
<1>3. q \subseteq Players /\ p \in Players
  BY <1>2, ChallengesAssumption
<1>4. step \in ThreadCalls /\ step.at = at /\ step.by = p /\ step.pair = q
  BY <1>3, IdleThread DEF ThreadCalls, ThreadStages
<1>5. thread' = [thread EXCEPT ![t] = step]
  BY <1>2 DEF Begins
<1> HIDE DEF step
<1>6. thread'[t] = step
  BY <1>5 DEF SocialInv, SocialRows
<1>7. ThreadKnows(t)'
  BY <1>1, <1>2, <1>4, <1>6 DEF ThreadKnows, Unblocked, Blocked
<1> QED
  BY <1>1, <1>4, <1>5, <1>7, ThreadMoves

LEMMA AcceptKeepsSocial == ASSUME SocialInv, NEW t \in Threads, AcceptChallenge(t) PROVE SocialInv'
<1>1. PICK c \in ChallengeIds :
        /\ challenge[c].status \in Open /\ LockFree
        /\ ~Blocked(PairOf(c)) /\ \A p \in PairOf(c) : ~Busy(p)
        /\ Begins(t, [Free0 EXCEPT !.at = "accepting", !.ch = c, !.was = challenge[c].status, !.pair = PairOf(c)])
  BY DEF AcceptChallenge
<1>2. UNCHANGED <<friendship, blocks, challenge, match, unlooked>>
  BY DEF AcceptChallenge
<1> DEFINE step == [Free0 EXCEPT !.at = "accepting", !.ch = c, !.was = challenge[c].status, !.pair = PairOf(c)]
<1>3. PairOf(c) \in Acquainted /\ challenge[c].match = 0
  BY <1>1 DEF SocialInv, ChallengesName, Open
<1>4. PairOf(c) \subseteq Players
  BY <1>3, ChallengesAssumption
<1>5. step \in ThreadCalls /\ step.at = "accepting" /\ step.ch = c /\ step.pair = PairOf(c)
  BY <1>1, <1>4, IdleThread DEF ThreadCalls, ThreadStages, Open
<1>6. thread' = [thread EXCEPT ![t] = step]
  BY <1>1 DEF Begins
<1> HIDE DEF step
<1>7. thread'[t] = step
  BY <1>6 DEF SocialInv, SocialRows
<1>8. Matchable(c)
  BY <1>1, <1>3 DEF Matchable, Busy, Open
<1>9. ThreadKnows(t)'
  BY <1>1, <1>2, <1>5, <1>7, <1>8 DEF ThreadKnows, Unblocked, Blocked, PairOf, Matchable
<1> QED
  BY <1>1, <1>2, <1>5, <1>6, <1>9, ThreadMoves

LEMMA FindKeepsSocial == ASSUME SocialInv, NEW t \in Threads, FindPair(t) PROVE SocialInv'
<1>1. PICK d \in Oldest(Waiting(thread[t].ch)) :
        IF Blocked(PairOf(d)) \/ \E p \in PairOf(d) : Busy(p)
        THEN Ends(t) ELSE thread' = [thread EXCEPT ![t].at = "matching", ![t].with = d]
  BY DEF FindPair
<1>2. thread[t].at = "accepting" /\ UNCHANGED <<friendship, blocks, challenge, match, unlooked>>
  BY DEF FindPair
<1>3. /\ d \in ChallengeIds /\ d # thread[t].ch /\ challenge[d].status = "ACCEPTED" /\ challenge[d].match = 0
      /\ PairOf(d) \cap PairOf(thread[t].ch) = {}
  BY <1>1 DEF Oldest, Waiting
<1>4. thread[t] \in ThreadCalls /\ ThreadKnows(t) /\ thread \in [Threads -> ThreadCalls]
  BY DEF SocialInv, SocialRows, ThreadsKnow
<1>5. CASE Blocked(PairOf(d)) \/ \E p \in PairOf(d) : Busy(p)
  <2>1. thread' = [thread EXCEPT ![t] = Free0] /\ thread'[t] = Free0
    BY <1>1, <1>4, <1>5 DEF Ends
  <2>2. ThreadKnows(t)'
    BY <2>1, IdleThread, ChallengesAssumption DEF ThreadKnows
  <2> QED
    BY <1>2, <2>1, <2>2, IdleThread, ThreadMoves, ChallengesAssumption
<1>6. CASE ~(Blocked(PairOf(d)) \/ \E p \in PairOf(d) : Busy(p))
  <2> DEFINE step == [thread[t] EXCEPT !.at = "matching", !.with = d]
  <2>1. thread' = [thread EXCEPT ![t] = step]
    BY <1>1, <1>4, <1>6
  <2>2. /\ step \in ThreadCalls /\ step.at = "matching" /\ step.with = d /\ step.ch = thread[t].ch
        /\ step.pair = thread[t].pair /\ step.late = thread[t].late
    BY <1>3, <1>4 DEF ThreadCalls, ThreadStages
  <2> HIDE DEF step
  <2>3. thread'[t] = step
    BY <1>4, <2>1
  <2>4. Matchable(d)
    BY <1>3, <1>6 DEF Matchable, Busy
  <2>5. PICK c \in ChallengeIds : c = thread[t].ch
    BY <1>2, <1>4 DEF ThreadKnows
  <2>6. Matchable(c) /\ thread[t].pair = PairOf(c) /\ Unblocked(t)
    BY <1>2, <1>4, <2>5 DEF ThreadKnows
  <2>7. /\ Matchable(c)' /\ Matchable(d)' /\ PairOf(c)' = PairOf(c) /\ PairOf(d)' = PairOf(d)
        /\ Unblocked(t)'
    BY <1>2, <2>2, <2>3, <2>4, <2>6 DEF Matchable, PairOf, Unblocked, Blocked
  <2>8. thread'[t].ch = c /\ thread'[t].with = d /\ thread'[t].pair = PairOf(c)' /\ thread'[t].at = "matching"
    BY <2>2, <2>3, <2>5, <2>6, <2>7
  <2>9. d # c /\ PairOf(d) \cap PairOf(c) = {}
    BY <1>3, <2>5
  <2>10. ThreadKnows(t)'
    <3>1. Matchable(thread[t].ch)' /\ Matchable(thread[t].with)'
      BY <2>7, <2>8 DEF Matchable, PairOf
    <3>2. thread'[t].pair = PairOf(thread[t].ch)' /\ PairOf(thread[t].with)' \cap PairOf(thread[t].ch)' = {}
      BY <2>7, <2>8, <2>9 DEF PairOf
    <3> QED
      BY <1>3, <2>7, <2>8, <2>9, <3>1, <3>2 DEF ThreadKnows
  <2>11. Holds(t)
    BY <1>2 DEF Holds
  <2> QED
    BY <1>2, <2>1, <2>2, <2>10, <2>11, ThreadMoves
<1> QED
  BY <1>5, <1>6

LEMMA ResolveReadKeepsSocial == ASSUME SocialInv, NEW t \in Threads, ReadToResolve(t) PROVE SocialInv'
<1>0. \A c \in ChallengeIds : challenge[c].status \in Open => PairOf(c) \subseteq Players
  BY ChallengesAssumption DEF SocialInv, ChallengesName, Open
<1>1. PICK c \in ChallengeIds, p \in Players :
        p \in PairOf(c) /\ challenge[c].status \in Open /\ Begins(t, [Free0 EXCEPT !.at = "resolving", !.ch = c, !.by = p])
  BY <1>0 DEF ReadToResolve
<1>2. UNCHANGED <<friendship, blocks, challenge, match, unlooked>>
  BY DEF ReadToResolve
<1> DEFINE step == [Free0 EXCEPT !.at = "resolving", !.ch = c, !.by = p]
<1>4. step \in ThreadCalls /\ step.at = "resolving" /\ step.ch = c
  BY IdleThread DEF ThreadCalls, ThreadStages
<1>5. thread' = [thread EXCEPT ![t] = step]
  BY <1>1 DEF Begins
<1> HIDE DEF step
<1>6. thread'[t] = step
  BY <1>5 DEF SocialInv, SocialRows
<1>7. ThreadKnows(t)'
  BY <1>1, <1>2, <1>4, <1>6 DEF ThreadKnows, Open
<1> QED
  BY <1>2, <1>4, <1>5, <1>7, ThreadMoves

-----------------------------------------------------------------------------
(* Friends and blocks. *)

(* A thread that ends, and nothing that the others know of changes. *)
LEMMA EndsAndStands ==
  ASSUME SocialInv, NEW t \in Threads, Ends(t), UNCHANGED blocks,
         \A c \in ChallengeIds : challenge[c].status # "none" => challenge'[c].status # "none" /\ PairOf(c)' = PairOf(c),
         \/ \A u \in Threads \ {t} : ~Holds(u)
         \/ \A c \in ChallengeIds : Matchable(c) => Matchable(c)'
  PROVE  thread' \in [Threads -> ThreadCalls] /\ ThreadsKnow'
<1>1. /\ thread' \in [Threads -> ThreadCalls] /\ thread'[t].at = Free
      /\ \A u \in Threads \ {t} : thread'[u] = thread[u]
  BY IdleThread DEF Ends, SocialInv, SocialRows
<1>2. \A q \in Acquainted : Blocked(q)' => Blocked(q)
  BY DEF Blocked
<1>3. \/ \A u \in Threads : ~Holds(u)'
      \/ \A c \in ChallengeIds : Matchable(c) => Matchable(c)'
  BY <1>1, ChallengesAssumption DEF Holds
<1> QED
  BY <1>1, <1>2, <1>3, ThreadsStand

(* Two players of whom one has blocked the other stay apart when one of them   *)
(* is told so only by a call that had looked before the block.                 *)
LEMMA FriendsWrite ==
  ASSUME SocialInv, NEW t \in Threads, Ends(t), UNCHANGED <<blocks, challenge, match>>,
         NEW q \in Acquainted, NEW row \in FriendRows, friendship' = [friendship EXCEPT ![q] = row],
         Slips(t), thread[t].pair = q, Unblocked(t)
  PROVE  SocialInv'
<1>1. ChallengesName' /\ ChallengesSeatOnce' /\ \A c \in ChallengeIds : PairOf(c)' = PairOf(c) /\ (Matchable(c) => Matchable(c)')
  BY StatusOnly, SameIsOnlyStatus
<1>2. thread' \in [Threads -> ThreadCalls] /\ ThreadsKnow'
  BY <1>1, EndsAndStands
<1>3. unlooked' = IF thread[t].late THEN unlooked \cup {q} ELSE unlooked
  BY DEF Slips
<1>4. SocialRows'
  BY <1>2, <1>3 DEF SocialInv, SocialRows
<1>5. BlockedStayApart'
  <2>1. ASSUME NEW r \in Acquainted, Blocked(r), r \notin unlooked'
        PROVE  friendship'[r].status = "none" /\ \A c \in Between(r) : challenge[c].status \notin Open
    <3>1. r # q
      BY <1>3, <2>1 DEF Unblocked
    <3>2. friendship'[r] = friendship[r] /\ r \notin unlooked
      BY <1>3, <2>1, <3>1 DEF SocialInv, SocialRows
    <3> QED
      BY <2>1, <3>2 DEF SocialInv, BlockedStayApart
  <2> QED
    BY <2>1 DEF BlockedStayApart, Blocked, Between, PairOf
<1> QED
  BY <1>1, <1>2, <1>4, <1>5 DEF SocialInv

LEMMA FriendshipsKeepSocial ==
  ASSUME SocialInv, NEW t \in Threads, UpsertFriendship(t) \/ Answer(t) PROVE SocialInv'
<1>0. PICK q : q = thread[t].pair
  OBVIOUS
<1>1. thread[t].at \in {"requesting", "responding"} /\ Ends(t) /\ UNCHANGED <<blocks, challenge, match>>
  BY DEF UpsertFriendship, Answer
<1>2. q \in Acquainted /\ thread[t].by \in q /\ Unblocked(t)
  BY <1>0, <1>1 DEF SocialInv, ThreadsKnow, ThreadKnows
<1>3. thread[t].by \in Players
  BY <1>2, ChallengesAssumption
<1>4. friendship \in [Acquainted -> FriendRows] /\ friendship[q] \in FriendRows
  BY <1>2 DEF SocialInv, SocialRows
<1>5. CASE UpsertFriendship(t)
  <2> DEFINE row == [status |-> "PENDING", by |-> thread[t].by]
  <2>1. row \in FriendRows
    BY <1>3 DEF FriendRows
  <2>2. friendship' = [friendship EXCEPT ![q] = row] /\ Slips(t)
    BY <1>0, <1>5 DEF UpsertFriendship
  <2> HIDE DEF row
  <2> QED
    BY <1>0, <1>1, <1>2, <2>1, <2>2, FriendsWrite
<1>6. CASE Answer(t) /\ ~thread[t].gone
  <2>1. PICK accept \in BOOLEAN : friendship' = [friendship EXCEPT ![q].status = IF accept THEN "ACCEPTED" ELSE "DECLINED"]
    BY <1>0, <1>6 DEF Answer
  <2> DEFINE row == [friendship[q] EXCEPT !.status = IF accept THEN "ACCEPTED" ELSE "DECLINED"]
  <2>2. row \in FriendRows
    BY <1>4 DEF FriendRows
  <2>3. friendship' = [friendship EXCEPT ![q] = row] /\ Slips(t)
    BY <1>4, <1>6, <2>1 DEF Answer
  <2> HIDE DEF row
  <2> QED
    BY <1>0, <1>1, <1>2, <2>2, <2>3, FriendsWrite
<1>7. CASE Answer(t) /\ thread[t].gone
  <2>1. thread' = [thread EXCEPT ![t] = Free0] /\ UNCHANGED <<friendship, blocks, challenge, match, unlooked>>
    BY <1>1, <1>7 DEF Answer, Ends
  <2>2. thread'[t] = Free0
    BY <2>1 DEF SocialInv, SocialRows
  <2>3. ThreadKnows(t)'
    BY <2>2, IdleThread, ChallengesAssumption DEF ThreadKnows
  <2> QED
    BY <2>1, <2>3, IdleThread, ThreadMoves, ChallengesAssumption
<1> QED
  BY <1>5, <1>6, <1>7

(* Deleting a friendship's row leaves the threads where they were. *)
LEMMA DeletedIs ==
  ASSUME SocialInv, NEW q, NEW byBlock \in BOOLEAN, thread' = Deleted(q, byBlock)
  PROVE  /\ thread' \in [Threads -> ThreadCalls]
         /\ \A t \in Threads :
               /\ thread'[t].at = thread[t].at /\ thread'[t].by = thread[t].by /\ thread'[t].pair = thread[t].pair
               /\ thread'[t].ch = thread[t].ch /\ thread'[t].with = thread[t].with
               /\ thread'[t].late = (thread[t].late \/ (byBlock /\ thread[t].pair = q))
<1>1. ASSUME NEW t \in Threads
      PROVE  /\ thread'[t] \in ThreadCalls
             /\ thread'[t].at = thread[t].at /\ thread'[t].by = thread[t].by /\ thread'[t].pair = thread[t].pair
             /\ thread'[t].ch = thread[t].ch /\ thread'[t].with = thread[t].with
             /\ thread'[t].late = (thread[t].late \/ (byBlock /\ thread[t].pair = q))
  <2>1. thread[t] \in ThreadCalls
    BY DEF SocialInv, SocialRows
  <2>2. CASE thread[t].pair = q
    <3>1. thread'[t] = [thread[t] EXCEPT !.gone = TRUE, !.late = thread[t].late \/ byBlock]
      BY <2>2 DEF Deleted
    <3> QED
      BY <2>1, <2>2, <3>1 DEF ThreadCalls
  <2>3. CASE thread[t].pair # q
    <3>1. thread'[t] = thread[t]
      BY <2>3 DEF Deleted
    <3> QED
      BY <2>1, <2>3, <3>1 DEF ThreadCalls
  <2> QED
    BY <2>2, <2>3
<1>2. thread' = [t \in Threads |-> thread'[t]]
  BY DEF Deleted
<1> QED
  BY <1>1, <1>2

LEMMA RemoveKeepsSocial == ASSUME SocialInv, RemoveFriend PROVE SocialInv'
<1>1. PICK q \in Acquainted :
        friendship' = [friendship EXCEPT ![q] = [status |-> "none", by |-> Free]] /\ thread' = Deleted(q, FALSE)
  BY DEF RemoveFriend
<1>2. UNCHANGED <<blocks, challenge, match, unlooked>>
  BY DEF RemoveFriend
<1>3. ChallengesName' /\ ChallengesSeatOnce' /\ \A c \in ChallengeIds : PairOf(c)' = PairOf(c) /\ (Matchable(c) => Matchable(c)')
  BY <1>2, StatusOnly, SameIsOnlyStatus
<1>4. /\ thread' \in [Threads -> ThreadCalls]
      /\ \A t \in Threads :
            /\ thread'[t].at = thread[t].at /\ thread'[t].by = thread[t].by /\ thread'[t].pair = thread[t].pair
            /\ thread'[t].ch = thread[t].ch /\ thread'[t].with = thread[t].with
            /\ thread[t].late => thread'[t].late
  BY <1>1, DeletedIs
<1>5. \A r \in Acquainted : Blocked(r)' => Blocked(r)
  BY <1>2 DEF Blocked
<1>6. ThreadsKnow'
  BY <1>2, <1>3, <1>4, <1>5, ThreadsStand
<1>7. SocialRows'
  BY <1>1, <1>2, <1>4 DEF SocialInv, SocialRows, FriendRows
<1>8. BlockedStayApart'
  <2>1. ASSUME NEW r \in Acquainted, Blocked(r), r \notin unlooked
        PROVE  friendship'[r].status = "none" /\ \A c \in Between(r) : challenge[c].status \notin Open
    BY <1>1, <2>1 DEF SocialInv, SocialRows, BlockedStayApart
  <2> QED
    BY <1>2, <2>1 DEF BlockedStayApart, Blocked, Between, PairOf
<1> QED
  BY <1>3, <1>6, <1>7, <1>8 DEF SocialInv

(* A block tells the threads about its pair that they looked too early. *)
LEMMA BlockKeepsSocial == ASSUME SocialInv, Block PROVE SocialInv'
<1>1. PICK q \in Acquainted, p \in Players, r \in Players :
        /\ p \in q /\ r \in q /\ p # r /\ blocks' = blocks \cup {<<p, r>>}
        /\ friendship' = [friendship EXCEPT ![q] = [status |-> "none", by |-> Free]]
        /\ challenge' = [c \in ChallengeIds |-> IF c \in Between(q) /\ challenge[c].status \in EndedByBlock
                           THEN [challenge[c] EXCEPT !.status = "CANCELLED"] ELSE challenge[c]]
        /\ thread' = Deleted(q, TRUE) /\ unlooked' = unlooked \ {q} /\ UNCHANGED match
  <2>1. \A q \in Acquainted : q \subseteq Players
    BY ChallengesAssumption
  <2> QED
    BY <2>1 DEF Block
<1>2. q = {p, r}
  BY <1>1, ChallengesAssumption
<1>3. \A s \in Acquainted : Blocked(s)' => Blocked(s) \/ s = q
  <2>1. ASSUME NEW s \in Acquainted, Blocked(s)', ~Blocked(s) PROVE s = q
    <3>1. p \in s /\ r \in s
      BY <1>1, <2>1 DEF Blocked
    <3> QED
      BY <1>1, <1>2, <3>1, ChallengesAssumption
  <2> QED
    BY <2>1
<1>4. OnlyStatus
  <2>1. ASSUME NEW c \in ChallengeIds
        PROVE  /\ challenge'[c] \in ChallengeRows
               /\ challenge'[c].from = challenge[c].from /\ challenge'[c].to = challenge[c].to
               /\ challenge'[c].match = challenge[c].match
               /\ challenge'[c].status = challenge[c].status \/
                    (challenge'[c].status = "CANCELLED" /\ challenge[c].status \in Open)
    <3>1. challenge[c] \in ChallengeRows
      BY DEF SocialInv, SocialRows
    <3>2. CASE c \in Between(q) /\ challenge[c].status \in EndedByBlock
      <4>1. challenge'[c] = [challenge[c] EXCEPT !.status = "CANCELLED"]
        BY <1>1, <3>2
      <4> QED
        BY <3>1, <3>2, <4>1 DEF ChallengeRows, EndedByBlock
    <3>3. CASE ~(c \in Between(q) /\ challenge[c].status \in EndedByBlock)
      <4>1. challenge'[c] = challenge[c]
        BY <1>1, <3>3
      <4> QED
        BY <3>1, <4>1
    <3> QED
      BY <3>2, <3>3
  <2>2. challenge' = [c \in ChallengeIds |-> challenge'[c]]
    BY <1>1
  <2>3. challenge' \in [ChallengeIds -> ChallengeRows]
    BY <2>1, <2>2
  <2> QED
    BY <2>1, <2>3 DEF OnlyStatus, SocialInv, ChallengesName, Open
<1>5. ChallengesName' /\ ChallengesSeatOnce' /\ \A c \in ChallengeIds : PairOf(c)' = PairOf(c) /\ (Matchable(c) => Matchable(c)')
  BY <1>1, <1>4, StatusOnly
<1>6. /\ thread' \in [Threads -> ThreadCalls]
      /\ \A t \in Threads :
            /\ thread'[t].at = thread[t].at /\ thread'[t].by = thread[t].by /\ thread'[t].pair = thread[t].pair
            /\ thread'[t].ch = thread[t].ch /\ thread'[t].with = thread[t].with
            /\ thread'[t].late = (thread[t].late \/ thread[t].pair = q)
  <2>1. PICK byBlock \in BOOLEAN : byBlock = TRUE
    OBVIOUS
  <2>2. thread' = Deleted(q, byBlock)
    BY <1>1, <2>1
  <2>3. /\ thread' \in [Threads -> ThreadCalls]
        /\ \A t \in Threads :
              /\ thread'[t].at = thread[t].at /\ thread'[t].by = thread[t].by /\ thread'[t].pair = thread[t].pair
              /\ thread'[t].ch = thread[t].ch /\ thread'[t].with = thread[t].with
              /\ thread'[t].late = (thread[t].late \/ (byBlock /\ thread[t].pair = q))
    BY <2>2, DeletedIs
  <2> QED
    BY <2>1, <2>3
<1>7. ThreadsKnow'
  <2>1. \A s \in Acquainted : Blocked(s)' => Blocked(s) \/ \A t \in Threads : thread[t].pair = s => thread'[t].late \/ thread'[t].at = Free
    BY <1>3, <1>6
  <2>2. \A c \in ChallengeIds : challenge[c].status # "none" => challenge'[c].status # "none" /\ PairOf(c)' = PairOf(c)
    BY <1>4, <1>5 DEF OnlyStatus
  <2>3. \A t \in Threads : thread[t].late => thread'[t].late
    BY <1>6
  <2> QED
    BY <1>5, <1>6, <2>1, <2>2, <2>3, ThreadsStand
<1>8. SocialRows'
  <2>1. friendship' \in [Acquainted -> FriendRows]
    <3>1. [status |-> "none", by |-> Free] \in FriendRows
      BY DEF FriendRows
    <3> QED
      BY <1>1, <3>1 DEF SocialInv, SocialRows
  <2>2. blocks' \subseteq Players \X Players
    BY <1>1 DEF SocialInv, SocialRows
  <2> QED
    BY <1>1, <1>4, <1>6, <2>1, <2>2 DEF SocialInv, SocialRows, OnlyStatus
<1>9. BlockedStayApart'
  <2>1. ASSUME NEW s \in Acquainted, Blocked(s)', s \notin unlooked'
        PROVE  friendship'[s].status = "none" /\ \A c \in Between(s)' : challenge'[c].status \notin Open
    <3>1. CASE s = q
      <4>1. friendship'[q].status = "none"
        BY <1>1 DEF SocialInv, SocialRows
      <4>2. ASSUME NEW c \in ChallengeIds, challenge'[c].status # "none", PairOf(c)' = q
            PROVE  challenge'[c].status \notin Open
        <5>1. c \in Between(q)
          BY <1>4, <1>5, <4>2 DEF OnlyStatus, Between
        <5>2. CASE challenge[c].status \in Open
          <6>1. challenge'[c] = [challenge[c] EXCEPT !.status = "CANCELLED"]
            BY <1>1, <5>1, <5>2 DEF EndedByBlock
          <6>2. challenge[c] \in ChallengeRows
            BY DEF SocialInv, SocialRows
          <6>3. challenge'[c].status = "CANCELLED"
            BY <6>1, <6>2 DEF ChallengeRows
          <6> QED
            BY <6>3 DEF Open
        <5>3. CASE challenge[c].status \notin Open
          BY <1>1, <5>3 DEF EndedByBlock
        <5> QED
          BY <5>2, <5>3
      <4> QED
        BY <3>1, <4>1, <4>2 DEF Between
    <3>2. CASE s # q
      <4>1. Blocked(s) /\ s \notin unlooked /\ friendship'[s] = friendship[s]
        BY <1>1, <1>3, <2>1, <3>2 DEF SocialInv, SocialRows
      <4>2. friendship[s].status = "none" /\ \A c \in Between(s) : challenge[c].status \notin Open
        BY <4>1 DEF SocialInv, BlockedStayApart
      <4>3. ASSUME NEW c \in ChallengeIds, challenge'[c].status # "none", PairOf(c)' = s
            PROVE  challenge'[c].status \notin Open
        <5>1. c \in Between(s) /\ c \notin Between(q)
          BY <1>4, <1>5, <3>2, <4>3 DEF OnlyStatus, Between
        <5>2. challenge'[c] = challenge[c]
          BY <1>1, <5>1
        <5> QED
          BY <4>2, <5>1, <5>2
      <4> QED
        BY <4>1, <4>2, <4>3 DEF Between
    <3> QED
      BY <3>1, <3>2
  <2> QED
    BY <2>1 DEF BlockedStayApart
<1> QED
  BY <1>5, <1>7, <1>8, <1>9 DEF SocialInv

LEMMA UnblockKeepsSocial == ASSUME SocialInv, Unblock PROVE SocialInv'
<1>1. blocks' \subseteq blocks /\ UNCHANGED <<friendship, challenge, match, thread, unlooked>>
  BY DEF Unblock
<1>2. ChallengesName' /\ ChallengesSeatOnce' /\ \A c \in ChallengeIds : PairOf(c)' = PairOf(c) /\ (Matchable(c) => Matchable(c)')
  BY <1>1, StatusOnly, SameIsOnlyStatus
<1>3. \A q \in Acquainted : Blocked(q)' => Blocked(q)
  BY <1>1 DEF Blocked
<1>4. thread' \in [Threads -> ThreadCalls]
  BY <1>1 DEF SocialInv, SocialRows
<1>5. ThreadsKnow'
  BY <1>1, <1>2, <1>3, <1>4, ThreadsStand
<1>6. SocialRows'
  BY <1>1 DEF SocialInv, SocialRows
<1>7. BlockedStayApart'
  BY <1>1, <1>3 DEF SocialInv, BlockedStayApart, Between, PairOf
<1> QED
  BY <1>2, <1>5, <1>6, <1>7 DEF SocialInv
-----------------------------------------------------------------------------
(* Challenges. *)

(* The row of one challenge takes another status. *)
LEMMA StatusMoves ==
  ASSUME SocialInv, NEW c \in ChallengeIds, NEW row \in ChallengeRows, challenge' = [challenge EXCEPT ![c] = row],
         row.from = challenge[c].from, row.to = challenge[c].to, row.match = challenge[c].match,
         challenge[c].status # "none", row.status \notin {"none", "MATCHED"},
         row.status \in Open => challenge[c].match = 0
  PROVE  OnlyStatus
<1>1. challenge' \in [ChallengeIds -> ChallengeRows] /\ challenge'[c] = row
      /\ \A e \in ChallengeIds \ {c} : challenge'[e] = challenge[e]
  BY DEF SocialInv, SocialRows
<1>2. \A e \in ChallengeIds : challenge[e].status \in Open => challenge[e].match = 0
  BY DEF SocialInv, ChallengesName
<1> QED
  BY <1>1, <1>2 DEF OnlyStatus

LEMMA WaitKeepsSocial == ASSUME SocialInv, NEW t \in Threads, Wait(t) PROVE SocialInv'
<1>1. /\ thread[t].at = "accepting" /\ Ends(t) /\ UNCHANGED <<friendship, blocks, match>>
      /\ IF thread[t].was = "PENDING"
         THEN challenge' = [challenge EXCEPT ![thread[t].ch].status = "ACCEPTED", ![thread[t].ch].rank = NextRank] /\ Slips(t)
         ELSE UNCHANGED <<challenge, unlooked>>
  BY DEF Wait
<1>2. PICK c \in ChallengeIds : c = thread[t].ch
  BY <1>1 DEF SocialInv, ThreadsKnow, ThreadKnows
<1>3. Matchable(c) /\ thread[t].pair = PairOf(c) /\ Unblocked(t) /\ PairOf(c) \in Acquainted
  BY <1>1, <1>2 DEF SocialInv, ThreadsKnow, ThreadKnows, ChallengesName, Matchable
<1>4. CASE thread[t].was # "PENDING"
  <2>1. thread' = [thread EXCEPT ![t] = Free0] /\ UNCHANGED <<friendship, blocks, challenge, match, unlooked>>
    BY <1>1, <1>4 DEF Ends
  <2>2. thread'[t] = Free0
    BY <2>1 DEF SocialInv, SocialRows
  <2>3. ThreadKnows(t)'
    BY <2>2, IdleThread, ChallengesAssumption DEF ThreadKnows
  <2> QED
    BY <2>1, <2>3, IdleThread, ThreadMoves, ChallengesAssumption
<1>5. CASE thread[t].was = "PENDING"
  <2> DEFINE row == [challenge[c] EXCEPT !.status = "ACCEPTED", !.rank = NextRank]
  <2>1. challenge \in [ChallengeIds -> ChallengeRows] /\ challenge[c] \in ChallengeRows
    BY DEF SocialInv, SocialRows
  <2>2. challenge' = [challenge EXCEPT ![c] = row] /\ Slips(t)
    BY <1>1, <1>2, <1>5, <2>1
  <2>3. NextRank \in Nat
    <3>1. IsFiniteSet({d \in ChallengeIds : challenge[d].rank > 0})
      BY FS_Subset, ChallengesAssumption
    <3>2. Cardinality({d \in ChallengeIds : challenge[d].rank > 0}) \in Nat
      BY <3>1, FS_CardinalityType
    <3> QED
      BY <3>2 DEF NextRank
  <2>4. row \in ChallengeRows /\ row.status = "ACCEPTED" /\ row.from = challenge[c].from /\ row.to = challenge[c].to
        /\ row.match = challenge[c].match
    BY <2>1, <2>3 DEF ChallengeRows
  <2> HIDE DEF row
  <2>5. OnlyStatus
    BY <1>3, <2>2, <2>4, StatusMoves DEF Matchable
  <2>6. ChallengesName' /\ ChallengesSeatOnce' /\ \A e \in ChallengeIds : PairOf(e)' = PairOf(e) /\ (Matchable(e) => Matchable(e)')
    BY <1>1, <2>5, StatusOnly
  <2>7. \A e \in ChallengeIds : challenge[e].status # "none" => challenge'[e].status # "none" /\ PairOf(e)' = PairOf(e)
    BY <2>5, <2>6 DEF OnlyStatus
  <2>8. thread' \in [Threads -> ThreadCalls] /\ ThreadsKnow'
    BY <1>1, <2>6, <2>7, EndsAndStands
  <2>9. unlooked' = IF thread[t].late THEN unlooked \cup {PairOf(c)} ELSE unlooked
    BY <1>3, <2>2 DEF Slips
  <2>10. SocialRows'
    BY <1>1, <1>3, <2>5, <2>8, <2>9 DEF SocialInv, SocialRows, OnlyStatus
  <2>11. BlockedStayApart'
    <3>1. ASSUME NEW q \in Acquainted, Blocked(q), q \notin unlooked'
          PROVE  friendship[q].status = "none" /\ \A e \in ChallengeIds :
                    challenge'[e].status # "none" /\ PairOf(e) = q => challenge'[e].status \notin Open
      <4>1. q # PairOf(c) /\ q \notin unlooked
        BY <1>3, <2>9, <3>1 DEF Unblocked
      <4>2. friendship[q].status = "none" /\ \A e \in Between(q) : challenge[e].status \notin Open
        BY <3>1, <4>1 DEF SocialInv, BlockedStayApart
      <4>3. \A e \in ChallengeIds : PairOf(e) = q => challenge'[e] = challenge[e]
        BY <2>1, <2>2, <4>1
      <4> QED
        BY <4>2, <4>3 DEF Between
    <3>2. \A q \in Acquainted : Blocked(q)' <=> Blocked(q)
      BY <1>1 DEF Blocked
    <3> QED
      BY <1>1, <2>6, <3>1, <3>2 DEF BlockedStayApart, Between
  <2> QED
    BY <2>6, <2>8, <2>10, <2>11 DEF SocialInv
<1> QED
  BY <1>4, <1>5

(* A challenge that ends opens nothing. *)
LEMMA EndingKeepsSocial ==
  ASSUME SocialInv, NEW c \in ChallengeIds, challenge[c].status # "none",
         NEW ending \in {"DECLINED", "CANCELLED", "EXPIRED"},
         challenge' = [challenge EXCEPT ![c].status = ending],
         UNCHANGED <<friendship, blocks, match, unlooked>>,
         UNCHANGED thread \/ \E t \in Threads : Ends(t)
  PROVE  SocialInv'
<1> DEFINE row == [challenge[c] EXCEPT !.status = ending]
<1>1. challenge \in [ChallengeIds -> ChallengeRows] /\ challenge[c] \in ChallengeRows
  BY DEF SocialInv, SocialRows
<1>2. challenge' = [challenge EXCEPT ![c] = row]
  BY <1>1
<1>3. row \in ChallengeRows /\ row.status = ending /\ row.from = challenge[c].from /\ row.to = challenge[c].to
      /\ row.match = challenge[c].match
  BY <1>1 DEF ChallengeRows
<1> HIDE DEF row
<1>4. OnlyStatus
  BY <1>2, <1>3, StatusMoves DEF Open
<1>5. ChallengesName' /\ ChallengesSeatOnce' /\ \A e \in ChallengeIds : PairOf(e)' = PairOf(e) /\ (Matchable(e) => Matchable(e)')
  BY <1>4, StatusOnly
<1>6. \A e \in ChallengeIds : challenge[e].status # "none" => challenge'[e].status # "none" /\ PairOf(e)' = PairOf(e)
  BY <1>4, <1>5 DEF OnlyStatus
<1>7. thread' \in [Threads -> ThreadCalls] /\ ThreadsKnow'
  <2>1. ASSUME NEW t \in Threads, Ends(t) PROVE thread' \in [Threads -> ThreadCalls] /\ ThreadsKnow'
    BY <1>5, <1>6, <2>1, EndsAndStands
  <2>2. CASE UNCHANGED thread
    <3>1. \A q \in Acquainted : Blocked(q)' => Blocked(q)
      BY DEF Blocked
    <3>2. thread' \in [Threads -> ThreadCalls]
      BY <2>2 DEF SocialInv, SocialRows
    <3> QED
      BY <1>5, <1>6, <2>2, <3>1, <3>2, ThreadsStand
  <2> QED
    BY <2>1, <2>2
<1>8. SocialRows'
  BY <1>4, <1>7 DEF SocialInv, SocialRows, OnlyStatus
<1>9. BlockedStayApart'
  <2>1. \A e \in ChallengeIds : challenge'[e].status \in Open => challenge[e].status \in Open /\ challenge[e].status # "none"
    BY <1>1, <1>2, <1>3 DEF Open
  <2>2. ASSUME NEW q \in Acquainted, Blocked(q), q \notin unlooked
        PROVE  friendship[q].status = "none" /\ \A e \in ChallengeIds : PairOf(e) = q => challenge'[e].status \notin Open
    BY <2>1, <2>2 DEF SocialInv, BlockedStayApart, Between
  <2>3. \A q \in Acquainted : Blocked(q)' <=> Blocked(q)
    BY DEF Blocked
  <2> QED
    BY <1>5, <2>2, <2>3 DEF BlockedStayApart, Between
<1> QED
  BY <1>5, <1>7, <1>8, <1>9 DEF SocialInv

LEMMA EndingsKeepSocial ==
  ASSUME SocialInv, ExpireChallenges \/ \E t \in Threads : ResolveChallenge(t) PROVE SocialInv'
<1>1. CASE ExpireChallenges
  <2>1. PICK c \in ChallengeIds : challenge[c].status \in Open /\ challenge' = [challenge EXCEPT ![c].status = "EXPIRED"]
    BY <1>1 DEF ExpireChallenges
  <2> QED
    BY <1>1, <2>1, EndingKeepsSocial DEF ExpireChallenges, Open
<1>2. ASSUME NEW t \in Threads, ResolveChallenge(t) PROVE SocialInv'
  <2>1. PICK c \in ChallengeIds : c = thread[t].ch /\ challenge[c].status # "none"
    BY <1>2 DEF ResolveChallenge, SocialInv, ThreadsKnow, ThreadKnows
  <2>2. PICK ending \in {"DECLINED", "CANCELLED", "EXPIRED"} : challenge' = [challenge EXCEPT ![c].status = ending]
    BY <1>2, <2>1 DEF ResolveChallenge
  <2> QED
    BY <1>2, <2>1, <2>2, EndingKeepsSocial DEF ResolveChallenge
<1> QED
  BY <1>1, <1>2

LEMMA CreateKeepsSocial == ASSUME SocialInv, NEW t \in Threads, CreateChallenge(t) PROVE SocialInv'
<1>0. PICK q : q = thread[t].pair
  OBVIOUS
<1>1. thread[t].at = "challenging" /\ Ends(t) /\ UNCHANGED <<friendship, blocks, match>>
  BY DEF CreateChallenge
<1>2. q \in Acquainted /\ thread[t].by \in q /\ Unblocked(t)
  BY <1>0, <1>1 DEF SocialInv, ThreadsKnow, ThreadKnows
<1>3. CASE UNCHANGED <<challenge, unlooked>>
  <2>1. thread' = [thread EXCEPT ![t] = Free0]
    BY <1>1 DEF Ends
  <2>2. thread'[t] = Free0
    BY <2>1 DEF SocialInv, SocialRows
  <2>3. ThreadKnows(t)'
    BY <2>2, IdleThread, ChallengesAssumption DEF ThreadKnows
  <2> QED
    BY <1>1, <1>3, <2>1, <2>3, IdleThread, ThreadMoves, ChallengesAssumption
<1>4. CASE ~UNCHANGED <<challenge, unlooked>>
  <2>1. PICK c \in ChallengeIds :
          /\ NewChallenge(c) /\ Slips(t)
          /\ challenge' = [challenge EXCEPT ![c].from = thread[t].by, ![c].status = "PENDING",
                                            ![c].to = CHOOSE r \in q : r # thread[t].by]
    BY <1>0, <1>4 DEF CreateChallenge
  <2>2. PICK other \in q : other = (CHOOSE r \in q : r # thread[t].by) /\ other # thread[t].by /\ q = {thread[t].by, other}
                           /\ q \subseteq Players
    <3>1. PICK p \in Players, r \in Players : p # r /\ q = {p, r}
      BY <1>2, ChallengesAssumption
    <3>2. \E x \in q : x # thread[t].by
      BY <3>1
    <3>3. (CHOOSE x \in q : x # thread[t].by) \in q /\ (CHOOSE x \in q : x # thread[t].by) # thread[t].by
      BY <3>2
    <3> QED
      BY <1>2, <3>1, <3>3
  <2> DEFINE row == [challenge[c] EXCEPT !.from = thread[t].by, !.status = "PENDING", !.to = other]
  <2>3. challenge \in [ChallengeIds -> ChallengeRows] /\ challenge[c] \in ChallengeRows
    BY DEF SocialInv, SocialRows
  <2>4. challenge' = [challenge EXCEPT ![c] = row]
    BY <2>1, <2>2, <2>3
  <2>5. challenge[c].status = "none" /\ challenge[c].match = 0
    BY <2>1 DEF NewChallenge, SocialInv, ChallengesName
  <2>6. row \in ChallengeRows /\ row.status = "PENDING" /\ row.from = thread[t].by /\ row.to = other /\ row.match = 0
    BY <1>2, <2>2, <2>3, <2>5 DEF ChallengeRows
  <2> HIDE DEF row
  <2>7. /\ challenge' \in [ChallengeIds -> ChallengeRows] /\ challenge'[c] = row
        /\ \A e \in ChallengeIds \ {c} : challenge'[e] = challenge[e]
    BY <2>3, <2>4, <2>6
  <2>8. PairOf(c)' = q /\ \A e \in ChallengeIds \ {c} : PairOf(e)' = PairOf(e)
    BY <2>2, <2>6, <2>7 DEF PairOf
  <2>9. ChallengesName'
    BY <1>1, <1>2, <2>6, <2>7, <2>8 DEF SocialInv, ChallengesName
  <2>10. ChallengesSeatOnce'
    <3>1. \A e \in ChallengeIds : challenge'[e].match = challenge[e].match
      BY <2>5, <2>6, <2>7
    <3>2. \A e \in ChallengeIds : challenge'[e].status = "MATCHED" => challenge'[e].match # 0
      BY <2>6, <2>7 DEF SocialInv, ChallengesSeatOnce
    <3>3. ASSUME NEW g \in GameIds, match[g].paired
          PROVE  LET cs == {e \in ChallengeIds : challenge'[e].match = g} IN
                 Cardinality(cs) = 2 /\ match[g].seats = UNION {PairOf(e)' : e \in cs} /\ Cardinality(match[g].seats) = 4
      <4> DEFINE cs == {e \in ChallengeIds : challenge[e].match = g}
      <4>1. Cardinality(cs) = 2 /\ match[g].seats = UNION {PairOf(e) : e \in cs} /\ Cardinality(match[g].seats) = 4
        BY <3>3 DEF SocialInv, ChallengesSeatOnce
      <4>2. c \notin cs
        BY <2>5, NoGameIsZero
      <4>3. UNION {PairOf(e)' : e \in cs} = UNION {PairOf(e) : e \in cs}
        BY <2>8, <4>2
      <4>4. cs = {e \in ChallengeIds : challenge'[e].match = g}
        BY <3>1
      <4> QED
        BY <4>1, <4>3, <4>4
    <3>4. \A g, h \in GameIds : g # h /\ match[g].live /\ match[h].live /\ match[g].paired /\ match[h].paired
                                 => match[g].seats \cap match[h].seats = {}
      BY DEF SocialInv, ChallengesSeatOnce
    <3> QED
      BY <1>1, <3>2, <3>3, <3>4 DEF ChallengesSeatOnce
  <2>11. \A e \in ChallengeIds : challenge[e].status # "none" => challenge'[e].status # "none" /\ PairOf(e)' = PairOf(e)
    BY <2>5, <2>7, <2>8
  <2>12. \A e \in ChallengeIds : Matchable(e) => Matchable(e)'
    BY <1>1, <2>5, <2>7, <2>8 DEF Matchable
  <2>13. thread' \in [Threads -> ThreadCalls] /\ ThreadsKnow'
    BY <1>1, <2>11, <2>12, EndsAndStands
  <2>14. unlooked' = IF thread[t].late THEN unlooked \cup {q} ELSE unlooked
    BY <1>0, <2>1 DEF Slips
  <2>15. SocialRows'
    BY <1>1, <1>2, <2>7, <2>13, <2>14 DEF SocialInv, SocialRows
  <2>16. BlockedStayApart'
    <3>1. ASSUME NEW s \in Acquainted, Blocked(s), s \notin unlooked'
          PROVE  friendship[s].status = "none" /\ \A e \in ChallengeIds :
                    challenge'[e].status # "none" /\ PairOf(e)' = s => challenge'[e].status \notin Open
      <4>1. s # q /\ s \notin unlooked
        BY <1>0, <1>2, <2>14, <3>1 DEF Unblocked
      <4>2. friendship[s].status = "none" /\ \A e \in Between(s) : challenge[e].status \notin Open
        BY <3>1, <4>1 DEF SocialInv, BlockedStayApart
      <4> QED
        BY <2>7, <2>8, <4>1, <4>2 DEF Between
    <3>2. \A s \in Acquainted : Blocked(s)' <=> Blocked(s)
      BY <1>1 DEF Blocked
    <3> QED
      BY <1>1, <3>1, <3>2 DEF BlockedStayApart, Between
  <2> QED
    BY <2>9, <2>10, <2>13, <2>15, <2>16 DEF SocialInv
<1> QED
  BY <1>3, <1>4

(* Two pairs apart make a table of four. *)
LEMMA TableOfTwoPairs ==
  ASSUME NEW q \in Acquainted, NEW s \in Acquainted, q \cap s = {}
  PROVE  Cardinality(q \cup s) = 4
<1>1. PICK a, b : a # b /\ q = {a, b}
  BY ChallengesAssumption
<1>2. PICK c, d : c # d /\ s = {c, d}
  BY ChallengesAssumption
<1>3. a # c /\ a # d /\ b # c /\ b # d
  BY <1>1, <1>2
<1>4. IsFiniteSet({}) /\ Cardinality({}) = 0
  BY FS_EmptySet
<1>5. IsFiniteSet({a}) /\ Cardinality({a}) = 1
  BY FS_Singleton
<1>6. IsFiniteSet({a} \cup {b}) /\ Cardinality({a} \cup {b}) = 2
  <2>1. IsFiniteSet({a} \cup {b}) /\ Cardinality({a} \cup {b}) = Cardinality({a}) + 1
    BY <1>1, <1>5, FS_AddElement
  <2> QED
    BY <1>5, <2>1
<1>7. IsFiniteSet({a, b, c}) /\ Cardinality({a, b, c}) = 3
  <2>1. c \notin {a} \cup {b}
    BY <1>3
  <2>2. /\ IsFiniteSet(({a} \cup {b}) \cup {c})
        /\ Cardinality(({a} \cup {b}) \cup {c}) = Cardinality({a} \cup {b}) + 1
    BY <1>6, <2>1, FS_AddElement
  <2>3. ({a} \cup {b}) \cup {c} = {a, b, c}
    OBVIOUS
  <2>4. Cardinality(({a} \cup {b}) \cup {c}) = 3
    BY <1>6, <2>2
  <2> QED
    BY <2>2, <2>3, <2>4
<1>8. Cardinality({a, b, c, d}) = 4
  <2>1. d \notin {a, b, c}
    BY <1>2, <1>3
  <2>2. Cardinality({a, b, c} \cup {d}) = Cardinality({a, b, c}) + 1
    BY <1>7, <2>1, FS_AddElement
  <2>3. {a, b, c} \cup {d} = {a, b, c, d}
    OBVIOUS
  <2>4. Cardinality({a, b, c} \cup {d}) = 4
    BY <1>7, <2>2
  <2> QED
    BY <2>3, <2>4
<1>9. q \cup s = {a, b, c, d}
  BY <1>1, <1>2
<1> QED
  BY <1>8, <1>9

LEMMA MatchKeepsSocial == ASSUME SocialInv, NEW t \in Threads, CreateForAcceptedTeams(t) PROVE SocialInv'
<1>0. PICK c, d : c = thread[t].ch /\ d = thread[t].with
  OBVIOUS
<1>1. PICK g \in GameIds :
        /\ thread[t].at = "matching" /\ NewGame(g)
        /\ match' = [match EXCEPT ![g] = [live |-> TRUE, seats |-> PairOf(c) \cup PairOf(d), paired |-> TRUE]]
        /\ challenge' = [e \in ChallengeIds |-> IF e \in {c, d} THEN [challenge[e] EXCEPT !.status = "MATCHED", !.match = g]
                                                               ELSE challenge[e]]
        /\ Ends(t) /\ UNCHANGED <<friendship, blocks, unlooked>>
  BY <1>0 DEF CreateForAcceptedTeams
<1>2. /\ c \in ChallengeIds /\ d \in ChallengeIds /\ c # d /\ Matchable(c) /\ Matchable(d)
      /\ PairOf(c) \cap PairOf(d) = {} /\ PairOf(c) \in Acquainted /\ PairOf(d) \in Acquainted
  BY <1>0, <1>1 DEF SocialInv, ThreadsKnow, ThreadKnows, Matchable, ChallengesName
<1>3. challenge \in [ChallengeIds -> ChallengeRows] /\ match \in [GameIds -> GameRows] /\ g # 0
  BY NoGameIsZero DEF SocialInv, SocialRows
<1>4. ASSUME NEW e \in ChallengeIds
      PROVE  /\ challenge'[e] \in ChallengeRows
             /\ challenge'[e].from = challenge[e].from /\ challenge'[e].to = challenge[e].to
             /\ e \in {c, d} => challenge'[e].status = "MATCHED" /\ challenge'[e].match = g
             /\ e \notin {c, d} => challenge'[e] = challenge[e]
  BY <1>1, <1>3 DEF ChallengeRows
<1>5. challenge' \in [ChallengeIds -> ChallengeRows]
  <2>1. challenge' = [e \in ChallengeIds |-> challenge'[e]]
    BY <1>1
  <2> QED
    BY <1>4, <2>1
<1>6. \A e \in ChallengeIds : PairOf(e)' = PairOf(e)
  BY <1>4 DEF PairOf
<1>7. PairOf(c) \cup PairOf(d) \subseteq Players /\ Cardinality(PairOf(c) \cup PairOf(d)) = 4
  BY <1>2, TableOfTwoPairs, ChallengesAssumption
<1>8. /\ match' \in [GameIds -> GameRows]
      /\ match'[g].live /\ match'[g].paired /\ match'[g].seats = PairOf(c) \cup PairOf(d)
      /\ \A h \in GameIds \ {g} : match'[h] = match[h]
  BY <1>1, <1>3, <1>7 DEF GameRows
<1>9. ~match[g].paired
  <2>1. match[g].seats = {}
    BY <1>1 DEF NewGame
  <2>2. match[g].paired => Cardinality({}) = 4
    BY <2>1 DEF SocialInv, ChallengesSeatOnce
  <2> QED
    BY <2>2, FS_EmptySet
<1>10. \A e \in ChallengeIds : challenge[e].match # g
  BY <1>3, <1>9 DEF SocialInv, ChallengesName
<1>11. ChallengesName'
  <2>1. ASSUME NEW e \in ChallengeIds
        PROVE  /\ challenge'[e].status # "none" => PairOf(e) \in Acquainted
               /\ challenge'[e].status \in Open \cup {"none"} => challenge'[e].match = 0
               /\ challenge'[e].match # 0 => match'[challenge'[e].match].paired
    <3>1. CASE e \in {c, d}
      BY <1>2, <1>4, <1>8, <3>1 DEF Open
    <3>2. CASE e \notin {c, d}
      <4>1. challenge'[e] = challenge[e] /\ challenge[e].match \in GameIds \cup {0} /\ challenge[e].match # g
        BY <1>3, <1>4, <1>10, <3>2 DEF ChallengeRows
      <4> QED
        BY <1>8, <4>1 DEF SocialInv, ChallengesName
    <3> QED
      BY <3>1, <3>2
  <2> QED
    BY <1>6, <2>1 DEF ChallengesName
<1>12. ChallengesSeatOnce'
  <2>1. ASSUME NEW h \in GameIds, h # g, match[h].live, match[h].paired
        PROVE  match[h].seats \cap (PairOf(c) \cup PairOf(d)) = {}
    BY <1>2, <2>1 DEF Matchable
  <2>2. \A h, k \in GameIds : h # k /\ match'[h].live /\ match'[k].live /\ match'[h].paired /\ match'[k].paired
                               => match'[h].seats \cap match'[k].seats = {}
    <3>1. ASSUME NEW h \in GameIds, NEW k \in GameIds, h # k, match'[h].live, match'[k].live,
                 match'[h].paired, match'[k].paired
          PROVE  match'[h].seats \cap match'[k].seats = {}
      <4>1. CASE h = g
        BY <1>8, <2>1, <3>1, <4>1
      <4>2. CASE k = g
        BY <1>8, <2>1, <3>1, <4>2
      <4>3. CASE h # g /\ k # g
        BY <1>8, <3>1, <4>3 DEF SocialInv, ChallengesSeatOnce
      <4> QED
        BY <4>1, <4>2, <4>3
    <3> QED
      BY <3>1
  <2>3. \A e \in ChallengeIds : challenge'[e].status = "MATCHED" => challenge'[e].match # 0
    BY <1>3, <1>4 DEF SocialInv, ChallengesSeatOnce
  <2>4. ASSUME NEW h \in GameIds, match'[h].paired
        PROVE  LET cs == {e \in ChallengeIds : challenge'[e].match = h} IN
               Cardinality(cs) = 2 /\ match'[h].seats = UNION {PairOf(e)' : e \in cs} /\ Cardinality(match'[h].seats) = 4
    <3> DEFINE old == {e \in ChallengeIds : challenge[e].match = h}
               cs == {e \in ChallengeIds : challenge'[e].match = h}
    <3>1. CASE h = g
      <4>1. cs = {c} \cup {d}
        BY <1>2, <1>4, <1>10, <3>1
      <4>2. IsFiniteSet({c}) /\ Cardinality({c}) = 1
        BY FS_Singleton
      <4>3. Cardinality(cs) = 2
        <5>1. Cardinality({c} \cup {d}) = Cardinality({c}) + 1
          BY <1>2, <4>2, FS_AddElement
        <5>2. Cardinality({c} \cup {d}) = 2
          BY <4>2, <5>1
        <5> QED
          BY <4>1, <5>2, Zenon
      <4>4. UNION {PairOf(e)' : e \in cs} = PairOf(c) \cup PairOf(d)
        BY <1>2, <1>6, <4>1
      <4> QED
        BY <1>7, <1>8, <3>1, <4>3, <4>4
    <3>2. CASE h # g
      <4>1. match'[h] = match[h]
        BY <1>8, <3>2
      <4>2. Cardinality(old) = 2 /\ match[h].seats = UNION {PairOf(e) : e \in old} /\ Cardinality(match[h].seats) = 4
        BY <2>4, <4>1 DEF SocialInv, ChallengesSeatOnce
      <4>3. challenge[c].match = 0 /\ challenge[d].match = 0 /\ h # 0
        BY <1>2, NoGameIsZero DEF Matchable
      <4>4. cs = old
        BY <1>4, <3>2, <4>3
      <4>5. UNION {PairOf(e)' : e \in old} = UNION {PairOf(e) : e \in old}
        BY <1>6
      <4> QED
        BY <4>1, <4>2, <4>4, <4>5
    <3> QED
      BY <3>1, <3>2
  <2> QED
    BY <2>2, <2>3, <2>4 DEF ChallengesSeatOnce
<1>13. thread' \in [Threads -> ThreadCalls] /\ ThreadsKnow'
  <2>1. \A u \in Threads \ {t} : ~Holds(u)
    BY <1>1 DEF SocialInv, ThreadsKnow, Holds
  <2>2. \A e \in ChallengeIds : challenge[e].status # "none" => challenge'[e].status # "none" /\ PairOf(e)' = PairOf(e)
    BY <1>4, <1>6
  <2> QED
    BY <1>1, <2>1, <2>2, EndsAndStands
<1>14. SocialRows'
  BY <1>1, <1>5, <1>8, <1>13 DEF SocialInv, SocialRows
<1>15. BlockedStayApart'
  <2>1. \A e \in ChallengeIds : challenge'[e].status \in Open => challenge[e].status \in Open /\ challenge[e].status # "none"
    BY <1>4 DEF Open
  <2>2. ASSUME NEW q \in Acquainted, Blocked(q), q \notin unlooked
        PROVE  friendship[q].status = "none" /\ \A e \in ChallengeIds : PairOf(e) = q => challenge'[e].status \notin Open
    BY <2>1, <2>2 DEF SocialInv, BlockedStayApart, Between
  <2>3. \A q \in Acquainted : Blocked(q)' <=> Blocked(q)
    BY <1>1 DEF Blocked
  <2> QED
    BY <1>1, <1>6, <2>2, <2>3 DEF BlockedStayApart, Between
<1> QED
  BY <1>11, <1>12, <1>13, <1>14, <1>15 DEF SocialInv

-----------------------------------------------------------------------------
(* Other games. *)
LEMMA GamesKeepSocial == ASSUME SocialInv, CreateMatch \/ EndMatch PROVE SocialInv'
<1>1. UNCHANGED <<friendship, blocks, challenge, thread, unlooked>>
  BY DEF CreateMatch, EndMatch
<1>2. match \in [GameIds -> GameRows]
  BY DEF SocialInv, SocialRows
<1>3. /\ match' \in [GameIds -> GameRows]
      /\ \A g \in GameIds : /\ match[g].paired => match'[g].paired
                            /\ match'[g].paired => match[g].paired /\ match'[g].seats = match[g].seats
                                                   /\ (match'[g].live => match[g].live)
  <2>1. CASE CreateMatch
    <3>1. PICK g \in GameIds, four \in SUBSET Players :
            NewGame(g) /\ match' = [match EXCEPT ![g] = [live |-> TRUE, seats |-> four, paired |-> FALSE]]
      BY <2>1 DEF CreateMatch
    <3>2. ~match[g].paired
      <4>1. match[g].seats = {}
        BY <3>1 DEF NewGame
      <4>2. match[g].paired => Cardinality({}) = 4
        BY <4>1 DEF SocialInv, ChallengesSeatOnce
      <4> QED
        BY <4>2, FS_EmptySet
    <3>3. [live |-> TRUE, seats |-> four, paired |-> FALSE] \in GameRows
      BY DEF GameRows
    <3> QED
      BY <1>2, <3>1, <3>2, <3>3
  <2>2. CASE EndMatch
    <3>1. PICK g \in GameIds : match' = [match EXCEPT ![g].live = FALSE]
      BY <2>2 DEF EndMatch
    <3> QED
      BY <1>2, <3>1 DEF GameRows
  <2> QED
    BY <2>1, <2>2
<1>4. \A c \in ChallengeIds : PairOf(c)' = PairOf(c)
  BY <1>1 DEF PairOf
<1>5. ChallengesName'
  <2>1. \A c \in ChallengeIds : challenge[c].match \in GameIds \cup {0}
    BY DEF SocialInv, SocialRows, ChallengeRows
  <2> QED
    BY <1>1, <1>3, <1>4, <2>1 DEF SocialInv, ChallengesName
<1>6. ChallengesSeatOnce'
  <2>1. ASSUME NEW g \in GameIds, match'[g].paired
        PROVE  LET cs == {c \in ChallengeIds : challenge[c].match = g} IN
               Cardinality(cs) = 2 /\ match'[g].seats = UNION {PairOf(c) : c \in cs} /\ Cardinality(match'[g].seats) = 4
    <3>1. match[g].paired /\ match'[g].seats = match[g].seats
      BY <1>3, <2>1
    <3> QED
      BY <3>1 DEF SocialInv, ChallengesSeatOnce
  <2>2. \A g, h \in GameIds : g # h /\ match'[g].live /\ match'[h].live /\ match'[g].paired /\ match'[h].paired
                               => match'[g].seats \cap match'[h].seats = {}
    BY <1>3 DEF SocialInv, ChallengesSeatOnce
  <2>3. \A c \in ChallengeIds : challenge[c].status = "MATCHED" => challenge[c].match # 0
    BY DEF SocialInv, ChallengesSeatOnce
  <2> QED
    BY <1>1, <2>1, <2>2, <2>3 DEF ChallengesSeatOnce, PairOf
<1>7. \A c \in ChallengeIds : Matchable(c) => Matchable(c)'
  BY <1>1, <1>3, <1>4 DEF Matchable
<1>8. ThreadsKnow'
  <2>1. \A q \in Acquainted : Blocked(q)' => Blocked(q)
    BY <1>1 DEF Blocked
  <2>2. thread' \in [Threads -> ThreadCalls]
    BY <1>1 DEF SocialInv, SocialRows
  <2> QED
    BY <1>1, <1>4, <1>7, <2>1, <2>2, ThreadsStand
<1>9. SocialRows'
  BY <1>1, <1>3 DEF SocialInv, SocialRows
<1>10. BlockedStayApart'
  BY <1>1 DEF SocialInv, BlockedStayApart, Blocked, Between, PairOf
<1> QED
  BY <1>5, <1>6, <1>8, <1>9, <1>10 DEF SocialInv

LEMMA SocialKept == ASSUME SocialInv, [SocialNext]_socialVars PROVE SocialInv'
<1>1. CASE UNCHANGED socialVars
  <2>1. UNCHANGED <<friendship, blocks, challenge, match, thread, unlooked>>
    BY <1>1 DEF socialVars
  <2>2. ChallengesName' /\ ChallengesSeatOnce' /\ \A c \in ChallengeIds : PairOf(c)' = PairOf(c) /\ (Matchable(c) => Matchable(c)')
    BY <2>1, StatusOnly, SameIsOnlyStatus
  <2>3. SocialRows'
    BY <2>1 DEF SocialInv, SocialRows
  <2>4. \A q \in Acquainted : Blocked(q)' => Blocked(q)
    BY <2>1 DEF Blocked
  <2>5. ThreadsKnow'
    BY <2>1, <2>2, <2>3, <2>4, ThreadsStand DEF SocialRows
  <2>6. BlockedStayApart'
    BY <2>1 DEF SocialInv, BlockedStayApart, Blocked, Between, PairOf
  <2> QED
    BY <2>2, <2>3, <2>5, <2>6 DEF SocialInv
<1>2. CASE RemoveFriend \/ Block \/ Unblock \/ CreateMatch \/ EndMatch
  BY <1>2, RemoveKeepsSocial, BlockKeepsSocial, UnblockKeepsSocial, GamesKeepSocial
<1>3. CASE ExpireChallenges
  BY <1>3, EndingsKeepSocial
<1>4. ASSUME NEW t \in Threads, SocialStep(t) PROVE SocialInv'
  BY <1>4, LooksKeepSocial, AcceptKeepsSocial, FindKeepsSocial, ResolveReadKeepsSocial, FriendshipsKeepSocial,
     WaitKeepsSocial, EndingsKeepSocial, CreateKeepsSocial, MatchKeepsSocial DEF SocialStep
<1> QED
  BY <1>1, <1>2, <1>3, <1>4 DEF SocialNext

(* Friendships, blocks, challenges and games agree for any number of players,  *)
(* challenges, games and calls at once: nobody is seated by challenges in two  *)
(* games that run, a game that two challenges made seats their four players,   *)
(* and two of whom one blocked the other stay apart unless a call wrote that   *)
(* had looked before the block.                                                *)
THEOREM SocialAlwaysAgrees == SocialSpec => []SocialAgrees
<1>1. SocialInv => SocialAgrees
  BY DEF SocialInv, SocialRows, FriendRows, ChallengeRows, GameRows, Open, SocialAgrees, SocialTypeOK
<1>2. (\E friends \in SUBSET Acquainted, some \in SUBSET ChallengeIds :
         \E pending \in [some -> {w \in Players \X Players : {w[1], w[2]} \in Acquainted}] : SocialInit(friends, pending))
      => SocialInv
  BY SocialStarts
<1> QED
  BY <1>1, <1>2, SocialKept, PTL DEF SocialSpec


-----------------------------------------------------------------------------
(* Notifications, the early-access list and memberships. *)
(* What a call in progress holds, by its stage.                              *)
VisitStages == {"joining", "looking", "renewing", "cancelling", "answering"}
VisitCalls == [at : VisitStages \cup {Free}, by : Members \cup {Free}, email : Addresses \cup {Free},
               mine : LeadRows \cup {Free}, owner : Members \cup {Free}, tier : Tiers \cup {Free}, old : BOOLEAN]

(* A call that joins the list holds an address that was the player's to take: *)
(* with a row of his own he keeps one; without, the address had no owner.     *)
JoinerKnows(t) ==
    visit[t].at = "joining" =>
        /\ visit[t].email \in Addresses
        /\ IF visit[t].mine = Free THEN visit[t].owner = Free
           ELSE visit[t].by \in displaced \/ RowOfMember(visit[t].by) # {}

(* A call that looks at a membership holds the player's tier, or knows that   *)
(* it was changed after it was read.                                          *)
LookerKnows(t) ==
    visit[t].at \in {"looking", "renewing"} =>
        visit[t].tier \in Tiers /\ (visit[t].old \/ visit[t].tier = tier[visit[t].by])

VisitsKnow ==
    /\ visit \in [Requests -> VisitCalls]
    /\ \A t \in Requests : /\ visit[t].at # Free => visit[t].by \in Members
                           /\ JoinerKnows(t) /\ LookerKnows(t)

StandingInv == EngagementTypeOK /\ VisitsKnow /\ MembershipFollowsTier /\ JoinedStaysListed

LEMMA OneOfThem == ASSUME NEW S, S # {} PROVE One(S) \in S
BY DEF One

LEMMA StandingStarts == EngagementInit => StandingInv
<1>1. SUFFICES ASSUME EngagementInit PROVE StandingInv
  OBVIOUS
<1>2. EngagementTypeOK
  BY <1>1, EngagementAssumption DEF EngagementInit, EngagementTypeOK
<1>3. NoVisit \in VisitCalls /\ NoVisit.at = Free
  BY DEF NoVisit, VisitCalls
<1>4. VisitsKnow
  BY <1>1, <1>3, EngagementAssumption DEF EngagementInit, VisitsKnow, JoinerKnows, LookerKnows
<1>5. MembershipFollowsTier
  BY <1>1 DEF EngagementInit, MembershipFollowsTier
<1>6. JoinedStaysListed
  BY <1>1, EngagementAssumption DEF EngagementInit, JoinedStaysListed
<1> QED
  BY <1>2, <1>4, <1>5, <1>6 DEF StandingInv

(* The calls are as good as before when what they know of stands and only one *)
(* of them changed, which holds what its stage asks for.                      *)
LEMMA OneVisitMoves ==
  ASSUME VisitsKnow, tier' = tier, NEW t \in Requests, NEW step \in VisitCalls,
         visit' = [visit EXCEPT ![t] = step],
         \A p \in Members \ displaced' : p \in displaced => RowOfMember(p)' # {},
         \A p \in Members \ displaced' : RowOfMember(p) # {} => RowOfMember(p)' # {},
         step.at # Free => step.by \in Members,
         JoinerKnows(t)', LookerKnows(t)'
  PROVE  VisitsKnow'
<1>1. visit' \in [Requests -> VisitCalls]
  BY DEF VisitsKnow
<1>2. ASSUME NEW u \in Requests
      PROVE  (visit[u].at # Free => visit[u].by \in Members)' /\ JoinerKnows(u)' /\ LookerKnows(u)'
  <2>1. CASE u = t
    BY <2>1 DEF VisitsKnow
  <2>2. CASE u # t
    <3>1. visit'[u] = visit[u] /\ JoinerKnows(u) /\ LookerKnows(u) /\ (visit[u].at # Free => visit[u].by \in Members)
      BY <2>2 DEF VisitsKnow
    <3>2. JoinerKnows(u)'
      BY <3>1, EngagementAssumption DEF JoinerKnows
    <3>3. LookerKnows(u)'
      BY <3>1 DEF LookerKnows
    <3> QED
      BY <3>1, <3>2, <3>3
  <2> QED
    BY <2>1, <2>2
<1> QED
  BY <1>1, <1>2 DEF VisitsKnow

LEMMA RowsStand ==
  ASSUME UNCHANGED <<lead, displaced>>
  PROVE  /\ \A p \in Members \ displaced' : p \in displaced => RowOfMember(p)' # {}
         /\ \A p \in Members \ displaced' : RowOfMember(p) # {} => RowOfMember(p)' # {}
BY DEF RowOfMember

(* Idle calls know nothing. *)
LEMMA LeavingKnows ==
  ASSUME VisitsKnow, NEW t \in Requests, Leaves(t)
  PROVE  /\ NoVisit \in VisitCalls /\ NoVisit.at = Free
         /\ visit' = [visit EXCEPT ![t] = NoVisit]
         /\ JoinerKnows(t)' /\ LookerKnows(t)'
<1>1. NoVisit \in VisitCalls /\ NoVisit.at = Free
  BY DEF NoVisit, VisitCalls
<1>2. visit' = [visit EXCEPT ![t] = NoVisit] /\ visit'[t] = NoVisit
  BY DEF Leaves, VisitsKnow
<1> QED
  BY <1>1, <1>2, EngagementAssumption DEF JoinerKnows, LookerKnows

(* Notifications concern no call, row or membership. *)
LEMMA NoticesKeepStanding == ASSUME StandingInv, NoticeNext PROVE StandingInv'
<1>1. UNCHANGED <<tier, lead, membership, visit, moved, displaced>>
  BY DEF NoticeNext, UpdateNotificationPreferences, Notifications, ReadNotification, ReadAll
<1>2. VisitsKnow' /\ MembershipFollowsTier'
  BY <1>1 DEF StandingInv, VisitsKnow, JoinerKnows, LookerKnows, RowOfMember, MembershipFollowsTier
<1>3. /\ inApp' \in [Members -> BOOLEAN] /\ notes' \in [Members -> [Topics -> {"none", "unread", "read"}]]
      /\ \A p \in Members : notes'[p]["joined"] # "none" => notes[p]["joined"] # "none"
  <2>0. /\ inApp \in [Members -> BOOLEAN] /\ notes \in [Members -> [Topics -> {"none", "unread", "read"}]]
        /\ {"welcome", "joined"} \subseteq Topics
    BY EngagementAssumption DEF StandingInv, EngagementTypeOK
  <2>1. CASE UpdateNotificationPreferences
    BY <2>0, <2>1 DEF UpdateNotificationPreferences
  <2>2. CASE Notifications
    BY <2>0, <2>2 DEF Notifications, Told
  <2>3. CASE ReadNotification
    BY <2>0, <2>3 DEF ReadNotification
  <2>4. CASE ReadAll
    BY <2>0, <2>4 DEF ReadAll
  <2> QED
    BY <2>1, <2>2, <2>3, <2>4 DEF NoticeNext
<1>4. EngagementTypeOK'
  BY <1>1, <1>3 DEF StandingInv, EngagementTypeOK
<1>5. JoinedStaysListed'
  BY <1>1, <1>3 DEF StandingInv, JoinedStaysListed, RowOfMember
<1> QED
  BY <1>2, <1>4, <1>5 DEF StandingInv

(* When the tier of p alone is changed, and the calls that had read it are    *)
(* marked, every call still holds what it should.                             *)
LEMMA OutdatedKnow ==
  ASSUME VisitsKnow, NEW p \in Members, NEW new \in Tiers, tier \in [Members -> Tiers],
         tier' = [tier EXCEPT ![p] = new], visit' = Outdated(p), UNCHANGED <<lead, displaced>>
  PROVE  VisitsKnow'
<1>1. ASSUME NEW u \in Requests
      PROVE  /\ visit'[u] \in VisitCalls
             /\ visit'[u].at = visit[u].at /\ visit'[u].by = visit[u].by /\ visit'[u].email = visit[u].email
             /\ visit'[u].mine = visit[u].mine /\ visit'[u].owner = visit[u].owner /\ visit'[u].tier = visit[u].tier
             /\ visit'[u].old = (visit[u].old \/ (visit[u].by = p /\ visit[u].tier # Free))
  <2>1. visit[u] \in VisitCalls
    BY DEF VisitsKnow
  <2>2. visit'[u] = IF visit[u].by = p /\ visit[u].tier # Free THEN [visit[u] EXCEPT !.old = TRUE] ELSE visit[u]
    BY DEF Outdated
  <2> QED
    BY <2>1, <2>2 DEF VisitCalls
<1>2. visit' \in [Requests -> VisitCalls]
  <2>1. visit' = [u \in Requests |-> visit'[u]]
    BY DEF Outdated
  <2> QED
    BY <1>1, <2>1
<1>3. ASSUME NEW u \in Requests
      PROVE  (visit[u].at # Free => visit[u].by \in Members)' /\ JoinerKnows(u)' /\ LookerKnows(u)'
  <2>1. /\ visit[u].at # Free => visit[u].by \in Members
        /\ JoinerKnows(u) /\ LookerKnows(u)
    BY DEF VisitsKnow
  <2>2. JoinerKnows(u)'
    BY <1>1, <2>1 DEF JoinerKnows, RowOfMember
  <2>3. LookerKnows(u)'
    BY <1>1, <2>1, EngagementAssumption DEF LookerKnows
  <2> QED
    BY <1>1, <2>1, <2>2, <2>3
<1> QED
  BY <1>2, <1>3 DEF VisitsKnow

(* A new tier leaves what earlier calls read of it behind. *)
LEMMA TierKeepsStanding == ASSUME StandingInv, SetTier PROVE StandingInv'
<1>1. PICK p \in Members, new \in Tiers :
        tier' = [tier EXCEPT ![p] = new] /\ moved' = moved \cup {p} /\ visit' = Outdated(p)
  BY DEF SetTier
<1>2. UNCHANGED <<inApp, notes, lead, membership, displaced>>
  BY DEF SetTier
<1>3. EngagementTypeOK'
  BY <1>1, <1>2 DEF StandingInv, EngagementTypeOK
<1>4. MembershipFollowsTier'
  BY <1>1, <1>2 DEF StandingInv, EngagementTypeOK, MembershipFollowsTier
<1>5. JoinedStaysListed'
  BY <1>2 DEF StandingInv, JoinedStaysListed, RowOfMember
<1>6. VisitsKnow'
  BY <1>1, <1>2, OutdatedKnow DEF StandingInv, EngagementTypeOK
<1> QED
  BY <1>3, <1>4, <1>5, <1>6 DEF StandingInv

LEMMA BeginJoinKeepsStanding ==
  ASSUME StandingInv, NEW t \in Requests, BeginJoin(t) PROVE StandingInv'
<1>1. PICK p \in Members, e \in Addresses :
        /\ AddressIsFor(e, p)
        /\ Visits(t, [NoVisit EXCEPT !.at = "joining", !.by = p, !.email = e, !.mine = One(RowOfMember(p)),
                       !.owner = IF RowOfEmail(e) = {} THEN Free ELSE lead[One(RowOfEmail(e))].who])
  BY DEF BeginJoin
<1> DEFINE step == [NoVisit EXCEPT !.at = "joining", !.by = p, !.email = e, !.mine = One(RowOfMember(p)),
                       !.owner = IF RowOfEmail(e) = {} THEN Free ELSE lead[One(RowOfEmail(e))].who]
<1>2. UNCHANGED <<tier, inApp, notes, lead, membership, moved, displaced>>
  BY DEF BeginJoin
<1>3. EngagementTypeOK' /\ MembershipFollowsTier' /\ JoinedStaysListed'
  BY <1>2 DEF StandingInv, EngagementTypeOK, MembershipFollowsTier, JoinedStaysListed, RowOfMember
<1>4. IF RowOfMember(p) = {} THEN step.mine = Free ELSE step.mine \in RowOfMember(p)
  BY OneOfThem DEF NoVisit, One
<1>5. IF RowOfEmail(e) = {} THEN step.owner = Free
      ELSE \E r \in RowOfEmail(e) : step.owner = lead[r].who
  BY OneOfThem DEF NoVisit
<1>6. step.at = "joining" /\ step.by = p /\ step.email = e
  BY DEF NoVisit
<1>7. step \in VisitCalls
  <2>1. step.mine \in LeadRows \cup {Free}
    BY <1>4 DEF RowOfMember
  <2>2. step.owner \in Members \cup {Free}
    BY <1>5 DEF RowOfEmail, StandingInv, EngagementTypeOK
  <2> QED
    BY <2>1, <2>2 DEF NoVisit, VisitCalls, VisitStages
<1>8. step.mine = Free => step.owner = Free
  <2>1. ASSUME step.mine = Free, NEW r \in RowOfEmail(e)
        PROVE  lead[r].who = Free
    <3>1. RowOfMember(p) = {}
      BY <1>4, <2>1, EngagementAssumption DEF RowOfMember
    <3> QED
      BY <3>1, <1>1 DEF RowOfMember, RowOfEmail, AddressIsFor
  <2> QED
    BY <2>1, <1>5
<1>9. step.mine # Free => RowOfMember(p) # {}
  BY <1>4
<1> HIDE DEF step
<1>10. visit' = [visit EXCEPT ![t] = step] /\ visit'[t] = step
  BY <1>1 DEF step, Visits, StandingInv, VisitsKnow
<1>11. JoinerKnows(t)' /\ LookerKnows(t)'
  BY <1>2, <1>6, <1>8, <1>9, <1>10 DEF JoinerKnows, LookerKnows, RowOfMember
<1>12. VisitsKnow'
  BY <1>2, <1>6, <1>7, <1>10, <1>11, OneVisitMoves, RowsStand DEF StandingInv
<1> QED
  BY <1>3, <1>12 DEF StandingInv

LEMMA JoinKeepsStanding ==
  ASSUME StandingInv, NEW t \in Requests, Join(t) PROVE StandingInv'
<1>0. PICK p : p = visit[t].by
  OBVIOUS
<1> DEFINE v == visit[t]
           r == JoinedRow(t)
<1>1. /\ v.at = "joining" /\ Leaves(t) /\ UNCHANGED <<tier, inApp>>
      /\ p \in Members /\ v.email \in Addresses /\ v \in VisitCalls
      /\ IF v.mine = Free THEN v.owner = Free ELSE p \in displaced \/ RowOfMember(p) # {}
  BY <1>0, EngagementAssumption DEF Join, StandingInv, VisitsKnow, JoinerKnows
<1>2. CASE UNCHANGED <<lead, membership, moved, notes, displaced>>
  <2>1. EngagementTypeOK' /\ MembershipFollowsTier' /\ JoinedStaysListed'
    BY <1>1, <1>2 DEF StandingInv, EngagementTypeOK, MembershipFollowsTier, JoinedStaysListed, RowOfMember
  <2>2. VisitsKnow'
    BY <1>1, <1>2, LeavingKnows, OneVisitMoves, RowsStand DEF StandingInv
  <2> QED
    BY <2>1, <2>2 DEF StandingInv
<1>3. CASE ~UNCHANGED <<lead, membership, moved, notes, displaced>>
  <2>1. /\ r # Free
        /\ lead' = IF v.mine # Free THEN [lead EXCEPT ![r].email = v.email]
                   ELSE [lead EXCEPT ![r] = [email |-> v.email, who |-> p]]
        /\ membership' = IF membership[p].status # "none" THEN membership
             ELSE [membership EXCEPT ![p] = [tier |-> tier[p], status |-> IF tier[p] = "PLAYER" THEN "WAITLISTED" ELSE "ACTIVE"]]
        /\ moved' = IF membership[p].status # "none" THEN moved ELSE moved \ {p}
        /\ notes' = Told(p, "joined")
        /\ displaced' = IF v.mine = Free /\ v.owner = Free
                        THEN (displaced \ {p}) \cup ({lead[r].who} \ {p, Free}) ELSE displaced
    BY <1>0, <1>1, <1>3 DEF Join
  <2>2. r \in LeadRows
    <3>1. CASE v.mine # Free
      BY <1>1, <3>1 DEF JoinedRow, VisitCalls
    <3>2. CASE v.mine = Free
      <4>1. CASE RowOfEmail(v.email) # {}
        BY <3>2, <4>1, OneOfThem DEF JoinedRow, RowOfEmail
      <4>2. CASE RowOfEmail(v.email) = {}
        <5>1. r = One({x \in LeadRows : lead[x].email = Free})
          BY <3>2, <4>2 DEF JoinedRow
        <5>2. {x \in LeadRows : lead[x].email = Free} # {}
          BY <5>1, <2>1 DEF One
        <5>3. r \in {x \in LeadRows : lead[x].email = Free}
          BY <5>1, <5>2, OneOfThem, Zenon
        <5> QED
          BY <5>3
      <4> QED
        BY <4>1, <4>2
    <3> QED
      BY <3>1, <3>2
  <2> HIDE DEF r
  <2>3. /\ lead \in [LeadRows -> [email : Addresses \cup {Free}, who : Members \cup {Free}]]
        /\ lead[r] \in [email : Addresses \cup {Free}, who : Members \cup {Free}]
        /\ tier \in [Members -> Tiers] /\ moved \subseteq Members /\ displaced \subseteq Members
        /\ membership \in [Members -> [status : {"none", "WAITLISTED", "ACTIVE", "CANCELLED"}, tier : Tiers]]
        /\ notes \in [Members -> [Topics -> {"none", "unread", "read"}]] /\ "joined" \in Topics
    BY <2>2, EngagementAssumption DEF StandingInv, EngagementTypeOK
  <2>4. /\ lead' \in [LeadRows -> [email : Addresses \cup {Free}, who : Members \cup {Free}]]
        /\ lead'[r].email = v.email /\ lead'[r].who = (IF v.mine # Free THEN lead[r].who ELSE p)
        /\ \A x \in LeadRows \ {r} : lead'[x] = lead[x]
    <3>1. CASE v.mine # Free
      BY <1>1, <2>1, <2>2, <2>3, <3>1
    <3>2. CASE v.mine = Free
      BY <1>1, <2>1, <2>2, <2>3, <3>2
    <3> QED
      BY <3>1, <3>2
  <2>5. displaced' \subseteq Members
    BY <2>1, <2>3
  <2>6. EngagementTypeOK'
    <3>1. membership' \in [Members -> [status : {"none", "WAITLISTED", "ACTIVE", "CANCELLED"}, tier : Tiers]]
      <4>1. [tier |-> tier[p], status |-> IF tier[p] = "PLAYER" THEN "WAITLISTED" ELSE "ACTIVE"]
               \in [status : {"none", "WAITLISTED", "ACTIVE", "CANCELLED"}, tier : Tiers]
        BY <1>1, <2>3
      <4> QED
        BY <4>1, <1>1, <2>1, <2>3
    <3>2. notes' \in [Members -> [Topics -> {"none", "unread", "read"}]]
      BY <1>1, <2>1, <2>3 DEF Told
    <3> QED
      BY <1>1, <2>1, <2>4, <2>5, <3>1, <3>2 DEF StandingInv, EngagementTypeOK
  <2>7. MembershipFollowsTier'
    <3>1. ASSUME NEW q \in Members, q \notin moved', membership'[q].status \in {"ACTIVE", "CANCELLED"}
          PROVE  membership'[q].tier = tier[q]
      <4>1. CASE membership' = membership /\ moved' = moved
        BY <3>1, <4>1 DEF StandingInv, MembershipFollowsTier
      <4>2. CASE ~(membership' = membership /\ moved' = moved)
        <5>1. /\ membership' = [membership EXCEPT ![p] =
                    [tier |-> tier[p], status |-> IF tier[p] = "PLAYER" THEN "WAITLISTED" ELSE "ACTIVE"]]
              /\ moved' = moved \ {p}
          BY <2>1, <4>2
        <5>2. CASE q = p
          BY <5>1, <5>2, <2>3, <1>1
        <5>3. CASE q # p
          BY <3>1, <5>1, <5>3, <2>3 DEF StandingInv, MembershipFollowsTier
        <5> QED
          BY <5>2, <5>3
      <4> QED
        BY <4>1, <4>2
    <3> QED
      BY <1>1, <3>1 DEF MembershipFollowsTier
  <2>8. \A q \in Members \ displaced' : RowOfMember(q) # {} => RowOfMember(q)' # {}
    <3>1. ASSUME NEW q \in Members \ displaced', NEW x \in LeadRows, lead[x].who = q
          PROVE  RowOfMember(q)' # {}
      <4>1. CASE lead'[x].who = q
        BY <4>1 DEF RowOfMember
      <4>2. CASE lead'[x].who # q
        <5>1. x = r /\ v.mine = Free
          BY <2>4, <3>1, <4>2
        <5>2. q \in displaced' \/ q = p
          BY <5>1, <1>1, <2>1, <3>1, EngagementAssumption
        <5> QED
          BY <5>1, <5>2, <2>2, <2>4 DEF RowOfMember
      <4> QED
        BY <4>1, <4>2
    <3> QED
      BY <3>1 DEF RowOfMember
  <2>9. p \notin displaced' => RowOfMember(p)' # {}
    <3>1. CASE v.mine = Free
      BY <2>2, <2>4, <3>1 DEF RowOfMember
    <3>2. CASE v.mine # Free
      BY <1>1, <2>1, <2>8, <3>2
    <3> QED
      BY <3>1, <3>2
  <2>10. \A q \in Members \ {p} : q \in displaced => q \in displaced'
    BY <2>1
  <2>11. JoinedStaysListed'
    <3>1. ASSUME NEW q \in Members \ displaced', notes'[q]["joined"] # "none"
          PROVE  RowOfMember(q)' # {}
      <4>1. CASE q = p
        BY <4>1, <2>9, <3>1
      <4>2. CASE q # p
        <5>1. notes'[q] = notes[q] /\ q \notin displaced
          BY <2>1, <2>3, <2>10, <3>1, <4>2 DEF Told
        <5> QED
          BY <3>1, <5>1, <2>8 DEF StandingInv, JoinedStaysListed
      <4> QED
        BY <4>1, <4>2
    <3> QED
      BY <3>1 DEF JoinedStaysListed
  <2>12. VisitsKnow'
    <3>1. \A q \in Members \ displaced' : q \in displaced => RowOfMember(q)' # {}
      BY <2>9, <2>10
    <3> QED
      BY <1>1, <2>8, <3>1, LeavingKnows, OneVisitMoves DEF StandingInv
  <2> QED
    BY <2>6, <2>7, <2>11, <2>12 DEF StandingInv
<1> QED
  BY <1>2, <1>3

(* A call that begins, goes on or ends and changes no row. *)
LEMMA QuietVisitKeepsStanding ==
  ASSUME StandingInv, NEW t \in Requests, NEW step \in VisitCalls,
         visit' = [visit EXCEPT ![t] = step],
         UNCHANGED <<tier, inApp, notes, lead, membership, moved, displaced>>,
         step.at # "joining", step.at # Free => step.by \in Members,
         step.at \in {"looking", "renewing"} => step.tier \in Tiers /\ (step.old \/ step.tier = tier[step.by])
  PROVE  StandingInv'
<1>1. EngagementTypeOK' /\ MembershipFollowsTier' /\ JoinedStaysListed'
  BY DEF StandingInv, EngagementTypeOK, MembershipFollowsTier, JoinedStaysListed, RowOfMember
<1>2. visit'[t] = step
  BY DEF StandingInv, VisitsKnow
<1>3. JoinerKnows(t)' /\ LookerKnows(t)'
  BY <1>2 DEF JoinerKnows, LookerKnows
<1>4. VisitsKnow'
  BY <1>2, <1>3, OneVisitMoves, RowsStand DEF StandingInv
<1> QED
  BY <1>1, <1>4 DEF StandingInv

LEMMA LookKeepsStanding ==
  ASSUME StandingInv, NEW t \in Requests,
         Membership(t) \/ FindMembership(t) \/ CancelMembership(t) \/ AnswerMembership(t)
  PROVE  StandingInv'
<1>0. /\ NoVisit \in VisitCalls /\ NoVisit.at = Free /\ visit[t] \in VisitCalls
      /\ tier \in [Members -> Tiers]
  BY DEF NoVisit, VisitCalls, StandingInv, VisitsKnow, EngagementTypeOK
<1>1. CASE Membership(t)
  <2>1. PICK p \in Members : Visits(t, [NoVisit EXCEPT !.at = "looking", !.by = p, !.tier = tier[p]])
    BY <1>1 DEF Membership
  <2> DEFINE step == [NoVisit EXCEPT !.at = "looking", !.by = p, !.tier = tier[p]]
  <2>2. step.at = "looking" /\ step.by = p /\ step.tier = tier[p] /\ step \in VisitCalls
    BY <1>0 DEF NoVisit, VisitCalls, VisitStages
  <2>3. visit' = [visit EXCEPT ![t] = step]
    BY <2>1 DEF Visits
  <2> HIDE DEF step
  <2> QED
    BY <1>0, <1>1, <2>2, <2>3, QuietVisitKeepsStanding DEF Membership
<1>2. CASE FindMembership(t)
  <2> DEFINE v == visit[t]
             step == IF Mismatch(v.by, v.tier) THEN [v EXCEPT !.at = "renewing"] ELSE NoVisit
  <2>1. v.at = "looking" /\ visit' = [visit EXCEPT ![t] = step]
    BY <1>2 DEF FindMembership
  <2>2. v.by \in Members /\ v.tier \in Tiers /\ (v.old \/ v.tier = tier[v.by])
    BY <2>1, EngagementAssumption DEF StandingInv, VisitsKnow, LookerKnows
  <2>3. /\ step \in VisitCalls
        /\ step.at \in {"renewing", Free}
        /\ step.at # Free => step.by = v.by /\ step.tier = v.tier /\ step.old = v.old
    BY <1>0 DEF NoVisit, VisitCalls, VisitStages
  <2> HIDE DEF step
  <2> QED
    BY <1>2, <2>1, <2>2, <2>3, EngagementAssumption, QuietVisitKeepsStanding DEF FindMembership
<1>3. CASE CancelMembership(t)
  <2>1. PICK p \in Members : Visits(t, [NoVisit EXCEPT !.at = "cancelling", !.by = p])
    BY <1>3 DEF CancelMembership
  <2> DEFINE step == [NoVisit EXCEPT !.at = "cancelling", !.by = p]
  <2>2. step.at = "cancelling" /\ step.by = p /\ step \in VisitCalls
    BY DEF NoVisit, VisitCalls, VisitStages
  <2>3. visit' = [visit EXCEPT ![t] = step]
    BY <2>1 DEF Visits
  <2> HIDE DEF step
  <2> QED
    BY <1>3, <2>2, <2>3, QuietVisitKeepsStanding DEF CancelMembership
<1>4. CASE AnswerMembership(t)
  <2> DEFINE p == visit[t].by
             step == [NoVisit EXCEPT !.at = "looking", !.by = p, !.tier = tier[p]]
  <2>1. visit[t].at = "answering" /\ visit' = [visit EXCEPT ![t] = step]
    BY <1>4 DEF AnswerMembership
  <2>2. p \in Members
    BY <2>1, EngagementAssumption DEF StandingInv, VisitsKnow
  <2>3. step.at = "looking" /\ step.by = p /\ step.tier = tier[p] /\ step \in VisitCalls
    BY <1>0, <2>2 DEF NoVisit, VisitCalls, VisitStages
  <2> HIDE DEF step
  <2> QED
    BY <1>0, <1>4, <2>1, <2>2, <2>3, QuietVisitKeepsStanding DEF AnswerMembership
<1> QED
  BY <1>1, <1>2, <1>3, <1>4

LEMMA RenewKeepsStanding ==
  ASSUME StandingInv, NEW t \in Requests, Renew(t) PROVE StandingInv'
<1> DEFINE v == visit[t]
<1>1. /\ v.at = "renewing" /\ Leaves(t) /\ UNCHANGED <<tier, inApp, notes, lead, displaced>>
      /\ membership' = [membership EXCEPT ![v.by] = [status |-> "ACTIVE", tier |-> v.tier]]
      /\ moved' = IF v.old THEN moved \cup {v.by} ELSE moved \ {v.by}
  BY DEF Renew
<1>2. v.by \in Members /\ v.tier \in Tiers /\ (v.old \/ v.tier = tier[v.by])
  BY <1>1, EngagementAssumption DEF StandingInv, VisitsKnow, LookerKnows
<1>3. /\ membership \in [Members -> [status : {"none", "WAITLISTED", "ACTIVE", "CANCELLED"}, tier : Tiers]]
      /\ moved \subseteq Members
  BY DEF StandingInv, EngagementTypeOK
<1> HIDE DEF v
<1>4. EngagementTypeOK'
  BY <1>1, <1>2, <1>3 DEF StandingInv, EngagementTypeOK
<1>5. MembershipFollowsTier'
  <2>1. ASSUME NEW q \in Members, q \notin moved', membership'[q].status \in {"ACTIVE", "CANCELLED"}
        PROVE  membership'[q].tier = tier[q]
    <3>1. CASE q = v.by
      BY <1>1, <1>2, <1>3, <2>1, <3>1
    <3>2. CASE q # v.by
      BY <1>1, <1>2, <1>3, <2>1, <3>2 DEF StandingInv, MembershipFollowsTier
    <3> QED
      BY <3>1, <3>2
  <2> QED
    BY <1>1, <2>1 DEF MembershipFollowsTier
<1>6. JoinedStaysListed'
  BY <1>1 DEF StandingInv, JoinedStaysListed, RowOfMember
<1>7. VisitsKnow'
  BY <1>1, LeavingKnows, OneVisitMoves, RowsStand DEF StandingInv
<1> QED
  BY <1>4, <1>5, <1>6, <1>7 DEF StandingInv

LEMMA CancelKeepsStanding ==
  ASSUME StandingInv, NEW t \in Requests, Cancel(t) PROVE StandingInv'
<1> DEFINE p == visit[t].by
           step == [NoVisit EXCEPT !.at = "answering", !.by = p]
<1>1. /\ visit[t].at = "cancelling" /\ UNCHANGED <<inApp, notes, lead, displaced>>
      /\ membership' = [membership EXCEPT ![p] = [status |-> "CANCELLED", tier |-> "PLAYER"]]
      /\ tier' = [tier EXCEPT ![p] = "PLAYER"] /\ moved' = moved \ {p}
      /\ visit' = [Outdated(p) EXCEPT ![t] = step]
  BY DEF Cancel, TierAfterCancel
<1>2. p \in Members /\ "PLAYER" \in Tiers /\ visit[t] \in VisitCalls
  BY <1>1, EngagementAssumption DEF StandingInv, VisitsKnow
<1>3. /\ membership \in [Members -> [status : {"none", "WAITLISTED", "ACTIVE", "CANCELLED"}, tier : Tiers]]
      /\ tier \in [Members -> Tiers] /\ moved \subseteq Members /\ visit \in [Requests -> VisitCalls]
  BY DEF StandingInv, EngagementTypeOK, VisitsKnow
<1>4. step.at = "answering" /\ step.by = p /\ step \in VisitCalls
  BY <1>2 DEF NoVisit, VisitCalls, VisitStages
<1> HIDE DEF p, step
<1>5. EngagementTypeOK'
  BY <1>1, <1>2, <1>3 DEF StandingInv, EngagementTypeOK
<1>6. MembershipFollowsTier'
  <2>1. ASSUME NEW q \in Members, q \notin moved', membership'[q].status \in {"ACTIVE", "CANCELLED"}
        PROVE  membership'[q].tier = tier'[q]
    <3>1. CASE q = p
      BY <1>1, <1>2, <1>3, <2>1, <3>1
    <3>2. CASE q # p
      BY <1>1, <1>2, <1>3, <2>1, <3>2 DEF StandingInv, MembershipFollowsTier
    <3> QED
      BY <3>1, <3>2
  <2> QED
    BY <2>1 DEF MembershipFollowsTier
<1>7. JoinedStaysListed'
  BY <1>1 DEF StandingInv, JoinedStaysListed, RowOfMember
<1>8. ASSUME NEW u \in Requests \ {t}
      PROVE  /\ visit'[u] \in VisitCalls
             /\ (visit[u].at # Free => visit[u].by \in Members)' /\ JoinerKnows(u)' /\ LookerKnows(u)'
  <2>1. visit'[u] = IF visit[u].by = p /\ visit[u].tier # Free THEN [visit[u] EXCEPT !.old = TRUE] ELSE visit[u]
    BY <1>1 DEF Outdated
  <2>2. /\ visit[u] \in VisitCalls /\ (visit[u].at # Free => visit[u].by \in Members)
        /\ JoinerKnows(u) /\ LookerKnows(u)
    BY DEF StandingInv, VisitsKnow
  <2>3. /\ visit'[u] \in VisitCalls
        /\ visit'[u].at = visit[u].at /\ visit'[u].by = visit[u].by /\ visit'[u].email = visit[u].email
        /\ visit'[u].mine = visit[u].mine /\ visit'[u].owner = visit[u].owner /\ visit'[u].tier = visit[u].tier
        /\ visit'[u].old = (visit[u].old \/ (visit[u].by = p /\ visit[u].tier # Free))
    BY <2>1, <2>2 DEF VisitCalls
  <2>4. JoinerKnows(u)'
    BY <1>1, <2>2, <2>3 DEF JoinerKnows, RowOfMember
  <2>5. LookerKnows(u)'
    BY <1>1, <1>2, <1>3, <2>2, <2>3, EngagementAssumption DEF LookerKnows
  <2> QED
    BY <2>2, <2>3, <2>4, <2>5
<1>9. visit'[t] = step /\ visit' = [u \in Requests |-> visit'[u]]
  BY <1>1 DEF Outdated
<1>10. JoinerKnows(t)' /\ LookerKnows(t)'
  BY <1>4, <1>9 DEF JoinerKnows, LookerKnows
<1>11. VisitsKnow'
  <2>1. \A u \in Requests : visit'[u] \in VisitCalls
    BY <1>4, <1>8, <1>9
  <2>2. visit' \in [Requests -> VisitCalls]
    BY <1>9, <2>1
  <2> QED
    BY <1>2, <1>4, <1>8, <1>9, <1>10, <2>2 DEF VisitsKnow
<1> QED
  BY <1>5, <1>6, <1>7, <1>11 DEF StandingInv

LEMMA StandingKept == ASSUME StandingInv, [EngagementNext]_engagementVars PROVE StandingInv'
<1>1. CASE UNCHANGED engagementVars
  BY <1>1 DEF engagementVars, StandingInv, EngagementTypeOK, VisitsKnow, JoinerKnows, LookerKnows,
              RowOfMember, MembershipFollowsTier, JoinedStaysListed
<1>2. CASE SetTier \/ NoticeNext
  BY <1>2, TierKeepsStanding, NoticesKeepStanding
<1>3. ASSUME NEW t \in Requests, VisitStep(t) PROVE StandingInv'
  BY <1>3, BeginJoinKeepsStanding, JoinKeepsStanding, LookKeepsStanding, RenewKeepsStanding,
     CancelKeepsStanding DEF VisitStep
<1> QED
  BY <1>1, <1>2, <1>3 DEF EngagementNext

(* What a member was given stays his: a membership names the tier he has       *)
(* unless an administrator changed it meanwhile, and who was told of his place *)
(* on the early-access list has one, for any number of members, addresses and  *)
(* calls at once.                                                              *)
THEOREM StandingAlwaysKept == EngagementSpec => []StandingIsKept
<1>1. StandingInv => StandingIsKept
  BY DEF StandingInv, StandingIsKept
<1> QED
  BY <1>1, StandingStarts, StandingKept, PTL DEF EngagementSpec


-----------------------------------------------------------------------------
(* Animations bought, given and worn. *)
Entitlements == [source : {"none", "PURCHASE", "VIP"}, revoked : BOOLEAN, equipped : BOOLEAN, paid : Nat,
                 request : PurchaseIds \cup {Free}]
DressCalls == [at : {Free, "syncing", "equipping", "wearing", "buying"}, tier : Tiers \cup {Free},
               anim : Anims \cup {Free}, id : PurchaseIds \cup {Free}, worn : SUBSET Anims, stale : BOOLEAN]

WardrobeRows ==
    /\ tier \in [Members -> Tiers] /\ balance \in Nat
    /\ own \in [Anims -> Entitlements] /\ dress \in [Requests -> DressCalls]

(* What was never given was never paid for, requested or worn.               *)
NothingUnowned == \A a \in Anims : ~Exists(a) => own[a] = NotOwned

(* A call that puts an animation on takes off others of its category only,   *)
(* and all of them that are worn, unless another one's write marked it.      *)
DresserKnows(t) ==
    /\ dress[t].at \in {"equipping", "wearing", "buying"} => dress[t].anim \in Anims
    /\ dress[t].at = "wearing" =>
           /\ Exists(dress[t].anim)
           /\ \A a \in dress[t].worn : Category(a) = Category(dress[t].anim)
           /\ ~dress[t].stale =>
                  /\ Entitled(dress[t].anim)
                  /\ \A a \in Anims : own[a].equipped /\ Category(a) = Category(dress[t].anim) => a \in dress[t].worn

WardrobeInv ==
    /\ WardrobeRows /\ NothingUnowned /\ (\A t \in Requests : DresserKnows(t))
    /\ PaidForWhatIsOwned /\ WornIsOwned

LEMMA NotOwnedIs ==
  /\ NotOwned \in Entitlements /\ NotOwned.source = "none" /\ NotOwned.revoked = FALSE
  /\ NotOwned.equipped = FALSE /\ NotOwned.paid = 0 /\ NotOwned.request = Free
BY DEF NotOwned, Entitlements

LEMMA WardrobeStarts == EngagementInit /\ AnimationsInit => WardrobeInv
<1>1. SUFFICES ASSUME EngagementInit, AnimationsInit PROVE WardrobeInv
  OBVIOUS
<1>2. NotOwned \in Entitlements /\ ~NotOwned.equipped /\ NotOwned.paid = 0 /\ NotOwned.request = Free
      /\ NotOwned.source = "none"
  BY DEF NotOwned, Entitlements
<1>3. NoDress \in DressCalls /\ NoDress.at = Free
  BY DEF NoDress, DressCalls
<1>4. tier \in [Members -> Tiers]
  BY <1>1, EngagementAssumption DEF EngagementInit
<1>5. WardrobeRows
  BY <1>1, <1>2, <1>3, <1>4, AnimationsAssumption DEF AnimationsInit, WardrobeRows
<1>6. NothingUnowned /\ WornIsOwned
  BY <1>1, <1>2 DEF AnimationsInit, NothingUnowned, WornIsOwned
<1>7. \A t \in Requests : DresserKnows(t)
  BY <1>1, <1>3, AnimationsAssumption DEF AnimationsInit, DresserKnows
<1>8. PaidForWhatIsOwned
  <2>1. [a \in Anims |-> own[a].paid] = [a \in Anims |-> 0]
    BY <1>1, <1>2 DEF AnimationsInit
  <2>2. SumOver([a \in Anims |-> 0], Anims) = Cardinality(Anims) * 0
    <3>1. IsFiniteSet(Anims) /\ 0 \in Int
      BY AnimationsAssumption DEF Anims
    <3> QED
      BY <3>1, SumConstant, Zenon
  <2>3. Cardinality(Anims) \in Nat
    BY FS_CardinalityType, AnimationsAssumption DEF Anims
  <2>4. SumOver([a \in Anims |-> own[a].paid], Anims) = 0
    BY <2>1, <2>2, <2>3
  <2>5. \A a \in Anims : own[a].request = Free
    BY <1>1, <1>2 DEF AnimationsInit
  <2> QED
    BY <1>1, <2>4, <2>5, AnimationsAssumption DEF AnimationsInit, PaidForWhatIsOwned
<1> QED
  BY <1>5, <1>6, <1>7, <1>8 DEF WardrobeInv

(* The sums and keys are about what was paid and requested alone. *)
LEMMA PaymentsStand ==
  ASSUME PaidForWhatIsOwned, balance' = balance,
         \A a \in Anims : own'[a].paid = own[a].paid /\ own'[a].request = own[a].request
  PROVE  PaidForWhatIsOwned'
<1>1. [a \in Anims |-> own'[a].paid] = [a \in Anims |-> own[a].paid]
  OBVIOUS
<1> QED
  BY <1>1 DEF PaidForWhatIsOwned, Anims

(* A call that begins or goes on and changes no entitlement. *)
LEMMA QuietDressing ==
  ASSUME WardrobeInv, tier' \in [Members -> Tiers], UNCHANGED <<balance, own, crossed>>,
         dress' \in [Requests -> DressCalls], \A u \in Requests : DresserKnows(u)'
  PROVE  WardrobeInv'
<1>1. WardrobeRows' /\ NothingUnowned' /\ WornIsOwned'
  BY DEF WardrobeInv, WardrobeRows, NothingUnowned, WornIsOwned, Exists, Entitled, Category, Anims
<1>2. PaidForWhatIsOwned'
  BY PaymentsStand DEF WardrobeInv
<1> QED
  BY <1>1, <1>2 DEF WardrobeInv

LEMMA OneDresserMoves ==
  ASSUME WardrobeInv, tier' \in [Members -> Tiers], UNCHANGED <<balance, own, crossed>>,
         NEW t \in Requests, NEW step \in DressCalls, dress' = [dress EXCEPT ![t] = step],
         DresserKnows(t)'
  PROVE  WardrobeInv'
<1>1. dress' \in [Requests -> DressCalls]
  BY DEF WardrobeInv, WardrobeRows
<1>2. ASSUME NEW u \in Requests PROVE DresserKnows(u)'
  <2>1. CASE u = t
    BY <2>1
  <2>2. CASE u # t
    BY <2>2 DEF WardrobeInv, WardrobeRows, DresserKnows, Exists, Entitled, Category, Anims
  <2> QED
    BY <2>1, <2>2
<1> QED
  BY <1>1, <1>2, QuietDressing

(* Tiers stay tiers. *)
LEMMA TiersStay ==
  ASSUME tier \in [Members -> Tiers], EngagementNext PROVE tier' \in [Members -> Tiers]
<1>1. CASE UNCHANGED tier
  BY <1>1
<1>2. CASE SetTier
  BY <1>2 DEF SetTier
<1>3. ASSUME NEW t \in Requests, Cancel(t) PROVE tier' \in [Members -> Tiers]
  BY <1>3, EngagementAssumption DEF Cancel, TierAfterCancel
<1>4. ASSUME NEW t \in Requests, VisitStep(t) PROVE tier' \in [Members -> Tiers]
  BY <1>1, <1>3, <1>4 DEF VisitStep, BeginJoin, Join, Membership, FindMembership, Renew, CancelMembership, AnswerMembership
<1> QED
  BY <1>1, <1>2, <1>4 DEF EngagementNext, NoticeNext, UpdateNotificationPreferences, Notifications, ReadNotification, ReadAll

LEMMA BeginningsKeepWardrobe ==
  ASSUME WardrobeInv, NEW t \in Requests, ReadTier(t) \/ CheckPurchase(t) PROVE WardrobeInv'
<1>1. CASE ReadTier(t)
  <2>1. PICK goal \in Anims \cup {Free} :
          Starts(t, [NoDress EXCEPT !.at = "syncing", !.tier = tier[Buyer], !.anim = goal])
    BY <1>1 DEF ReadTier
  <2> DEFINE step == [NoDress EXCEPT !.at = "syncing", !.tier = tier[Buyer], !.anim = goal]
  <2>2. step \in DressCalls /\ step.at = "syncing"
    BY AnimationsAssumption DEF NoDress, DressCalls, WardrobeInv, WardrobeRows
  <2>3. dress' = [dress EXCEPT ![t] = step] /\ UNCHANGED <<tier, balance, own, crossed>>
    BY <1>1, <2>1 DEF ReadTier, Starts, engagementVars
  <2> HIDE DEF step
  <2>4. dress'[t] = step
    BY <2>3 DEF WardrobeInv, WardrobeRows
  <2>5. DresserKnows(t)'
    BY <2>2, <2>4 DEF DresserKnows
  <2> QED
    BY <2>2, <2>3, <2>5, OneDresserMoves DEF WardrobeInv, WardrobeRows
<1>2. CASE CheckPurchase(t)
  <2>1. PICK a \in Anims, id \in PurchaseIds :
          Starts(t, [NoDress EXCEPT !.at = "buying", !.anim = a, !.id = id])
    BY <1>2 DEF CheckPurchase
  <2> DEFINE step == [NoDress EXCEPT !.at = "buying", !.anim = a, !.id = id]
  <2>2. step \in DressCalls /\ step.at = "buying" /\ step.anim = a
    BY DEF NoDress, DressCalls
  <2>3. dress' = [dress EXCEPT ![t] = step] /\ UNCHANGED <<tier, balance, own, crossed>>
    BY <1>2, <2>1 DEF CheckPurchase, Starts, engagementVars
  <2> HIDE DEF step
  <2>4. dress'[t] = step
    BY <2>3 DEF WardrobeInv, WardrobeRows
  <2>5. DresserKnows(t)'
    BY <2>2, <2>4 DEF DresserKnows, Anims
  <2> QED
    BY <2>2, <2>3, <2>5, OneDresserMoves DEF WardrobeInv, WardrobeRows
<1> QED
  BY <1>1, <1>2

LEMMA TakeOffKeepsWardrobe ==
  ASSUME WardrobeInv, NEW t \in Requests, TakeOff(t) PROVE WardrobeInv'
<1> DEFINE d == dress[t]
           worn == {a \in Anims : own[a].equipped /\ Category(a) = Category(d.anim)}
           step == IF ~Entitled(d.anim) THEN NoDress ELSE [d EXCEPT !.at = "wearing", !.worn = worn]
<1>1. d.at = "equipping" /\ dress' = [dress EXCEPT ![t] = step] /\ UNCHANGED <<tier, balance, own, crossed>>
  BY DEF TakeOff, engagementVars
<1>2. d \in DressCalls /\ d.anim \in Anims
  BY <1>1 DEF WardrobeInv, WardrobeRows, DresserKnows
<1>3. NoDress \in DressCalls /\ NoDress.at = Free
  BY DEF NoDress, DressCalls
<1>4. /\ step \in DressCalls
      /\ step.at \in {Free, "wearing"}
      /\ step.at # Free => step.anim = d.anim /\ step.worn = worn /\ Entitled(d.anim)
  BY <1>2, <1>3 DEF DressCalls
<1> HIDE DEF step
<1>5. dress'[t] = step
  BY <1>1 DEF WardrobeInv, WardrobeRows
<1>6. DresserKnows(t)'
  <2>1. CASE step.at = Free
    BY <1>5, <2>1, AnimationsAssumption DEF DresserKnows
  <2>2. CASE step.at # Free
    <3>1. /\ dress'[t].anim = d.anim /\ dress'[t].worn = worn /\ Entitled(d.anim) /\ own' = own
          /\ dress'[t].at = "wearing"
      BY <1>1, <1>4, <1>5, <2>2
    <3>2. \A a \in dress'[t].worn : Category(a) = Category(d.anim)
      BY <3>1
    <3>3. \A a \in Anims : own[a].equipped /\ Category(a) = Category(d.anim) => a \in dress'[t].worn
      BY <3>1
    <3> QED
      BY <1>2, <3>1, <3>2, <3>3 DEF DresserKnows, Entitled, Exists, Category, Anims
  <2> QED
    BY <2>1, <2>2
<1> QED
  BY <1>1, <1>4, <1>6, OneDresserMoves DEF WardrobeInv, WardrobeRows

(* Bringing entitlements in line changes no payment, takes off what it takes  *)
(* away, and marks the calls that are about to put on what it touched.        *)
LEMMA SyncKeepsWardrobe ==
  ASSUME WardrobeInv, NEW t \in Requests, SyncVip(t) PROVE WardrobeInv'
<1> DEFINE d == dress[t]
           hit == {a \in Anims : IF d.tier = "VIP" THEN Catalog[a].vip ELSE own[a].source = "VIP" /\ ~own[a].revoked}
<1>1. /\ d.at = "syncing" /\ UNCHANGED <<tier, balance, crossed>>
      /\ own' = [a \in Anims |-> IF a \notin hit THEN own[a]
                             ELSE IF d.tier # "VIP" THEN Revoked(own[a])
                             ELSE IF Exists(a) THEN [own[a] EXCEPT !.revoked = FALSE]
                             ELSE [NotOwned EXCEPT !.source = "VIP"]]
      /\ dress' = [u \in Requests |->
           IF u = t THEN (IF d.anim = Free THEN NoDress ELSE [d EXCEPT !.at = "equipping"])
           ELSE IF dress[u].at = "wearing" /\ dress[u].anim \in hit THEN [dress[u] EXCEPT !.stale = TRUE] ELSE dress[u]]
  BY DEF SyncVip, engagementVars
<1>2. ASSUME NEW a \in Anims
      PROVE  /\ own'[a] \in Entitlements
             /\ a \notin hit => own'[a] = own[a]
             /\ own'[a].paid = own[a].paid /\ own'[a].request = own[a].request
             /\ own'[a].equipped => own[a].equipped
             /\ Exists(a) => Exists(a)'
             /\ own'[a].equipped /\ Entitled(a) => Entitled(a)'
             /\ ~Exists(a)' => own'[a] = NotOwned
  <2>0. /\ own[a] \in Entitlements /\ (~Exists(a) => own[a] = NotOwned)
        /\ NotOwned \in Entitlements /\ NotOwned.paid = 0 /\ NotOwned.request = Free
        /\ (Exists(a) <=> own[a].source # "none")
        /\ (Exists(a)' <=> own'[a].source # "none")
        /\ (Entitled(a) <=> Exists(a) /\ ~own[a].revoked)
        /\ (Entitled(a)' <=> Exists(a)' /\ ~own'[a].revoked)
    BY DEF WardrobeInv, WardrobeRows, NothingUnowned, NotOwned, Entitlements, Exists, Entitled
  <2> HIDE DEF hit
  <2>1. CASE a \notin hit
    <3>1. own'[a] = own[a]
      BY <1>1, <2>1
    <3> QED
      BY <2>0, <2>1, <3>1
  <2>2. CASE a \in hit /\ d.tier # "VIP"
    <3>1. own'[a] = Revoked(own[a]) /\ own[a].source = "VIP"
      BY <1>1, <2>2 DEF hit
    <3>2. /\ own'[a] \in Entitlements /\ own'[a].source = "VIP" /\ ~own'[a].equipped
          /\ own'[a].paid = own[a].paid /\ own'[a].request = own[a].request
      BY <2>0, <3>1 DEF Revoked, Entitlements
    <3> QED
      BY <2>0, <2>2, <3>2
  <2>3. CASE a \in hit /\ d.tier = "VIP" /\ Exists(a)
    <3>1. own'[a] = [own[a] EXCEPT !.revoked = FALSE]
      BY <1>1, <2>3
    <3>2. /\ own'[a] \in Entitlements /\ own'[a].source = own[a].source /\ ~own'[a].revoked
          /\ own'[a].equipped = own[a].equipped
          /\ own'[a].paid = own[a].paid /\ own'[a].request = own[a].request
      BY <2>0, <3>1 DEF Entitlements
    <3> QED
      BY <2>0, <2>3, <3>2
  <2>4. CASE a \in hit /\ d.tier = "VIP" /\ ~Exists(a)
    <3>1. own'[a] = [NotOwned EXCEPT !.source = "VIP"]
      BY <1>1, <2>4
    <3>2. own'[a] = [source |-> "VIP", revoked |-> FALSE, equipped |-> FALSE, paid |-> 0, request |-> Free]
      BY <3>1 DEF NotOwned
    <3>3. /\ own'[a] \in Entitlements /\ own'[a].source = "VIP" /\ ~own'[a].equipped
          /\ own'[a].paid = 0 /\ own'[a].request = Free
      BY <3>2 DEF Entitlements
    <3> QED
      BY <2>0, <2>4, <3>3
  <2> QED
    BY <2>1, <2>2, <2>3, <2>4
<1>3. own' \in [Anims -> Entitlements]
  <2>1. own' = [a \in Anims |-> own'[a]]
    BY <1>1
  <2> QED
    BY <1>2, <2>1
<1>4. NothingUnowned'
  BY <1>2 DEF NothingUnowned, Anims
<1>5. PaidForWhatIsOwned'
  BY <1>1, <1>2, PaymentsStand DEF WardrobeInv
<1>6. WornIsOwned'
  <2>1. ASSUME NEW a \in Anims, own'[a].equipped, Category(a) \notin crossed
        PROVE  Entitled(a)' /\ \A b \in Anims : own'[b].equipped /\ Category(b) = Category(a) => b = a
    BY <1>2, <2>1 DEF WardrobeInv, WornIsOwned
  <2> QED
    BY <1>1, <2>1 DEF WornIsOwned, Anims, Category
<1>7. ASSUME NEW u \in Requests
      PROVE  dress'[u] \in DressCalls /\ DresserKnows(u)'
  <2>0. dress[u] \in DressCalls /\ DresserKnows(u) /\ d \in DressCalls
    BY DEF WardrobeInv, WardrobeRows
  <2> HIDE DEF hit
  <2>1. CASE u = t
    <3>1. dress'[u] = IF d.anim = Free THEN NoDress ELSE [d EXCEPT !.at = "equipping"]
      BY <1>1, <2>1
    <3>2. /\ dress'[u] \in DressCalls
          /\ \/ dress'[u].at = Free
             \/ dress'[u].at = "equipping" /\ dress'[u].anim \in Anims
      BY <2>0, <3>1 DEF NoDress, DressCalls
    <3> QED
      BY <3>2, AnimationsAssumption DEF DresserKnows, Anims
  <2>2. CASE u # t
    <3>1. dress'[u] = IF dress[u].at = "wearing" /\ dress[u].anim \in hit
                      THEN [dress[u] EXCEPT !.stale = TRUE] ELSE dress[u]
      BY <1>1, <2>2
    <3>2. /\ dress'[u] \in DressCalls
          /\ dress'[u].at = dress[u].at /\ dress'[u].anim = dress[u].anim /\ dress'[u].worn = dress[u].worn
          /\ dress'[u].stale = (dress[u].stale \/ (dress[u].at = "wearing" /\ dress[u].anim \in hit))
      BY <2>0, <3>1 DEF DressCalls
    <3>3. CASE dress[u].at # "wearing"
      BY <2>0, <3>2, <3>3 DEF DresserKnows, Anims
    <3>4. CASE dress[u].at = "wearing"
      <4>1. dress[u].anim \in Anims /\ Exists(dress[u].anim)
        BY <2>0, <3>4 DEF DresserKnows
      <4>2. PICK a \in Anims : a = dress[u].anim
        BY <4>1
      <4>3. Exists(a)' /\ \A b \in dress[u].worn : Category(b) = Category(a)
        BY <1>2, <2>0, <3>4, <4>1, <4>2 DEF DresserKnows
      <4>4. ASSUME ~dress'[u].stale
            PROVE  Entitled(a)' /\ \A b \in Anims : own'[b].equipped /\ Category(b) = Category(a) => b \in dress[u].worn
        <5>1. ~dress[u].stale /\ a \notin hit
          BY <2>0, <3>2, <3>4, <4>2, <4>4 DEF DressCalls
        <5>2. Entitled(a) /\ \A b \in Anims : own[b].equipped /\ Category(b) = Category(a) => b \in dress[u].worn
          BY <2>0, <3>4, <4>2, <5>1 DEF DresserKnows
        <5>3. own'[a] = own[a]
          BY <1>2, <5>1
        <5> QED
          BY <1>2, <5>2, <5>3 DEF Entitled, Exists
      <4>5. dress'[u].anim = a /\ dress'[u].worn = dress[u].worn
        BY <3>2, <4>2
      <4> QED
        BY <3>2, <3>4, <4>3, <4>4, <4>5 DEF DresserKnows, Entitled, Exists, Category, Anims
    <3> QED
      BY <3>3, <3>4
  <2> QED
    BY <2>1, <2>2
<1>8. dress' \in [Requests -> DressCalls]
  <2>1. dress' = [u \in Requests |-> dress'[u]]
    BY <1>1
  <2> QED
    BY <1>7, <2>1
<1>9. WardrobeRows'
  BY <1>1, <1>3, <1>8 DEF WardrobeInv, WardrobeRows, Anims, DressCalls, Entitlements
<1> QED
  BY <1>4, <1>5, <1>6, <1>7, <1>9 DEF WardrobeInv

(* What a call knows concerns the animations of one category. *)
LEMMA DresserStands ==
  ASSUME NEW u \in Requests, DresserKnows(u), own \in [Anims -> Entitlements],
         dress'[u].at = dress[u].at, dress'[u].anim = dress[u].anim, dress'[u].worn = dress[u].worn,
         \A b \in Anims : Exists(b) => Exists(b)',
         dress[u].at = "wearing" /\ ~dress'[u].stale =>
            /\ ~dress[u].stale
            /\ Entitled(dress[u].anim) => Entitled(dress[u].anim)'
            /\ \A b \in Anims : own'[b].equipped /\ Category(b) = Category(dress[u].anim) => own[b].equipped
  PROVE  DresserKnows(u)'
<1>1. CASE dress[u].at # "wearing"
  BY <1>1 DEF DresserKnows, Anims
<1>2. CASE dress[u].at = "wearing"
  <2>1. dress[u].anim \in Anims /\ Exists(dress[u].anim) /\ \A b \in dress[u].worn : Category(b) = Category(dress[u].anim)
    BY <1>2 DEF DresserKnows
  <2>2. PICK a \in Anims : a = dress[u].anim
    BY <2>1
  <2>3. dress'[u].anim = a /\ Exists(a)' /\ \A b \in dress'[u].worn : Category(b) = Category(a)
    BY <2>1, <2>2
  <2>4. ASSUME ~dress'[u].stale
        PROVE  Entitled(a)' /\ \A b \in Anims : own'[b].equipped /\ Category(b) = Category(a) => b \in dress'[u].worn
    <3>1. Entitled(a) /\ \A b \in Anims : own[b].equipped /\ Category(b) = Category(a) => b \in dress[u].worn
      BY <1>2, <2>2, <2>4 DEF DresserKnows
    <3>2. Entitled(a)'
      BY <1>2, <2>2, <2>3, <2>4, <3>1 DEF Entitled, Exists
    <3>3. \A b \in Anims : own'[b].equipped /\ Category(b) = Category(a) => own[b].equipped
      BY <1>2, <2>2, <2>4
    <3> QED
      BY <3>1, <3>2, <3>3
  <2> QED
    BY <1>2, <2>3, <2>4 DEF DresserKnows, Entitled, Exists, Category, Anims
<1> QED
  BY <1>1, <1>2

LEMMA WearKeepsWardrobe ==
  ASSUME WardrobeInv, NEW t \in Requests, Wear(t) PROVE WardrobeInv'
<1>0. PICK goal, cat, takenOff : goal = dress[t].anim /\ cat = Category(goal) /\ takenOff = dress[t].worn
  OBVIOUS
<1>1. /\ dress[t].at = "wearing" /\ UNCHANGED <<tier, balance>>
      /\ own' = [a \in Anims |-> IF a = goal THEN [own[a] EXCEPT !.equipped = TRUE]
                             ELSE IF a \in takenOff THEN [own[a] EXCEPT !.equipped = FALSE] ELSE own[a]]
      /\ crossed' = IF dress[t].stale THEN crossed \cup {cat} ELSE crossed \ {cat}
      /\ dress' = [u \in Requests |-> IF u = t THEN NoDress
           ELSE IF dress[u].at = "wearing" /\ Category(dress[u].anim) = cat THEN [dress[u] EXCEPT !.stale = TRUE] ELSE dress[u]]
  BY <1>0 DEF Wear, engagementVars
<1>2. /\ goal \in Anims /\ Exists(goal) /\ \A a \in takenOff : Category(a) = cat
      /\ ~dress[t].stale => Entitled(goal) /\ \A a \in Anims : own[a].equipped /\ Category(a) = cat => a \in takenOff
  BY <1>0, <1>1 DEF WardrobeInv, DresserKnows
<1>3. ASSUME NEW a \in Anims
      PROVE  /\ own'[a] \in Entitlements
             /\ Category(a) # cat => own'[a] = own[a]
             /\ own'[a].paid = own[a].paid /\ own'[a].request = own[a].request
             /\ own'[a].source = own[a].source /\ own'[a].revoked = own[a].revoked
             /\ own'[a].equipped = (a = goal \/ (a \notin takenOff /\ own[a].equipped))
             /\ own[a] = NotOwned /\ a # goal => own'[a] = NotOwned
  <2>1. own[a] \in Entitlements
    BY DEF WardrobeInv, WardrobeRows
  <2>2. CASE a = goal
    <3>1. own'[a] = [own[a] EXCEPT !.equipped = TRUE]
      BY <1>1, <2>2
    <3> QED
      BY <1>0, <2>1, <2>2, <3>1 DEF Entitlements
  <2>3. CASE a # goal /\ a \in takenOff
    <3>1. own'[a] = [own[a] EXCEPT !.equipped = FALSE]
      BY <1>1, <2>3
    <3>2. own[a] = NotOwned => own'[a] = NotOwned
      BY <3>1, NotOwnedIs DEF Entitlements
    <3> QED
      BY <1>2, <2>1, <2>3, <3>1, <3>2 DEF Entitlements
  <2>4. CASE a # goal /\ a \notin takenOff
    <3>1. own'[a] = own[a]
      BY <1>1, <2>4
    <3> QED
      BY <2>1, <2>4, <3>1 DEF Entitlements
  <2> QED
    BY <2>2, <2>3, <2>4
<1>4. own' \in [Anims -> Entitlements]
  <2>1. own' = [a \in Anims |-> own'[a]]
    BY <1>1
  <2> QED
    BY <1>3, <2>1
<1>5. \A a \in Anims : (Exists(a)' <=> Exists(a)) /\ (Entitled(a)' <=> Entitled(a))
  BY <1>3 DEF Exists, Entitled
<1>6. NothingUnowned'
  BY <1>2, <1>3, <1>5 DEF WardrobeInv, NothingUnowned, Anims
<1>7. PaidForWhatIsOwned'
  BY <1>1, <1>3, PaymentsStand DEF WardrobeInv
<1>8. WornIsOwned'
  <2>1. ASSUME NEW a \in Anims, own'[a].equipped, Category(a) \notin crossed'
        PROVE  Entitled(a)' /\ \A b \in Anims : own'[b].equipped /\ Category(b) = Category(a) => b = a
    <3>1. CASE Category(a) # cat
      <4>1. Category(a) \notin crossed /\ own[a].equipped
        BY <1>1, <1>3, <2>1, <3>1
      <4>2. Entitled(a) /\ \A b \in Anims : own[b].equipped /\ Category(b) = Category(a) => b = a
        BY <4>1 DEF WardrobeInv, WornIsOwned
      <4> QED
        BY <1>3, <1>5, <3>1, <4>2
    <3>2. CASE Category(a) = cat
      <4>1. ~dress[t].stale
        BY <1>1, <2>1, <3>2
      <4>2. \A b \in Anims : own'[b].equipped /\ Category(b) = cat => b = goal
        BY <1>2, <1>3, <4>1
      <4> QED
        BY <1>2, <1>5, <2>1, <3>2, <4>1, <4>2
    <3> QED
      BY <3>1, <3>2
  <2> QED
    BY <2>1 DEF WornIsOwned, Anims, Category
<1>9. ASSUME NEW u \in Requests
      PROVE  dress'[u] \in DressCalls /\ DresserKnows(u)'
  <2>0. dress[u] \in DressCalls /\ DresserKnows(u) /\ own \in [Anims -> Entitlements]
    BY DEF WardrobeInv, WardrobeRows
  <2>1. CASE u = t
    <3>1. dress'[u] = NoDress
      BY <1>1, <2>1
    <3>2. NoDress \in DressCalls /\ NoDress.at = Free
      BY DEF NoDress, DressCalls
    <3> QED
      BY <3>1, <3>2, AnimationsAssumption DEF DresserKnows
  <2>2. CASE u # t
    <3>1. dress'[u] = IF dress[u].at = "wearing" /\ Category(dress[u].anim) = cat
                      THEN [dress[u] EXCEPT !.stale = TRUE] ELSE dress[u]
      BY <1>1, <2>2
    <3>2. /\ dress'[u] \in DressCalls
          /\ dress'[u].at = dress[u].at /\ dress'[u].anim = dress[u].anim /\ dress'[u].worn = dress[u].worn
          /\ dress'[u].stale = (dress[u].stale \/ (dress[u].at = "wearing" /\ Category(dress[u].anim) = cat))
      BY <2>0, <3>1 DEF DressCalls
    <3>3. ASSUME dress[u].at = "wearing", ~dress'[u].stale
          PROVE  /\ ~dress[u].stale
                 /\ Entitled(dress[u].anim) => Entitled(dress[u].anim)'
                 /\ \A b \in Anims : own'[b].equipped /\ Category(b) = Category(dress[u].anim) => own[b].equipped
      <4>1. ~dress[u].stale /\ Category(dress[u].anim) # cat
        BY <2>0, <3>2, <3>3 DEF DressCalls
      <4>2. dress[u].anim \in Anims
        BY <2>0, <3>3 DEF DresserKnows
      <4>3. PICK a \in Anims : a = dress[u].anim
        BY <4>2
      <4>4. Entitled(a) => Entitled(a)'
        BY <1>5
      <4>5. dress'[u].anim = a
        BY <3>2, <4>3
      <4> QED
        BY <1>3, <4>1, <4>3, <4>4, <4>5 DEF Entitled, Exists
    <3> QED
      BY <1>5, <2>0, <3>2, <3>3, DresserStands
  <2> QED
    BY <2>1, <2>2
<1>10. dress' \in [Requests -> DressCalls]
  <2>1. dress' = [u \in Requests |-> dress'[u]]
    BY <1>1
  <2> QED
    BY <1>9, <2>1
<1>11. WardrobeRows'
  BY <1>1, <1>4, <1>10 DEF WardrobeInv, WardrobeRows, Anims, DressCalls, Entitlements
<1> QED
  BY <1>6, <1>7, <1>8, <1>9, <1>11 DEF WardrobeInv

LEMMA PurchaseKeepsWardrobe ==
  ASSUME WardrobeInv, NEW t \in Requests, Purchase(t) PROVE WardrobeInv'
<1>0. PICK a, id, price : a = dress[t].anim /\ id = dress[t].id /\ price = Catalog[a].price
  OBVIOUS
<1>1. /\ dress[t].at = "buying" /\ UNCHANGED <<tier, crossed>>
      /\ dress' = [dress EXCEPT ![t] = NoDress]
      /\ \/ UNCHANGED <<balance, own>>
         \/ /\ Recordable(balance, -price) /\ KeysFree(a, id)
            /\ balance' = balance - price
            /\ own' = [own EXCEPT ![a] = [NotOwned EXCEPT !.source = "PURCHASE", !.paid = price, !.request = id]]
  BY <1>0 DEF Purchase, Stops, engagementVars
<1>2. a \in Anims /\ price \in Nat /\ id \in PurchaseIds \cup {Free}
  BY <1>0, <1>1, AnimationsAssumption DEF WardrobeInv, WardrobeRows, DresserKnows, DressCalls, Anims
<1>3. /\ NoDress \in DressCalls /\ NoDress.at = Free /\ dress \in [Requests -> DressCalls]
      /\ tier \in [Members -> Tiers] /\ balance \in Nat /\ own \in [Anims -> Entitlements]
  BY DEF NoDress, DressCalls, WardrobeInv, WardrobeRows
<1>4. dress'[t] = NoDress /\ dress' \in [Requests -> DressCalls] /\ \A u \in Requests \ {t} : dress'[u] = dress[u]
  BY <1>1, <1>3
<1>5. DresserKnows(t)'
  BY <1>3, <1>4, AnimationsAssumption DEF DresserKnows
<1>6. CASE UNCHANGED <<balance, own>>
  BY <1>1, <1>3, <1>5, <1>6, OneDresserMoves
<1>7. CASE ~UNCHANGED <<balance, own>>
  <2> DEFINE new == [NotOwned EXCEPT !.source = "PURCHASE", !.paid = price, !.request = id]
  <2>1. /\ Recordable(balance, -price) /\ KeysFree(a, id) /\ balance' = balance - price
        /\ own' = [own EXCEPT ![a] = new]
    BY <1>1, <1>7
  <2>2. /\ own[a] = NotOwned /\ ~own[a].equipped /\ own[a].paid = 0
        /\ \A b \in Anims : own[b].request # id
    <3>1. ~Exists(a) /\ \A b \in Anims : own[b].request # id
      BY <2>1 DEF KeysFree
    <3>2. own[a] = NotOwned
      BY <1>2, <3>1 DEF WardrobeInv, NothingUnowned
    <3> QED
      BY <3>1, <3>2, NotOwnedIs
  <2>4. /\ new \in Entitlements /\ new.source = "PURCHASE" /\ new.paid = price /\ new.request = id
        /\ ~new.equipped /\ ~new.revoked
    BY <1>2, NotOwnedIs DEF Entitlements
  <2> HIDE DEF new
  <2>5. /\ own' \in [Anims -> Entitlements] /\ own'[a] = new
        /\ \A b \in Anims \ {a} : own'[b] = own[b]
    BY <1>2, <1>3, <2>1, <2>4
  <2>6. balance' \in Nat
    BY <1>2, <1>3, <2>1 DEF Recordable, Floor
  <2>7. WardrobeRows'
    BY <1>1, <1>3, <1>4, <2>5, <2>6 DEF WardrobeRows, Anims, Entitlements, DressCalls
  <2>8. NothingUnowned'
    <3>1. ASSUME NEW b \in Anims, own'[b].source = "none" PROVE own'[b] = NotOwned
      BY <2>4, <2>5, <3>1 DEF WardrobeInv, NothingUnowned, Exists
    <3> QED
      BY <3>1 DEF NothingUnowned, Exists, Anims
  <2>9. PaidForWhatIsOwned'
    <3> DEFINE f == [b \in Anims |-> own[b].paid]
               g == [b \in Anims |-> own'[b].paid]
    <3>1. f \in [Anims -> Int] /\ g \in [Anims -> Int]
      BY <1>3, <2>5 DEF Entitlements
    <3>2. \A b \in Anims \ {a} : g[b] = f[b]
      BY <2>5
    <3>3. f[a] = 0 /\ g[a] = price
      BY <1>2, <2>2, <2>4, <2>5
    <3>4. IsFiniteSet(Anims)
      BY AnimationsAssumption DEF Anims
    <3>5. balance + SumOver(f, Anims) = Wallet0
      BY DEF WardrobeInv, PaidForWhatIsOwned
    <3> HIDE DEF f, g
    <3>6. SumOver(g, Anims) = SumOver(f, Anims) + (g[a] - f[a])
      BY <1>2, <3>1, <3>2, <3>4, SumChange
    <3>7. SumOver(f, Anims) \in Int
      BY <3>1, <3>4, SumIsInt
    <3>8. balance' + SumOver(g, Anims) = Wallet0
      BY <1>2, <1>3, <2>1, <3>3, <3>5, <3>6, <3>7
    <3>9. ASSUME NEW b \in Anims, NEW c \in Anims, own'[b].request # Free, own'[b].request = own'[c].request
          PROVE  b = c
      <4>1. CASE b = a \/ c = a
        BY <2>2, <2>4, <2>5, <3>9, <4>1
      <4>2. CASE b # a /\ c # a
        BY <2>5, <3>9, <4>2 DEF WardrobeInv, PaidForWhatIsOwned
      <4> QED
        BY <4>1, <4>2
    <3> QED
      BY <3>8, <3>9 DEF PaidForWhatIsOwned, Anims, g
  <2>10. WornIsOwned'
    <3>1. ASSUME NEW b \in Anims, own'[b].equipped, Category(b) \notin crossed
          PROVE  Entitled(b)' /\ \A c \in Anims : own'[c].equipped /\ Category(c) = Category(b) => c = b
      <4>1. b # a /\ own[b].equipped /\ own'[b] = own[b]
        BY <2>4, <2>5, <3>1
      <4>2. Entitled(b) /\ \A c \in Anims : own[c].equipped /\ Category(c) = Category(b) => c = b
        BY <3>1, <4>1 DEF WardrobeInv, WornIsOwned
      <4> QED
        BY <2>4, <2>5, <4>1, <4>2 DEF Entitled, Exists
    <3> QED
      BY <1>1, <3>1 DEF WornIsOwned, Anims, Category
  <2>11. ASSUME NEW u \in Requests PROVE DresserKnows(u)'
    <3>1. CASE u = t
      BY <1>5, <3>1
    <3>2. CASE u # t
      <4>1. dress'[u] = dress[u] /\ DresserKnows(u)
        BY <1>4, <3>2 DEF WardrobeInv
      <4>2. \A b \in Anims : Exists(b) => Exists(b)'
        BY <2>4, <2>5 DEF Exists
      <4>3. ASSUME dress[u].at = "wearing"
            PROVE  Entitled(dress[u].anim) => Entitled(dress[u].anim)'
        <5>1. dress[u].anim \in Anims /\ Exists(dress[u].anim)
          BY <4>1, <4>3 DEF DresserKnows
        <5>2. own[a].source = "none"
          BY <2>2 DEF NotOwned
        <5>3. own'[dress[u].anim] = own[dress[u].anim]
          BY <2>5, <5>1, <5>2 DEF Exists
        <5> QED
          BY <4>1, <5>3 DEF Entitled, Exists
      <4>4. \A b \in Anims : own'[b].equipped => own[b].equipped
        BY <2>4, <2>5
      <4> QED
        BY <1>3, <4>1, <4>2, <4>3, <4>4, DresserStands
    <3> QED
      BY <3>1, <3>2
  <2> QED
    BY <2>7, <2>8, <2>9, <2>10, <2>11 DEF WardrobeInv
<1> QED
  BY <1>6, <1>7

LEMMA WardrobeKept == ASSUME WardrobeInv, [AnimationsNext]_<<engagementVars, animationVars>> PROVE WardrobeInv'
<1>1. CASE UNCHANGED animationVars /\ tier' \in [Members -> Tiers]
  <2>1. UNCHANGED <<balance, own, dress, crossed>>
    BY <1>1 DEF animationVars
  <2>2. dress' \in [Requests -> DressCalls] /\ \A u \in Requests : DresserKnows(u)'
    BY <2>1 DEF WardrobeInv, WardrobeRows, DresserKnows, Exists, Entitled, Category, Anims
  <2> QED
    BY <1>1, <2>1, <2>2, QuietDressing
<1>2. CASE UNCHANGED <<engagementVars, animationVars>>
  BY <1>1, <1>2 DEF engagementVars, WardrobeInv, WardrobeRows
<1>3. CASE EngagementNext /\ UNCHANGED animationVars
  BY <1>1, <1>3, TiersStay DEF WardrobeInv, WardrobeRows
<1>4. ASSUME NEW t \in Requests, DressStep(t) PROVE WardrobeInv'
  BY <1>4, BeginningsKeepWardrobe, SyncKeepsWardrobe, TakeOffKeepsWardrobe, WearKeepsWardrobe,
     PurchaseKeepsWardrobe DEF DressStep
<1> QED
  BY <1>2, <1>3, <1>4 DEF AnimationsNext

(* What is worn is held, and what is held was paid for or is given with the    *)
(* tier, whatever purchases, repeats and changes of dress run at once: the     *)
(* tokens gone are those the entitlements say were paid, one request bought    *)
(* one animation, and of a category one is worn unless two calls crossed.      *)
THEOREM WardrobeAlwaysHeld == AnimationsSpec => []WardrobeIsHeld
<1>1. WardrobeInv => WardrobeIsHeld
  BY DEF WardrobeInv, WardrobeRows, Entitlements, WardrobeIsHeld, AnimationsTypeOK
<1> QED
  BY <1>1, WardrobeStarts, WardrobeKept, PTL DEF AnimationsSpec


-----------------------------------------------------------------------------
(* Progress through a lesson. *)
NoteRows == [Members -> [Topics -> {"none", "unread", "read"}]]
ProgressRows == [status : {"none", "IN_PROGRESS", "COMPLETED"}, section : 0..(Sections - 1), version : Nat, done : BOOLEAN]
StudyCalls == [at : {Free, "starting", "advancing"}, section : 0..(Sections - 1), read : ProgressRows \cup {Free},
               version : Nat, old : BOOLEAN]

StudyRows ==
    /\ notes \in NoteRows
    /\ progress \in ProgressRows /\ version \in Nat /\ study \in [Requests -> StudyCalls]
    /\ visited \subseteq 0..(Sections - 1) /\ stale \in BOOLEAN

(* A call in progress holds the row, or knows that it changed since; one that *)
(* advances had found it, and goes at most one section further.               *)
StudentKnows(t) ==
    study[t].at # Free =>
        /\ study[t].read \in ProgressRows
        /\ study[t].old \/ study[t].read = progress
        /\ study[t].at = "advancing" => study[t].read.status # "none" /\ study[t].section <= study[t].read.section + 1

(* Unless two calls wrote from one row: what is behind the current section    *)
(* was recorded, and the lesson is done, and told, exactly when its last was. *)
EarnedInOrder ==
    ~stale /\ ~Missing =>
        /\ 1..progress.section \subseteq visited
        /\ progress.done <=> Sections - 1 \in visited
        /\ progress.done => notes[Student]["lesson"] # "none"

StudyInv == StudyRows /\ (\A t \in Requests : StudentKnows(t)) /\ EarnedInOrder

LEMMA StudyStarts == EngagementInit /\ LessonsInit => StudyInv
<1>1. SUFFICES ASSUME EngagementInit, LessonsInit PROVE StudyInv
  OBVIOUS
<1>2. 0 \in 0..(Sections - 1)
  BY LessonsAssumption
<1>3. progress \in ProgressRows /\ version = 1 /\ visited = {} /\ stale = FALSE /\ progress.status = "none"
  BY <1>1, <1>2 DEF LessonsInit, ProgressRows
<1>4. NoStudy \in StudyCalls /\ NoStudy.at = Free
  BY <1>2 DEF NoStudy, StudyCalls
<1>5. notes \in NoteRows
  BY <1>1 DEF EngagementInit, NoteRows
<1>6. StudyRows /\ \A t \in Requests : StudentKnows(t)
  <2>1. study = [t \in Requests |-> NoStudy]
    BY <1>1 DEF LessonsInit
  <2>2. StudyRows
    BY <1>3, <1>4, <1>5, <2>1 DEF StudyRows
  <2>3. \A t \in Requests : StudentKnows(t)
    BY <1>4, <2>1 DEF StudentKnows
  <2> QED
    BY <2>2, <2>3
<1> QED
  BY <1>3, <1>6 DEF StudyInv, EarnedInOrder, Missing

(* A notification may be read, and is never taken back. *)
LEMMA ToldStays ==
  ASSUME notes \in NoteRows, NEW p, NEW k \in Topics, notes' = Told(p, k)
  PROVE  /\ notes' \in NoteRows
         /\ \A q \in Members, j \in Topics : notes[q][j] # "none" => notes'[q][j] # "none"
         /\ p \in Members => notes'[p][k] # "none"
BY DEF Told, NoteRows

LEMMA NotesStay ==
  ASSUME notes \in NoteRows, EngagementNext
  PROVE  /\ notes' \in NoteRows
         /\ \A q \in Members, j \in Topics : notes[q][j] # "none" => notes'[q][j] # "none"
<1>0. {"welcome", "joined"} \subseteq Topics
  BY EngagementAssumption
<1>1. CASE UNCHANGED notes
  BY <1>1
<1>2. CASE Notifications
  BY <1>0, <1>2, ToldStays DEF Notifications
<1>3. CASE ReadNotification
  BY <1>3 DEF ReadNotification, NoteRows
<1>4. CASE ReadAll
  BY <1>4 DEF ReadAll, NoteRows
<1>5. ASSUME NEW t \in Requests, VisitStep(t)
      PROVE  UNCHANGED notes \/ notes' = Told(visit[t].by, "joined")
  BY <1>5 DEF VisitStep, BeginJoin, Join, Membership, FindMembership, Renew, CancelMembership, Cancel, AnswerMembership
<1>6. ASSUME NEW t \in Requests, VisitStep(t)
      PROVE  /\ notes' \in NoteRows
             /\ \A q \in Members, j \in Topics : notes[q][j] # "none" => notes'[q][j] # "none"
  BY <1>0, <1>1, <1>5, <1>6, ToldStays
<1> QED
  BY <1>1, <1>2, <1>3, <1>4, <1>6 DEF EngagementNext, NoticeNext, UpdateNotificationPreferences, SetTier

(* What goes on beside the lesson leaves it alone. *)
LEMMA ElsewhereKeepsStudy ==
  ASSUME StudyInv, UNCHANGED lessonVars, notes' \in NoteRows,
         \A q \in Members, j \in Topics : notes[q][j] # "none" => notes'[q][j] # "none"
  PROVE  StudyInv'
<1>1. UNCHANGED <<progress, version, study, visited, stale>>
  BY DEF lessonVars
<1>2. StudyRows' /\ \A t \in Requests : StudentKnows(t)'
  BY <1>1 DEF StudyInv, StudyRows, StudentKnows
<1>3. EarnedInOrder'
  BY <1>1, LessonsAssumption DEF StudyInv, EarnedInOrder, Missing
<1> QED
  BY <1>2, <1>3 DEF StudyInv

(* A call that begins has read the row as it stands. *)
LEMMA BeginningKeepsStudy ==
  ASSUME StudyInv, NEW t \in Requests, NEW step \in StudyCalls, step.read = progress,
         step.at = "advancing" => ~Missing /\ step.section <= progress.section + 1,
         study' = [study EXCEPT ![t] = step], UNCHANGED <<progress, version, visited, stale, engagementVars>>
  PROVE  StudyInv'
<1>1. UNCHANGED <<progress, version, visited, stale, notes>>
  BY DEF engagementVars
<1>2. StudyRows'
  BY <1>1 DEF StudyInv, StudyRows
<1>3. ASSUME NEW u \in Requests PROVE StudentKnows(u)'
  <2>1. CASE u = t
    <3>1. study'[u] = step
      BY <2>1 DEF StudyInv, StudyRows
    <3> QED
      BY <1>1, <3>1 DEF StudentKnows, Missing, StudyInv, StudyRows
  <2>2. CASE u # t
    <3>1. study'[u] = study[u]
      BY <2>2 DEF StudyInv, StudyRows
    <3> QED
      BY <1>1, <3>1 DEF StudentKnows, StudyInv
  <2> QED
    BY <2>1, <2>2
<1>4. EarnedInOrder'
  BY <1>1 DEF StudyInv, EarnedInOrder, Missing
<1> QED
  BY <1>2, <1>3, <1>4 DEF StudyInv

(* A call that ends tells all others whether the row changed. *)
LEMMA ClosingKeepsKnowledge ==
  ASSUME StudyInv, NEW t \in Requests, Closes(t), progress' \in ProgressRows
  PROVE  study' \in [Requests -> StudyCalls] /\ \A u \in Requests : StudentKnows(u)'
<1>0. NoStudy \in StudyCalls /\ NoStudy.at = Free
  <2>1. 0 \in 0..(Sections - 1)
    BY LessonsAssumption
  <2> QED
    BY <2>1 DEF NoStudy, StudyCalls
<1>1. ASSUME NEW u \in Requests
      PROVE  study'[u] \in StudyCalls /\ StudentKnows(u)'
  <2>1. study'[u] = IF u = t THEN NoStudy
                    ELSE [study[u] EXCEPT !.old = @ \/ (study[u].at # Free /\ progress' # progress)]
    BY DEF Closes
  <2>2. study[u] \in StudyCalls /\ StudentKnows(u)
    BY DEF StudyInv, StudyRows
  <2>3. CASE u = t
    BY <1>0, <2>1, <2>3 DEF StudentKnows
  <2>4. CASE u # t
    <3>1. /\ study'[u] \in StudyCalls
          /\ study'[u].at = study[u].at /\ study'[u].read = study[u].read /\ study'[u].section = study[u].section
          /\ study'[u].old = (study[u].old \/ (study[u].at # Free /\ progress' # progress))
      <4>1. PICK x \in BOOLEAN : x = (study[u].old \/ (study[u].at # Free /\ progress' # progress))
        BY <2>2 DEF StudyCalls
      <4>2. study'[u] = [study[u] EXCEPT !.old = x]
        BY <2>1, <2>4, <4>1
      <4>3. /\ study'[u] \in StudyCalls /\ study'[u].old = x
            /\ study'[u].at = study[u].at /\ study'[u].read = study[u].read /\ study'[u].section = study[u].section
        BY <2>2, <4>2 DEF StudyCalls
      <4> QED
        BY <4>1, <4>3
    <3> QED
      BY <2>2, <3>1 DEF StudentKnows
  <2> QED
    BY <2>3, <2>4
<1>2. study' = [u \in Requests |-> study'[u]]
  BY DEF Closes
<1> QED
  BY <1>1, <1>2

LEMMA StartKeepsStudy == ASSUME StudyInv, NEW t \in Requests, Start(t) PROVE StudyInv'
<1> DEFINE step == [NoStudy EXCEPT !.at = "starting", !.version = version, !.read = progress]
<1>1. study' = [study EXCEPT ![t] = step] /\ UNCHANGED <<progress, version, visited, stale, engagementVars>>
  BY DEF Start, Opens
<1>2. 0 \in 0..(Sections - 1)
  BY LessonsAssumption
<1>3. step \in StudyCalls /\ step.read = progress /\ step.at = "starting"
  BY <1>2 DEF NoStudy, StudyCalls, StudyInv, StudyRows
<1> HIDE DEF step
<1> QED
  BY <1>1, <1>3, BeginningKeepsStudy

LEMMA StartedKeepsStudy == ASSUME StudyInv, NEW t \in Requests, Started(t) PROVE StudyInv'
<1>1. UNCHANGED <<version, engagementVars>> /\ Closes(t)
  BY DEF Started
<1>2. 0 \in 0..(Sections - 1)
  BY LessonsAssumption
<1>3. CASE UNCHANGED <<progress, visited, stale>>
  <2>1. StudyRows' /\ \A u \in Requests : StudentKnows(u)'
    BY <1>1, <1>3, ClosingKeepsKnowledge DEF StudyInv, StudyRows, engagementVars
  <2>2. EarnedInOrder'
    BY <1>1, <1>3 DEF StudyInv, EarnedInOrder, Missing, engagementVars
  <2> QED
    BY <2>1, <2>2 DEF StudyInv
<1>4. CASE ~UNCHANGED <<progress, visited, stale>>
  <2>1. /\ visited' = {} /\ stale' = FALSE /\ study[t].at = "starting"
        /\ progress' = [status |-> "IN_PROGRESS", section |-> 0, version |-> study[t].version, done |-> FALSE]
    BY <1>4 DEF Started
  <2>2. study[t].version \in Nat
    BY DEF StudyInv, StudyRows, StudyCalls
  <2>3. progress' \in ProgressRows /\ progress'.section = 0 /\ progress'.done = FALSE
    BY <1>2, <2>1, <2>2 DEF ProgressRows
  <2>4. StudyRows' /\ \A u \in Requests : StudentKnows(u)'
    BY <1>1, <2>1, <2>3, ClosingKeepsKnowledge DEF StudyInv, StudyRows, engagementVars
  <2>5. EarnedInOrder'
    BY <2>1, <2>3 DEF EarnedInOrder
  <2> QED
    BY <2>4, <2>5 DEF StudyInv
<1> QED
  BY <1>3, <1>4

LEMMA AdvanceKeepsStudy == ASSUME StudyInv, NEW t \in Requests, Advance(t) PROVE StudyInv'
<1>1. PICK i \in 0..(Sections - 1) :
        /\ ~Missing /\ InOrder(i)
        /\ Opens(t, [NoStudy EXCEPT !.at = "advancing", !.section = i, !.read = progress])
  BY DEF Advance
<1> DEFINE step == [NoStudy EXCEPT !.at = "advancing", !.section = i, !.read = progress]
<1>2. study' = [study EXCEPT ![t] = step] /\ UNCHANGED <<progress, version, visited, stale, engagementVars>>
  BY <1>1 DEF Advance, Opens
<1>3. step \in StudyCalls /\ step.read = progress /\ step.section = i
  BY DEF NoStudy, StudyCalls, StudyInv, StudyRows
<1>4. i <= progress.section + 1
  BY <1>1 DEF InOrder
<1> HIDE DEF step
<1> QED
  BY <1>1, <1>2, <1>3, <1>4, BeginningKeepsStudy

LEMMA RecordKeepsStudy == ASSUME StudyInv, NEW t \in Requests, Record(t) PROVE StudyInv'
<1> DEFINE s == study[t]
           i == s.section
<1>1. /\ s.at = "advancing"
      /\ progress' = [progress EXCEPT !.section = IF s.read.section > i THEN s.read.section ELSE i,
                                      !.status = IF Complete(i) THEN "COMPLETED" ELSE "IN_PROGRESS",
                                      !.done = Complete(i) \/ s.read.done]
      /\ notes' = IF Complete(i) THEN Told(Student, "lesson") ELSE notes
      /\ visited' = visited \cup {i} /\ stale' = (stale \/ s.old) /\ Closes(t) /\ UNCHANGED version
  BY DEF Record
<1>2. /\ s \in StudyCalls /\ s.read \in ProgressRows /\ (s.old \/ s.read = progress)
      /\ s.read.status # "none" /\ i <= s.read.section + 1
      /\ i \in 0..(Sections - 1) /\ s.old \in BOOLEAN
  BY <1>1, LessonsAssumption DEF StudyInv, StudyRows, StudyCalls, StudentKnows
<1>3. progress \in ProgressRows /\ visited \subseteq 0..(Sections - 1) /\ stale \in BOOLEAN /\ notes \in NoteRows
  BY DEF StudyInv, StudyRows
<1> HIDE DEF s
<1>4. /\ progress' \in ProgressRows
      /\ progress'.section = IF s.read.section > i THEN s.read.section ELSE i
      /\ progress'.done = (Complete(i) \/ s.read.done)
  BY <1>1, <1>2, <1>3 DEF ProgressRows, Complete
<1>5. /\ notes' \in NoteRows /\ (Complete(i) => notes'[Student]["lesson"] # "none")
      /\ notes[Student]["lesson"] # "none" => notes'[Student]["lesson"] # "none"
  <2>1. CASE Complete(i)
    BY <1>1, <1>3, <2>1, ToldStays, LessonsAssumption
  <2>2. CASE ~Complete(i)
    BY <1>1, <1>3, <2>2
  <2> QED
    BY <2>1, <2>2
<1>6. StudyRows' /\ \A u \in Requests : StudentKnows(u)'
  BY <1>1, <1>2, <1>3, <1>4, <1>5, ClosingKeepsKnowledge DEF StudyInv, StudyRows
<1>7. EarnedInOrder'
  <2>1. CASE stale \/ s.old
    BY <1>1, <1>2, <1>3, <2>1 DEF EarnedInOrder
  <2>2. CASE ~stale /\ ~s.old
    <3>1. s.read = progress /\ progress.section \in 0..(Sections - 1) /\ progress.done \in BOOLEAN
      BY <1>2, <1>3, <2>2 DEF ProgressRows
    <3>2. /\ 1..progress.section \subseteq visited
          /\ progress.done <=> Sections - 1 \in visited
          /\ progress.done => notes[Student]["lesson"] # "none"
      BY <1>2, <2>2, <3>1 DEF StudyInv, EarnedInOrder, Missing
    <3>3. 1..progress'.section \subseteq visited'
      <4>1. ASSUME NEW j \in 1..progress'.section PROVE j \in visited'
        <5>1. CASE j <= progress.section
          BY <1>1, <3>1, <3>2, <5>1
        <5>2. CASE ~(j <= progress.section)
          <6>1. j = i
            BY <1>2, <1>4, <3>1, <5>2
          <6> QED
            BY <1>1, <6>1
        <5> QED
          BY <5>1, <5>2
      <4> QED
        BY <4>1
    <3>4. progress'.done <=> Sections - 1 \in visited'
      BY <1>1, <1>4, <3>1, <3>2 DEF Complete
    <3>5. progress'.done => notes'[Student]["lesson"] # "none"
      BY <1>4, <1>5, <3>1, <3>2
    <3> QED
      BY <3>3, <3>4, <3>5 DEF EarnedInOrder
  <2> QED
    BY <2>1, <2>2
<1> QED
  BY <1>6, <1>7 DEF StudyInv

LEMMA StudyKept == ASSUME StudyInv, [LessonsNext]_<<engagementVars, lessonVars>> PROVE StudyInv'
<1>1. CASE UNCHANGED <<engagementVars, lessonVars>>
  BY <1>1, ElsewhereKeepsStudy DEF engagementVars, StudyInv, StudyRows
<1>2. CASE EngagementNext /\ UNCHANGED lessonVars
  BY <1>2, NotesStay, ElsewhereKeepsStudy DEF StudyInv, StudyRows
<1>3. CASE Republish
  <2>1. version' = version + 1 /\ UNCHANGED <<progress, study, visited, stale, notes>>
    BY <1>3 DEF Republish, engagementVars
  <2> QED
    BY <2>1 DEF StudyInv, StudyRows, StudentKnows, EarnedInOrder, Missing
<1>4. ASSUME NEW t \in Requests, LessonStep(t) PROVE StudyInv'
  BY <1>4, StartKeepsStudy, StartedKeepsStudy, AdvanceKeepsStudy, RecordKeepsStudy DEF LessonStep
<1> QED
  BY <1>1, <1>2, <1>3, <1>4 DEF LessonsNext

(* Progress is earned section by section, for a lesson of any length and any   *)
(* number of calls at once: what is behind the current section was recorded    *)
(* since the lesson was begun, and it is done, and the player told, exactly    *)
(* when its last section was, unless two calls wrote from the same row.        *)
THEOREM LessonsAlwaysInOrder == LessonsSpec => []LessonsInOrder
<1>1. StudyInv => LessonsInOrder
  BY DEF StudyInv, StudyRows, ProgressRows, EarnedInOrder, LessonsInOrder, LessonsTypeOK
<1> QED
  BY <1>1, StudyStarts, StudyKept, PTL DEF LessonsSpec
=============================================================================
