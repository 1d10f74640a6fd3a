---------------------------- MODULE Access_proofs ----------------------------
(***************************************************************************)
(* Proofs about who may work in the panel: the administrators' sessions,   *)
(* their roles and the guard's cache.                                      *)
(***************************************************************************)
EXTENDS Sessions, Staff, FiniteSetTheorems, TLAPS

DeskStages == {"quiet", "verified", "opened", "found", "rotating", "revoking", "sweeping", "changing", "changed"}
DeskCalls == [at : DeskStages, who : Owners \cup {0}, sid : SessionIds \cup {0}, tok : TokenIds \cup {0},
              seen : SUBSET TokenIds, version : Nat]
SessionRecords == [state : {"none", "live", "lapsed", "revoked"}, owner : Owners \cup {0}, since : Nat]
TokenRecords == [state : {"none", "live", "revoked"}, sid : SessionIds \cup {0}, next : TokenIds \cup {0}]

SessionTables ==
    /\ password \in [Owners -> 0 .. MaxPassword] /\ active \in [Owners -> BOOLEAN]
    /\ session \in [SessionIds -> SessionRecords]
    /\ token \in [TokenIds -> TokenRecords]
    /\ call \in [Desks -> DeskCalls]
    /\ fresh \subseteq TokenIds /\ slipped \subseteq SessionIds
    /\ floor \in [Owners -> [version : Nat, spared : SessionIds \cup {0}]]

Opened(s) == s \in SessionIds /\ session[s].state # "none"
Issued(t) == t \in TokenIds /\ token[t].state # "none"

SessionsOwned == \A s \in SessionIds : session[s].state # "none" => session[s].owner \in Owners
TokensNamed == \A t \in TokenIds : token[t].state # "none" => Opened(token[t].sid)

(* What a call knows is real: the session it is to end or to rotate in was   *)
(* opened, the token it presents was issued in that session, the tokens its  *)
(* transaction has read were issued, and the password version it read or     *)
(* wrote is not later than the one on the row.                               *)
CallFits(q) ==
    /\ q.at \in {"opened", "found", "rotating", "revoking"} => Opened(q.sid)
    /\ q.at \in {"found", "rotating"} => Issued(q.tok) /\ token[q.tok].sid = q.sid
    /\ \A t \in q.seen : Issued(t)
    /\ q.at \in {"verified", "changing", "changed"} => q.who \in Owners
    /\ q.at \in {"verified", "changed"} => q.version <= password[q.who]
    /\ q.at = "sweeping" /\ q.version # 0 => q.who \in Owners /\ q.version <= password[q.who]
CallsFit == \A d \in Desks : CallFits(call[d])

(* A sign-in between its session and its first token has the session to      *)
(* itself.                                                                   *)
OpenedAlone ==
    \A d \in Desks : call[d].at = "opened" =>
        /\ \A t \in TokenIds : token[t].state # "none" => token[t].sid # call[d].sid
        /\ \A e \in Desks : call[e].at = "opened" /\ call[e].sid = call[d].sid => e = d

LiveTokensApart ==
    \A t, u \in TokenIds :
        token[t].state = "live" /\ token[u].state = "live" /\ token[t].sid = token[u].sid => t = u

(* A finished change is not of a later password than the one on the row.     *)
FloorIsPast == \A a \in Owners : floor[a].version <= password[a]

SessionsInv ==
    /\ SessionTables /\ SessionsOwned /\ TokensNamed /\ CallsFit /\ OpenedAlone
    /\ LiveTokensApart /\ FloorIsPast /\ PasswordEndsOthers

(* An idle desk fits.                                                        *)
LEMMA QuietFits ==
    /\ Quiet \in DeskCalls /\ Quiet.at = "quiet" /\ Quiet.seen = {} /\ Quiet.version = 0
    /\ CallFits(Quiet)
<1>1. Quiet \in DeskCalls /\ Quiet.at = "quiet" /\ Quiet.seen = {} /\ Quiet.version = 0
  BY DEF Quiet, DeskCalls, DeskStages
<1> QED BY <1>1 DEF CallFits

(* A step of one call that changes nothing else keeps the invariant.         *)
LEMMA OneCallMoves ==
    ASSUME SessionsInv, NEW d \in Desks, NEW new \in DeskCalls, CallFits(new), new.at # "opened",
           call' = [call EXCEPT ![d] = new],
           UNCHANGED <<password, active, session, token, fresh, floor, slipped>>
    PROVE  SessionsInv'
<1>1. /\ call' \in [Desks -> DeskCalls] /\ call'[d] = new
      /\ \A e \in Desks \ {d} : call'[e] = call[e]
  BY DEF SessionsInv, SessionTables
<1>2. SessionTables'
  BY <1>1 DEF SessionsInv, SessionTables
<1>3. SessionsOwned' /\ TokensNamed' /\ LiveTokensApart' /\ FloorIsPast' /\ PasswordEndsOthers'
  BY DEF SessionsInv, SessionsOwned, TokensNamed, Opened, LiveTokensApart, FloorIsPast,
         PasswordEndsOthers, SessionsOf
<1>4. ASSUME NEW e \in Desks PROVE CallFits(call[e])'
  BY <1>1 DEF SessionsInv, CallsFit, CallFits, Opened, Issued
<1>5. OpenedAlone'
  BY <1>1 DEF SessionsInv, OpenedAlone
<1> QED BY <1>2, <1>3, <1>4, <1>5 DEF SessionsInv, CallsFit

(* Giving up changes nothing but the call.                                   *)
LEMMA HangsKeeps ==
    ASSUME SessionsInv, NEW d \in Desks, Hangs(d),
           UNCHANGED <<password, active, session, token, fresh, floor, slipped>>
    PROVE  SessionsInv'
  BY QuietFits, OneCallMoves DEF Hangs

(* The live tokens of sessions are tokens that were issued.                  *)
LEMMA TokensOfIssued == \A ss : TokensOf(ss) \subseteq TokenIds /\ \A t \in TokensOf(ss) : Issued(t)
  BY DEF TokensOf, Issued

(* A call that is to end a session that was opened.                          *)
LEMMA StartsRevoking ==
    ASSUME SessionsInv, NEW d \in Desks, NEW s, Opened(s),
           call' = [call EXCEPT ![d] = [Quiet EXCEPT !.at = "revoking", !.sid = s, !.seen = TokensOf({s})]],
           UNCHANGED <<password, active, session, token, fresh, floor, slipped>>
    PROVE  SessionsInv'
<1> DEFINE new == [Quiet EXCEPT !.at = "revoking", !.sid = s, !.seen = TokensOf({s})]
<1>1. /\ new \in DeskCalls /\ new.at = "revoking" /\ new.sid = s /\ new.seen = TokensOf({s})
  BY QuietFits, TokensOfIssued DEF Opened, DeskCalls, DeskStages
<1>2. call' = [call EXCEPT ![d] = new]
  OBVIOUS
<1> HIDE DEF new
<1>3. CallFits(new)
  BY <1>1, TokensOfIssued DEF CallFits
<1> QED BY <1>1, <1>2, <1>3, OneCallMoves

(* Signing in begins with the password the row has.                          *)
LEMMA VerifyKeeps == ASSUME SessionsInv, NEW d \in Desks, Verify(d) PROVE SessionsInv'
<1>1. PICK a \in Owners :
        /\ call' = [call EXCEPT ![d] = [Quiet EXCEPT !.at = "verified", !.who = a, !.version = password[a]]]
        /\ UNCHANGED <<password, active, session, token, fresh, floor, slipped>>
  BY DEF Verify
<1> DEFINE new == [Quiet EXCEPT !.at = "verified", !.who = a, !.version = password[a]]
<1>2. password[a] \in Nat
  BY SessionsAssumption DEF SessionsInv, SessionTables
<1>3. /\ new \in DeskCalls /\ new.at = "verified" /\ new.who = a /\ new.version = password[a]
      /\ new.seen = {}
  BY <1>2, QuietFits DEF DeskCalls, DeskStages
<1>4. call' = [call EXCEPT ![d] = new]
  BY <1>1
<1> HIDE DEF new
<1>5. CallFits(new)
  BY <1>2, <1>3 DEF CallFits
<1> QED BY <1>1, <1>3, <1>4, <1>5, OneCallMoves

(* The steps of refreshing that only read.                                   *)
LEMMA RefreshReads ==
    ASSUME SessionsInv, NEW d \in Desks, Present(d) \/ ReadOwner(d) \/ LosesRotation(d)
    PROVE  SessionsInv'
<1> USE DEF SessionsInv
<1>1. CASE Present(d)
  <2>1. PICK t \in TokenIds :
          /\ token[t].state # "none"
          /\ \/ call' = [call EXCEPT ![d] = [Quiet EXCEPT !.at = "revoking", !.sid = token[t].sid,
                                                           !.seen = TokensOf({token[t].sid})]]
             \/ call' = [call EXCEPT ![d] = [Quiet EXCEPT !.at = "found", !.tok = t, !.sid = token[t].sid]]
          /\ UNCHANGED <<password, active, session, token, fresh, floor, slipped>>
    BY <1>1 DEF Present
  <2> DEFINE new == [Quiet EXCEPT !.at = "found", !.tok = t, !.sid = token[t].sid]
  <2>2. Opened(token[t].sid)
    BY <2>1 DEF TokensNamed
  <2>3. /\ new \in DeskCalls /\ new.at = "found" /\ new.tok = t /\ new.sid = token[t].sid
        /\ new.seen = {}
    BY <2>2, QuietFits DEF Opened, DeskCalls, DeskStages
  <2>4. CASE call' = [call EXCEPT ![d] = new]
    <3> HIDE DEF new
    <3>1. CallFits(new)
      BY <2>1, <2>2, <2>3 DEF CallFits, Issued
    <3> QED BY <2>1, <2>3, <2>4, <3>1, OneCallMoves
  <2> QED BY <2>1, <2>2, <2>4, StartsRevoking
<1>2. CASE ReadOwner(d)
  <2>1. /\ call[d].at = "found" /\ call[d] \in DeskCalls /\ CallFits(call[d])
        /\ Opened(call[d].sid)
    BY <1>2 DEF ReadOwner, SessionTables, CallsFit, CallFits
  <2> DEFINE new == [call[d] EXCEPT !.at = "rotating"]
  <2>2. /\ new \in DeskCalls /\ new.at = "rotating" /\ new.tok = call[d].tok /\ new.sid = call[d].sid
        /\ new.seen = call[d].seen
    BY <2>1 DEF DeskCalls, DeskStages
  <2>3. CASE call' = [call EXCEPT ![d] = new]
    <3> HIDE DEF new
    <3>1. CallFits(new)
      BY <2>1, <2>2 DEF CallFits
    <3> QED BY <1>2, <2>2, <2>3, <3>1, OneCallMoves DEF ReadOwner
  <2> QED BY <1>2, <2>1, <2>3, StartsRevoking DEF ReadOwner
<1>3. CASE LosesRotation(d)
  BY <1>3, HangsKeeps DEF LosesRotation
<1> QED BY <1>1, <1>2, <1>3

(* The calls that are about to end sessions, and those that change a         *)
(* password, until they write.                                               *)
LEMMA EndingReads ==
    ASSUME SessionsInv, NEW d \in Desks,
           Logout(d) \/ RevokeOther(d) \/ SignOutOthers(d) \/ CheckPassword(d) \/ EndOthers(d)
    PROVE  SessionsInv'
<1> USE DEF SessionsInv
<1>1. CASE Logout(d)
  <2>1. PICK s \in SessionIds :
          /\ session[s].state = "live"
          /\ call' = [call EXCEPT ![d] = [Quiet EXCEPT !.at = "revoking", !.sid = s, !.seen = TokensOf({s})]]
          /\ UNCHANGED <<password, active, session, token, fresh, floor, slipped>>
    BY <1>1 DEF Logout, Authenticated
  <2> QED BY <2>1, StartsRevoking DEF Opened
<1>2. CASE RevokeOther(d)
  <2>1. PICK s \in SessionIds :
          /\ session[s].state \in {"live", "lapsed"}
          /\ call' = [call EXCEPT ![d] = [Quiet EXCEPT !.at = "revoking", !.sid = s, !.seen = TokensOf({s})]]
          /\ UNCHANGED <<password, active, session, token, fresh, floor, slipped>>
    BY <1>2 DEF RevokeOther
  <2> QED BY <2>1, StartsRevoking DEF Opened
<1>3. CASE SignOutOthers(d)
  <2>1. PICK by \in SessionIds, who \in Owners \cup {0}, ss \in SUBSET SessionIds :
          /\ call' = [call EXCEPT ![d] = [Quiet EXCEPT !.at = "sweeping", !.sid = by, !.who = who,
                                                        !.seen = TokensOf(ss)]]
          /\ UNCHANGED <<password, active, session, token, fresh, floor, slipped>>
    <3>1. PICK by \in SessionIds, who \in Owners \cup {0} :
            LET swept == (IF who = 0 THEN SessionIds ELSE SessionsOf(who)) \ {by} IN
            call' = [call EXCEPT ![d] = [Quiet EXCEPT !.at = "sweeping", !.sid = by, !.who = who,
                                                      !.seen = TokensOf(swept)]]
      BY <1>3 DEF SignOutOthers
    <3> DEFINE swept == (IF who = 0 THEN SessionIds ELSE SessionsOf(who)) \ {by}
    <3>2. swept \in SUBSET SessionIds
      BY DEF SessionsOf
    <3>3. call' = [call EXCEPT ![d] = [Quiet EXCEPT !.at = "sweeping", !.sid = by, !.who = who,
                                                    !.seen = TokensOf(swept)]]
      BY <3>1
    <3> HIDE DEF swept
    <3> QED BY <1>3, <3>2, <3>3 DEF SignOutOthers
  <2> DEFINE new == [Quiet EXCEPT !.at = "sweeping", !.sid = by, !.who = who, !.seen = TokensOf(ss)]
  <2>2. /\ new \in DeskCalls /\ new.at = "sweeping" /\ new.version = 0 /\ new.seen = TokensOf(ss)
    BY QuietFits, TokensOfIssued DEF DeskCalls, DeskStages
  <2>3. call' = [call EXCEPT ![d] = new]
    BY <2>1
  <2> HIDE DEF new
  <2>4. CallFits(new)
    BY <2>2, TokensOfIssued DEF CallFits
  <2> QED BY <2>1, <2>2, <2>3, <2>4, OneCallMoves
<1>4. CASE CheckPassword(d)
  <2>1. PICK s \in SessionIds :
          /\ session[s].state = "live"
          /\ call' = [call EXCEPT ![d] = [Quiet EXCEPT !.at = "changing", !.sid = s, !.who = session[s].owner]]
          /\ UNCHANGED <<password, active, session, token, fresh, floor, slipped>>
    BY <1>4 DEF CheckPassword, Authenticated
  <2> DEFINE new == [Quiet EXCEPT !.at = "changing", !.sid = s, !.who = session[s].owner]
  <2>2. session[s].owner \in Owners
    BY <2>1 DEF SessionsOwned
  <2>3. /\ new \in DeskCalls /\ new.at = "changing" /\ new.who = session[s].owner /\ new.seen = {}
    BY <2>2, QuietFits DEF DeskCalls, DeskStages
  <2>4. call' = [call EXCEPT ![d] = new]
    BY <2>1
  <2> HIDE DEF new
  <2>5. CallFits(new)
    BY <2>2, <2>3 DEF CallFits
  <2> QED BY <2>1, <2>3, <2>4, <2>5, OneCallMoves
<1>5. CASE EndOthers(d)
  <2>1. /\ call[d].at = "changed" /\ call[d] \in DeskCalls /\ CallFits(call[d])
    BY <1>5 DEF EndOthers, SessionTables, CallsFit
  <2> DEFINE spared == SessionsOf(call[d].who) \ {call[d].sid}
             new == [call[d] EXCEPT !.at = "sweeping", !.seen = TokensOf(spared)]
  <2>2. /\ new \in DeskCalls /\ new.at = "sweeping" /\ new.who = call[d].who
        /\ new.version = call[d].version /\ new.seen = TokensOf(spared)
    <3> HIDE DEF spared
    <3> QED BY <2>1, TokensOfIssued DEF DeskCalls, DeskStages
  <2>3. call' = [call EXCEPT ![d] = new]
    BY <1>5, <2>1 DEF EndOthers, SessionTables, DeskCalls
  <2> HIDE DEF new, spared
  <2>4. CallFits(new)
    BY <2>1, <2>2, TokensOfIssued DEF CallFits
  <2> QED BY <1>5, <2>2, <2>3, <2>4, OneCallMoves DEF EndOthers
<1> QED BY <1>1, <1>2, <1>3, <1>4, <1>5

(* A new session belongs to the call that opened it; on a password that was  *)
(* replaced in between it is one of the slipped.                             *)
LEMMA OpenSessionKeeps == ASSUME SessionsInv, NEW d \in Desks, OpenSession(d) PROVE SessionsInv'
<1> USE DEF SessionsInv
<1> DEFINE q == call[d]
<1>a. PICK s \in SessionIds :
        /\ q.at = "verified" /\ session[s].state = "none"
        /\ session' = [session EXCEPT ![s] = [state |-> "live", owner |-> q.who, since |-> q.version]]
        /\ slipped' = IF q.version < password[q.who] THEN slipped \cup {s} ELSE slipped
        /\ call' = [call EXCEPT ![d] = [q EXCEPT !.at = "opened", !.sid = s]]
        /\ UNCHANGED <<password, active, token, fresh, floor>>
  <2>1. PICK s \in SessionIds :
        /\ q.at = "verified" /\ session[s].state = "none"
        /\ session' = [session EXCEPT ![s] = [state |-> "live", owner |-> q.who, since |-> q.version]]
        /\ slipped' = IF q.version < password[q.who] THEN slipped \cup {s} ELSE slipped
        /\ call' = [call EXCEPT ![d].at = "opened", ![d].sid = s]
        /\ UNCHANGED <<password, active, token, fresh, floor>>
    BY DEF OpenSession, NewSession
  <2>2. call' = [call EXCEPT ![d] = [q EXCEPT !.at = "opened", !.sid = s]]
    BY <2>1 DEF SessionTables, DeskCalls
  <2> QED BY <2>1, <2>2
<1>b. /\ q \in DeskCalls /\ CallFits(q) /\ q.who \in Owners /\ q.version \in Nat
      /\ password[q.who] \in Nat /\ q.version <= password[q.who]
  <2>1. q \in DeskCalls /\ CallFits(q) /\ q.who \in Owners /\ q.version <= password[q.who]
    BY <1>a DEF SessionTables, CallsFit, CallFits
  <2>2. q.version \in Nat
    BY <2>1 DEF DeskCalls
  <2>3. password[q.who] \in Nat
    BY <2>1, SessionsAssumption DEF SessionTables
  <2> QED BY <2>1, <2>2, <2>3
<1>c. /\ call' \in [Desks -> DeskCalls] /\ call'[d].at = "opened" /\ call'[d].sid = s
      /\ call'[d].seen = q.seen /\ \A e \in Desks \ {d} : call'[e] = call[e]
  <2> DEFINE new == [q EXCEPT !.at = "opened", !.sid = s]
  <2>1. new \in DeskCalls /\ new.at = "opened" /\ new.sid = s /\ new.seen = q.seen
    BY <1>b DEF DeskCalls, DeskStages
  <2>2. call' = [call EXCEPT ![d] = new] /\ call \in [Desks -> DeskCalls]
    BY <1>a DEF SessionTables
  <2> HIDE DEF new, q
  <2> QED BY <2>1, <2>2
<1> HIDE DEF q
<1>d. /\ session' \in [SessionIds -> SessionRecords]
      /\ session'[s].state = "live" /\ session'[s].owner = q.who /\ session'[s].since = q.version
      /\ \A r \in SessionIds \ {s} : session'[r] = session[r]
  <2> DEFINE new == [state |-> "live", owner |-> q.who, since |-> q.version]
  <2>1. new \in SessionRecords /\ new.state = "live" /\ new.owner = q.who /\ new.since = q.version
    BY <1>b DEF SessionRecords
  <2>2. session' = [session EXCEPT ![s] = new] /\ session \in [SessionIds -> SessionRecords]
    BY <1>a DEF SessionTables
  <2> HIDE DEF new
  <2> QED BY <2>1, <2>2
<1>e. \A r : Opened(r) => Opened(r)'
  BY <1>a, <1>d DEF Opened
<1>1. SessionTables'
  BY <1>a, <1>c, <1>d DEF SessionTables
<1>2. SessionsOwned'
  BY <1>b, <1>d DEF SessionsOwned
<1>3. TokensNamed' /\ LiveTokensApart' /\ FloorIsPast'
  BY <1>a, <1>e DEF TokensNamed, LiveTokensApart, FloorIsPast
<1>4. CallsFit'
  <2>1. ASSUME NEW e \in Desks \ {d} PROVE CallFits(call[e])'
    BY <1>a, <1>c, <1>e DEF CallsFit, CallFits, Issued
  <2>2. Opened(s)'
    BY <1>d DEF Opened
  <2>3. CallFits(call[d])'
    BY <1>a, <1>b, <1>c, <2>2 DEF CallFits, Issued
  <2> QED BY <2>1, <2>3 DEF CallsFit
<1>5. OpenedAlone'
  <2>1. \A t \in TokenIds : token[t].state # "none" => token[t].sid # s
    BY <1>a DEF TokensNamed, Opened
  <2>2. \A e \in Desks : call[e].at = "opened" => call[e].sid # s
    BY <1>a DEF CallsFit, CallFits, Opened
  <2> QED BY <1>a, <1>c, <2>1, <2>2 DEF OpenedAlone
<1>6. PasswordEndsOthers'
  <2> SUFFICES ASSUME NEW a \in Owners, NEW r \in SessionIds,
                      session'[r].owner = a, session'[r].state = "live",
                      session'[r].since < floor[a].version
               PROVE  r = floor[a].spared \/ r \in slipped'
    BY <1>a DEF PasswordEndsOthers, SessionsOf
  <2>1. CASE r = s
    <3>1. floor[a].version \in Nat /\ password[a] \in Nat /\ floor[a].version <= password[a]
      BY SessionsAssumption DEF SessionTables, FloorIsPast
    <3>2. a = q.who /\ q.version < floor[a].version
      BY <1>d, <2>1
    <3>3. q.version < password[q.who]
      BY <1>b, <3>1, <3>2
    <3> QED BY <1>a, <2>1, <3>3
  <2>2. CASE r # s
    BY <1>a, <1>d, <2>2 DEF PasswordEndsOthers, SessionsOf
  <2> QED BY <2>1, <2>2
<1> QED BY <1>1, <1>2, <1>3, <1>4, <1>5, <1>6

(* The first token of a session is its only one.                             *)
LEMMA IssueTokensKeeps == ASSUME SessionsInv, NEW d \in Desks, IssueTokens(d) PROVE SessionsInv'
<1> USE DEF SessionsInv
<1> DEFINE q == call[d]
<1>a. PICK t \in TokenIds :
        /\ q.at = "opened" /\ token[t].state = "none"
        /\ token' = [token EXCEPT ![t] = [state |-> "live", sid |-> q.sid, next |-> 0]]
        /\ call' = [call EXCEPT ![d] = Quiet]
        /\ UNCHANGED <<password, active, session, fresh, floor, slipped>>
  BY DEF IssueTokens, NewToken, Hangs
<1>b. /\ Opened(q.sid) /\ \A u \in TokenIds : token[u].state # "none" => token[u].sid # q.sid
      /\ \A e \in Desks : call[e].at = "opened" /\ call[e].sid = q.sid => e = d
  BY <1>a DEF CallsFit, CallFits, OpenedAlone
<1> HIDE DEF q
<1>c. /\ call' \in [Desks -> DeskCalls] /\ call'[d] = Quiet
      /\ \A e \in Desks \ {d} : call'[e] = call[e]
  BY <1>a, QuietFits DEF SessionTables
<1>d. /\ token' \in [TokenIds -> TokenRecords]
      /\ token'[t].state = "live" /\ token'[t].sid = q.sid
      /\ \A u \in TokenIds \ {t} : token'[u] = token[u]
  <2> DEFINE new == [state |-> "live", sid |-> q.sid, next |-> 0]
  <2>1. new \in TokenRecords /\ new.state = "live" /\ new.sid = q.sid
    BY <1>b DEF TokenRecords, Opened
  <2>2. token' = [token EXCEPT ![t] = new] /\ token \in [TokenIds -> TokenRecords]
    BY <1>a DEF SessionTables
  <2> HIDE DEF new
  <2> QED BY <2>1, <2>2
<1>1. SessionTables'
  BY <1>a, <1>c, <1>d DEF SessionTables
<1>2. SessionsOwned' /\ FloorIsPast' /\ PasswordEndsOthers'
  BY <1>a DEF SessionsOwned, FloorIsPast, PasswordEndsOthers, SessionsOf
<1>3. TokensNamed' /\ LiveTokensApart'
  BY <1>a, <1>b, <1>d DEF TokensNamed, LiveTokensApart, Opened
<1>4. CallsFit'
  <2>1. ASSUME NEW e \in Desks \ {d} PROVE CallFits(call[e])'
    BY <1>a, <1>c, <1>d DEF CallsFit, CallFits, Issued, Opened
  <2>2. CallFits(Quiet)'
    BY QuietFits DEF CallFits, Issued, Opened
  <2> QED BY <1>c, <2>1, <2>2 DEF CallsFit
<1>5. OpenedAlone'
  BY <1>a, <1>b, <1>c, <1>d, QuietFits DEF OpenedAlone
<1> QED BY <1>1, <1>2, <1>3, <1>4, <1>5

(* A token is claimed once, and its successor is the only live one.          *)
LEMMA RotateKeeps == ASSUME SessionsInv, NEW d \in Desks, Rotate(d) PROVE SessionsInv'
<1> USE DEF SessionsInv
<1> DEFINE q == call[d]
<1>a. PICK t \in TokenIds :
        /\ q.at = "rotating" /\ token[q.tok].state = "live" /\ token[t].state = "none"
        /\ token' = [token EXCEPT ![q.tok] = [@ EXCEPT !.state = "revoked", !.next = t],
                                  ![t] = [state |-> "live", sid |-> q.sid, next |-> 0]]
        /\ fresh' = fresh \cup {q.tok}
        /\ call' = [call EXCEPT ![d] = Quiet]
        /\ UNCHANGED <<password, active, session, floor, slipped>>
  BY DEF Rotate, Claims, NewToken, Hangs
<1>b. Opened(q.sid) /\ q.tok \in TokenIds /\ token[q.tok].sid = q.sid /\ q.tok # t
  BY <1>a DEF CallsFit, CallFits, Issued
<1> HIDE DEF q
<1>c. /\ call' \in [Desks -> DeskCalls] /\ call'[d] = Quiet
      /\ \A e \in Desks \ {d} : call'[e] = call[e]
  BY <1>a, QuietFits DEF SessionTables
<1>d. /\ token' \in [TokenIds -> TokenRecords]
      /\ token'[t].state = "live" /\ token'[t].sid = q.sid
      /\ token'[q.tok].state = "revoked" /\ token'[q.tok].sid = q.sid
      /\ \A u \in TokenIds \ {t, q.tok} : token'[u] = token[u]
  <2> DEFINE new == [state |-> "live", sid |-> q.sid, next |-> 0]
             old == [token[q.tok] EXCEPT !.state = "revoked", !.next = t]
  <2>1. new \in TokenRecords /\ new.state = "live" /\ new.sid = q.sid
    BY <1>b DEF TokenRecords, Opened
  <2>2. token[q.tok] \in TokenRecords
    BY <1>b DEF SessionTables
  <2>3. old \in TokenRecords /\ old.state = "revoked" /\ old.sid = q.sid
    BY <1>b, <2>2 DEF TokenRecords
  <2>4. token' = [token EXCEPT ![q.tok] = old, ![t] = new] /\ token \in [TokenIds -> TokenRecords]
    BY <1>a DEF SessionTables
  <2> HIDE DEF new, old
  <2> QED BY <1>b, <2>1, <2>3, <2>4
<1>1. SessionTables'
  BY <1>a, <1>b, <1>c, <1>d DEF SessionTables
<1>2. SessionsOwned' /\ FloorIsPast' /\ PasswordEndsOthers'
  BY <1>a DEF SessionsOwned, FloorIsPast, PasswordEndsOthers, SessionsOf
<1>3. TokensNamed' /\ LiveTokensApart'
  <2>1. TokensNamed'
    BY <1>a, <1>b, <1>d DEF TokensNamed, Opened
  <2>2. ASSUME NEW u \in TokenIds, token'[u].state = "live", token'[u].sid = q.sid PROVE u = t
    <3>1. u # q.tok
      BY <1>d, <2>2
    <3>2. ASSUME u # t PROVE token[u].state = "live" /\ token[u].sid = token[q.tok].sid
      BY <1>b, <1>d, <2>2, <3>1, <3>2
    <3> QED BY <1>a, <1>b, <3>1, <3>2 DEF LiveTokensApart
  <2>3. LiveTokensApart'
    BY <1>a, <1>b, <1>d, <2>2 DEF LiveTokensApart
  <2> QED BY <2>1, <2>3
<1>4. CallsFit'
  <2>1. ASSUME NEW u, Issued(u) PROVE Issued(u)' /\ token'[u].sid = token[u].sid
    BY <1>a, <1>b, <1>d, <2>1 DEF Issued
  <2>2. ASSUME NEW e \in Desks \ {d} PROVE CallFits(call[e])'
    BY <1>a, <1>c, <2>1 DEF CallsFit, CallFits, Opened
  <2>3. CallFits(Quiet)'
    BY QuietFits DEF CallFits, Issued, Opened
  <2> QED BY <1>c, <2>2, <2>3 DEF CallsFit
<1>5. OpenedAlone'
  <2>1. \A e \in Desks : call[e].at = "opened" => call[e].sid # q.sid
    BY <1>a, <1>b DEF OpenedAlone
  <2>2. ASSUME NEW e \in Desks, call'[e].at = "opened"
        PROVE  e # d /\ call'[e] = call[e] /\ call[e].sid # q.sid
    BY <1>c, <2>1, <2>2, QuietFits
  <2>3. ASSUME NEW e \in Desks, call'[e].at = "opened", NEW u \in TokenIds, token'[u].state # "none"
        PROVE  token'[u].sid # call'[e].sid
    <3>1. CASE u \in {t, q.tok}
      BY <1>d, <2>2, <2>3, <3>1
    <3>2. CASE u \notin {t, q.tok}
      BY <1>d, <2>2, <2>3, <3>2 DEF OpenedAlone
    <3> QED BY <3>1, <3>2
  <2>4. ASSUME NEW e \in Desks, call'[e].at = "opened",
               NEW f \in Desks, call'[f].at = "opened", call'[f].sid = call'[e].sid
        PROVE  f = e
    <3>1. call'[e] = call[e] /\ call'[f] = call[f]
      BY <2>2, <2>4
    <3> QED BY <2>4, <3>1 DEF OpenedAlone
  <2> QED BY <2>3, <2>4 DEF OpenedAlone
<1> QED BY <1>1, <1>2, <1>3, <1>4, <1>5

(* The rows two updateMany leave: no session of the swept is live, no token  *)
(* of those read is, and nothing else has changed.                           *)
Revoked(d, swept) ==
    /\ token' \in [TokenIds -> TokenRecords] /\ session' \in [SessionIds -> SessionRecords]
    /\ \A t \in TokenIds : /\ token'[t].sid = token[t].sid
                           /\ token'[t].state = token[t].state \/ (t \in call[d].seen /\ token'[t].state = "revoked")
    /\ \A s \in SessionIds : /\ session'[s].owner = session[s].owner /\ session'[s].since = session[s].since
                             /\ session[s].state = "none" <=> session'[s].state = "none"
                             /\ session'[s].state = "live" => session[s].state = "live" /\ s \notin swept
    /\ call' = [call EXCEPT ![d] = Quiet]
    /\ UNCHANGED <<password, active, fresh, slipped>>

(* Ending sessions and tokens disturbs nothing but, perhaps, what a finished *)
(* change of the password has promised.                                      *)
LEMMA RevokedKeeps ==
    ASSUME SessionsInv, NEW d \in Desks, NEW swept, Revoked(d, swept),
           floor' \in [Owners -> [version : Nat, spared : SessionIds \cup {0}]],
           FloorIsPast', PasswordEndsOthers'
    PROVE  SessionsInv'
<1> USE DEF SessionsInv
<1>a. /\ call' \in [Desks -> DeskCalls] /\ call'[d] = Quiet
      /\ \A e \in Desks \ {d} : call'[e] = call[e]
  BY QuietFits DEF Revoked, SessionTables
<1>b. \A t : Issued(t) <=> Issued(t)'
  <2>1. \A t \in call[d].seen : token[t].state # "none"
    BY DEF CallsFit, CallFits, Issued
  <2> QED BY <2>1 DEF Revoked, Issued
<1>c. \A s : Opened(s) <=> Opened(s)'
  BY DEF Revoked, Opened
<1>1. SessionTables'
  BY <1>a DEF Revoked, SessionTables
<1>2. SessionsOwned'
  BY DEF Revoked, SessionsOwned
<1>3. TokensNamed'
  BY <1>b, <1>c DEF Revoked, TokensNamed, Issued
<1>4. LiveTokensApart'
  BY DEF Revoked, LiveTokensApart
<1>5. CallsFit'
  <2>1. ASSUME NEW e \in Desks \ {d} PROVE CallFits(call[e])'
    BY <1>a, <1>b, <1>c DEF CallsFit, CallFits, Revoked, Issued
  <2>2. CallFits(Quiet)'
    BY QuietFits DEF CallFits, Issued, Opened
  <2> QED BY <1>a, <2>1, <2>2 DEF CallsFit
<1>6. OpenedAlone'
  BY <1>a, <1>b, QuietFits DEF OpenedAlone, Revoked, Issued
<1> QED BY <1>1, <1>2, <1>3, <1>4, <1>5, <1>6

(* The tokens a transaction has read are revoked, and no other is touched.   *)
LEMMA TokensRevoked ==
    ASSUME SessionsInv, NEW d \in Desks,
           token' = [t \in TokenIds |-> IF t \in call[d].seen THEN [token[t] EXCEPT !.state = "revoked"] ELSE token[t]]
    PROVE  /\ token' \in [TokenIds -> TokenRecords]
           /\ \A t \in TokenIds :
                /\ token'[t].sid = token[t].sid
                /\ token'[t].state = token[t].state \/ (t \in call[d].seen /\ token'[t].state = "revoked")
<1> DEFINE New(t) == IF t \in call[d].seen THEN [token[t] EXCEPT !.state = "revoked"] ELSE token[t]
<1>1. ASSUME NEW t \in TokenIds
      PROVE  /\ New(t) \in TokenRecords /\ New(t).sid = token[t].sid
             /\ New(t).state = token[t].state \/ (t \in call[d].seen /\ New(t).state = "revoked")
  <2>1. token[t] \in TokenRecords
    BY DEF SessionsInv, SessionTables
  <2> QED BY <2>1 DEF TokenRecords
<1>2. token' = [t \in TokenIds |-> New(t)]
  OBVIOUS
<1> HIDE DEF New
<1> QED BY <1>1, <1>2

(* One session is ended.                                                     *)
LEMMA RevokeSessionKeeps == ASSUME SessionsInv, NEW d \in Desks, RevokeSession(d) PROVE SessionsInv'
<1> USE DEF SessionsInv
<1>1. /\ call[d].sid \in SessionIds /\ session[call[d].sid].state # "none"
      /\ session[call[d].sid] \in SessionRecords
  BY DEF RevokeSession, CallsFit, CallFits, Opened, SessionTables
<1> DEFINE new == [session[call[d].sid] EXCEPT !.state = "revoked"]
<1>2. /\ new \in SessionRecords /\ new.state = "revoked" /\ new.owner = session[call[d].sid].owner
      /\ new.since = session[call[d].sid].since
  BY <1>1 DEF SessionRecords
<1>3. session' = [session EXCEPT ![call[d].sid] = new]
  BY DEF RevokeSession
<1> HIDE DEF new
<1>4. /\ session' \in [SessionIds -> SessionRecords]
      /\ \A s \in SessionIds : /\ session'[s].owner = session[s].owner /\ session'[s].since = session[s].since
                               /\ session[s].state = "none" <=> session'[s].state = "none"
                               /\ session'[s].state = "live" => session[s].state = "live" /\ s # call[d].sid
  <2>1. session \in [SessionIds -> SessionRecords]
    BY DEF SessionTables
  <2> QED BY <1>1, <1>2, <1>3, <2>1
<1>5. Revoked(d, {call[d].sid})
  BY <1>4, TokensRevoked DEF RevokeSession, Revoked, Hangs
<1>6. /\ floor' \in [Owners -> [version : Nat, spared : SessionIds \cup {0}]]
      /\ FloorIsPast'
  BY DEF RevokeSession, SessionTables, FloorIsPast
<1>7. PasswordEndsOthers'
  BY <1>4 DEF RevokeSession, PasswordEndsOthers, SessionsOf
<1> QED BY <1>5, <1>6, <1>7, RevokedKeeps

(* After a sweep the spared session is the only live one of its owner.       *)
LEMMA SweepKeeps == ASSUME SessionsInv, NEW d \in Desks, Sweep(d) PROVE SessionsInv'
<1> USE DEF SessionsInv
<1> DEFINE q == call[d]
           swept == (IF q.who = 0 THEN SessionIds ELSE SessionsOf(q.who)) \ {q.sid}
           New(s) == IF s \in swept /\ session[s].state \in {"live", "lapsed"}
                     THEN [session[s] EXCEPT !.state = "revoked"] ELSE session[s]
<1>1. ASSUME NEW s \in SessionIds
      PROVE  /\ New(s) \in SessionRecords /\ New(s).owner = session[s].owner /\ New(s).since = session[s].since
             /\ session[s].state = "none" <=> New(s).state = "none"
             /\ New(s).state = "live" => session[s].state = "live" /\ s \notin swept
  <2>1. session[s] \in SessionRecords
    BY DEF SessionTables
  <2> HIDE DEF swept
  <2> QED BY <2>1 DEF SessionRecords
<1>2. session' = [s \in SessionIds |-> New(s)]
  BY DEF Sweep
<1>3. Revoked(d, swept)
  <2> HIDE DEF swept, New
  <2>1. token' = [t \in TokenIds |-> IF t \in call[d].seen THEN [token[t] EXCEPT !.state = "revoked"] ELSE token[t]]
    BY DEF Sweep
  <2>2. call' = [call EXCEPT ![d] = Quiet] /\ UNCHANGED <<password, active, fresh, slipped>>
    BY DEF Sweep, Hangs
  <2> QED BY <1>1, <1>2, <2>1, <2>2, TokensRevoked DEF Revoked
<1>4. q \in DeskCalls /\ CallFits(q) /\ q.at = "sweeping"
  BY DEF SessionTables, CallsFit, Sweep
<1>5. /\ floor' = IF q.version = 0 THEN floor
                  ELSE [floor EXCEPT ![q.who] = [version |-> q.version, spared |-> q.sid]]
      /\ password' = password /\ slipped' = slipped
  BY DEF Sweep
<1>6. \A s \in SessionIds : session'[s].state = "live" =>
        /\ session[s].state = "live" /\ session'[s].owner = session[s].owner
        /\ session'[s].since = session[s].since /\ s \notin swept
  BY <1>3 DEF Revoked
<1> HIDE DEF New
<1>7. CASE q.version = 0
  <2>1. floor' \in [Owners -> [version : Nat, spared : SessionIds \cup {0}]] /\ FloorIsPast'
    BY <1>5, <1>7 DEF SessionTables, FloorIsPast
  <2>2. PasswordEndsOthers'
    BY <1>5, <1>6, <1>7 DEF PasswordEndsOthers, SessionsOf
  <2> HIDE DEF swept
  <2> QED BY <1>3, <2>1, <2>2, RevokedKeeps
<1>8. CASE q.version # 0
  <2>1. q.who \in Owners /\ q.version <= password[q.who] /\ q.version \in Nat /\ q.sid \in SessionIds \cup {0}
    BY <1>4, <1>8 DEF CallFits, DeskCalls
  <2>2. q.who # 0
    BY <2>1, SessionsAssumption
  <2>3. swept = SessionsOf(q.who) \ {q.sid}
    BY <2>2
  <2> HIDE DEF q, swept
  <2>4. /\ floor' \in [Owners -> [version : Nat, spared : SessionIds \cup {0}]]
        /\ floor'[q.who].version = q.version /\ floor'[q.who].spared = q.sid
        /\ \A a \in Owners \ {q.who} : floor'[a] = floor[a]
    BY <1>5, <1>8, <2>1 DEF SessionTables
  <2>5. FloorIsPast'
    BY <1>5, <2>1, <2>4 DEF FloorIsPast
  <2>6. PasswordEndsOthers'
    <3> SUFFICES ASSUME NEW a \in Owners, NEW s \in SessionIds,
                        session'[s].owner = a, session'[s].state = "live",
                        session'[s].since < floor'[a].version
                 PROVE  s = floor'[a].spared \/ s \in slipped'
      BY DEF PasswordEndsOthers, SessionsOf
    <3>1. CASE a = q.who
      BY <1>6, <2>3, <2>4, <3>1 DEF SessionsOf
    <3>2. CASE a # q.who
      BY <1>5, <1>6, <2>4, <3>2 DEF PasswordEndsOthers, SessionsOf
    <3> QED BY <3>1, <3>2
  <2> QED BY <1>3, <2>4, <2>5, <2>6, RevokedKeeps
<1> QED BY <1>7, <1>8

(* The new password on the row.                                              *)
LEMMA UpdatePasswordKeeps == ASSUME SessionsInv, NEW d \in Desks, UpdatePassword(d) PROVE SessionsInv'
<1> USE DEF SessionsInv
<1> DEFINE q == call[d]
<1>a. /\ q.at = "changing" /\ q.who \in Owners /\ password[q.who] < MaxPassword
      /\ password' = [password EXCEPT ![q.who] = @ + 1]
      /\ UNCHANGED <<active, session, token, fresh, floor, slipped>>
      /\ q \in DeskCalls /\ CallFits(q) /\ password[q.who] \in Nat
  <2>1. q.at = "changing" /\ q \in DeskCalls /\ CallFits(q)
    BY DEF UpdatePassword, SessionTables, CallsFit
  <2>2. q.who \in Owners
    BY <2>1 DEF CallFits
  <2>3. password[q.who] \in Nat
    BY <2>2, SessionsAssumption DEF SessionTables
  <2> QED BY <2>1, <2>2, <2>3 DEF UpdatePassword
<1>b. /\ password' \in [Owners -> 0 .. MaxPassword]
      /\ \A a \in Owners : password[a] \in Nat /\ password'[a] \in Nat /\ password[a] <= password'[a]
      /\ password'[q.who] = password[q.who] + 1
  <2> HIDE DEF q
  <2>1. password \in [Owners -> 0 .. MaxPassword]
    BY DEF SessionTables
  <2> QED BY <1>a, <2>1, SessionsAssumption
<1>c. /\ call' \in [Desks -> DeskCalls] /\ call'[d].at = "changed" /\ call'[d].who = q.who
      /\ call'[d].version = password[q.who] + 1 /\ call'[d].seen = q.seen
      /\ \A e \in Desks \ {d} : call'[e] = call[e]
  <2> DEFINE v == password[q.who] + 1
             new == [q EXCEPT !.at = "changed", !.version = v]
  <2>0. v \in Nat /\ q \in DeskCalls
    BY <1>a
  <2>1. /\ new \in DeskCalls /\ new.at = "changed" /\ new.who = q.who
        /\ new.version = v /\ new.seen = q.seen
    <3> HIDE DEF v, q
    <3> QED BY <2>0 DEF DeskCalls, DeskStages
  <2>2. call' = [call EXCEPT ![d] = new] /\ call \in [Desks -> DeskCalls]
    <3>1. call' = [call EXCEPT ![d].at = "changed", ![d].version = password[q.who] + 1]
      BY DEF UpdatePassword
    <3>2. call \in [Desks -> DeskCalls]
      BY DEF SessionTables
    <3> QED BY <1>a, <3>1, <3>2 DEF DeskCalls
  <2> HIDE DEF new, q
  <2> QED BY <2>1, <2>2
<1>1. SessionTables'
  BY <1>a, <1>b, <1>c DEF SessionTables
<1>2. SessionsOwned' /\ TokensNamed' /\ LiveTokensApart' /\ PasswordEndsOthers'
  BY <1>a DEF SessionsOwned, TokensNamed, Opened, LiveTokensApart, PasswordEndsOthers, SessionsOf
<1>3. CallsFit'
  <2> HIDE DEF q
  <2>1. ASSUME NEW e \in Desks \ {d} PROVE CallFits(call[e])'
    <3>1. CallFits(call[e]) /\ call'[e] = call[e] /\ call[e].version \in Nat
      BY <1>c DEF CallsFit, SessionTables, DeskCalls
    <3>2. call[e].who \in Owners /\ call[e].version <= password[call[e].who] =>
            call[e].version <= password'[call[e].who]
      BY <1>b, <3>1
    <3> QED BY <1>a, <3>1, <3>2 DEF CallFits, Issued, Opened
  <2>2. CallFits(call[d])'
    BY <1>a, <1>b, <1>c DEF CallFits, Issued
  <2> QED BY <2>1, <2>2 DEF CallsFit
<1>4. OpenedAlone'
  BY <1>a, <1>c DEF OpenedAlone
<1>5. FloorIsPast'
  <2>1. ASSUME NEW a \in Owners PROVE floor'[a].version <= password'[a]
    <3>1. floor[a].version \in Nat /\ floor[a].version <= password[a]
      BY DEF SessionTables, FloorIsPast
    <3> QED BY <1>a, <1>b, <3>1
  <2> QED BY <2>1 DEF FloorIsPast
<1> QED BY <1>1, <1>2, <1>3, <1>4, <1>5

(* What happens by itself, and what another administrator does.              *)
LEMMA ElsewhereKeeps ==
    ASSUME SessionsInv,
           \/ \E t \in TokenIds : GraceOver(t)
           \/ \E s \in SessionIds : Lapse(s)
           \/ \E a \in Owners : SetPassword(a) \/ SwitchAccount(a)
    PROVE  SessionsInv'
<1> USE DEF SessionsInv
<1>1. CASE \E t \in TokenIds : GraceOver(t)
  <2>1. /\ fresh' \subseteq TokenIds
        /\ UNCHANGED <<password, active, session, token, call, floor, slipped>>
    BY <1>1 DEF GraceOver, SessionTables
  <2> QED BY <2>1 DEF SessionTables, SessionsOwned, TokensNamed, CallsFit, CallFits, OpenedAlone, LiveTokensApart,
                      FloorIsPast, PasswordEndsOthers, SessionsOf, Opened, Issued
<1>2. CASE \E a \in Owners : SwitchAccount(a)
  <2>1. /\ active' \in [Owners -> BOOLEAN]
        /\ UNCHANGED <<password, session, token, call, fresh, floor, slipped>>
    BY <1>2 DEF SwitchAccount, SessionTables
  <2> QED BY <2>1 DEF SessionTables, SessionsOwned, TokensNamed, CallsFit, CallFits, OpenedAlone, LiveTokensApart,
                      FloorIsPast, PasswordEndsOthers, SessionsOf, Opened, Issued
<1>3. CASE \E s \in SessionIds : Lapse(s)
  <2>1. PICK s \in SessionIds :
          /\ session[s].state = "live" /\ session' = [session EXCEPT ![s] = [session[s] EXCEPT !.state = "lapsed"]]
          /\ UNCHANGED <<password, active, token, call, fresh, floor, slipped>>
    BY <1>3 DEF Lapse
  <2> DEFINE new == [session[s] EXCEPT !.state = "lapsed"]
  <2>2. session[s] \in SessionRecords /\ session \in [SessionIds -> SessionRecords]
    BY DEF SessionTables
  <2>3. new \in SessionRecords /\ new.state = "lapsed" /\ new.owner = session[s].owner
    BY <2>2 DEF SessionRecords
  <2>4. /\ session' \in [SessionIds -> SessionRecords] /\ session'[s].state = "lapsed"
        /\ session'[s].owner = session[s].owner /\ \A r \in SessionIds \ {s} : session'[r] = session[r]
    <3>1. session' = [session EXCEPT ![s] = new]
      BY <2>1
    <3> HIDE DEF new
    <3> QED BY <2>2, <2>3, <3>1
  <2> HIDE DEF new
  <2>5. \A r : Opened(r) <=> Opened(r)'
    BY <2>1, <2>4 DEF Opened
  <2>6. SessionTables'
    BY <2>1, <2>4 DEF SessionTables
  <2>7. SessionsOwned' /\ TokensNamed' /\ LiveTokensApart' /\ FloorIsPast'
    BY <2>1, <2>4, <2>5 DEF SessionsOwned, TokensNamed, LiveTokensApart, FloorIsPast
  <2>8. CallsFit' /\ OpenedAlone'
    BY <2>1, <2>5 DEF CallsFit, CallFits, OpenedAlone, Issued
  <2>9. PasswordEndsOthers'
    BY <2>1, <2>4 DEF PasswordEndsOthers, SessionsOf
  <2> QED BY <2>6, <2>7, <2>8, <2>9
<1>4. CASE \E a \in Owners : SetPassword(a)
  <2>1. PICK a \in Owners :
          /\ password[a] < MaxPassword /\ password' = [password EXCEPT ![a] = @ + 1]
          /\ UNCHANGED <<active, session, token, call, fresh, floor, slipped>>
    BY <1>4 DEF SetPassword
  <2>2. /\ password' \in [Owners -> 0 .. MaxPassword]
        /\ \A b \in Owners : password[b] \in Nat /\ password'[b] \in Nat /\ password[b] <= password'[b]
    <3>1. password \in [Owners -> 0 .. MaxPassword]
      BY DEF SessionTables
    <3> QED BY <2>1, <3>1, SessionsAssumption
  <2>3. SessionTables'
    BY <2>1, <2>2 DEF SessionTables
  <2>4. SessionsOwned' /\ TokensNamed' /\ LiveTokensApart' /\ OpenedAlone' /\ PasswordEndsOthers'
    BY <2>1 DEF SessionsOwned, TokensNamed, Opened, LiveTokensApart, OpenedAlone, PasswordEndsOthers, SessionsOf
  <2>5. FloorIsPast'
    <3>1. ASSUME NEW b \in Owners PROVE floor'[b].version <= password'[b]
      <4>1. floor[b].version \in Nat /\ floor[b].version <= password[b]
        BY DEF SessionTables, FloorIsPast
      <4> QED BY <2>1, <2>2, <4>1
    <3> QED BY <3>1 DEF FloorIsPast
  <2>6. CallsFit'
    <3>1. ASSUME NEW e \in Desks PROVE CallFits(call[e])'
      <4>1. CallFits(call[e]) /\ call[e].version \in Nat
        BY DEF CallsFit, SessionTables, DeskCalls
      <4>2. call[e].who \in Owners /\ call[e].version <= password[call[e].who] =>
              call[e].version <= password'[call[e].who]
        BY <2>2, <4>1
      <4> QED BY <2>1, <4>1, <4>2 DEF CallFits, Issued, Opened
    <3> QED BY <3>1 DEF CallsFit
  <2> QED BY <2>3, <2>4, <2>5, <2>6
<1> QED BY <1>1, <1>2, <1>3, <1>4

(* It holds at first.                                                        *)
LEMMA SessionsStart == SessionsInit => SessionsInv
<1> SUFFICES ASSUME SessionsInit PROVE SessionsInv
  OBVIOUS
<1>1. SessionTables
  BY QuietFits, SessionsAssumption DEF SessionsInit, SessionTables, SessionRecords, TokenRecords
<1>2. SessionsOwned /\ TokensNamed /\ LiveTokensApart /\ FloorIsPast
  BY DEF SessionsInit, SessionsOwned, TokensNamed, LiveTokensApart, FloorIsPast
<1>3. CallsFit /\ OpenedAlone
  BY QuietFits DEF SessionsInit, CallsFit, OpenedAlone
<1>4. PasswordEndsOthers
  BY DEF SessionsInit, PasswordEndsOthers, SessionsOf
<1> QED BY <1>1, <1>2, <1>3, <1>4 DEF SessionsInv

(* Every step keeps it.                                                      *)
LEMMA SessionsInduct == SessionsInv /\ [SessionsNext]_sessionVars => SessionsInv'
<1> SUFFICES ASSUME SessionsInv, [SessionsNext]_sessionVars PROVE SessionsInv'
  OBVIOUS
<1>1. CASE UNCHANGED sessionVars
  BY <1>1 DEF sessionVars, SessionsInv, SessionTables, SessionsOwned, TokensNamed, CallsFit, CallFits, OpenedAlone,
              LiveTokensApart, FloorIsPast, PasswordEndsOthers, SessionsOf, Opened, Issued
<1>2. ASSUME NEW d \in Desks, SessionsStep(d) PROVE SessionsInv'
  BY <1>2, VerifyKeeps, RefreshReads, EndingReads, OpenSessionKeeps, IssueTokensKeeps, RotateKeeps,
     RevokeSessionKeeps, SweepKeeps, UpdatePasswordKeeps DEF SessionsStep
<1> QED BY <1>1, <1>2, ElsewhereKeeps DEF SessionsNext

(* The tables, what the calls in progress know and the tokens' sessions, for *)
(* every number of desks, sessions, tokens and changes of a password.        *)
THEOREM SessionsInvariance == SessionsSpec => []SessionsInv
<1> QED BY SessionsStart, SessionsInduct, PTL DEF SessionsSpec

(* However many requests present a refresh token at once, a session never    *)
(* has two tokens that both mint a successor.                                *)
THEOREM TokensRotateOnce == SessionsSpec => []OneLiveToken
<1>1. SessionsInv => SessionsTypeOK
  BY DEF SessionsInv, SessionTables, SessionsTypeOK, SessionRecords, TokenRecords, DeskCalls, DeskStages
<1>2. SessionsInv => OneLiveToken
  BY <1>1 DEF SessionsInv, LiveTokensApart, OneLiveToken
<1> QED BY SessionsInvariance, <1>2, PTL

(* Once a change of an administrator's own password is finished, of their    *)
(* older sessions only the one it spared is still live, and those a sign-in  *)
(* opened that had read the old password.                                    *)
THEOREM OldPasswordsLeave == SessionsSpec => []PasswordEndsOthers
<1>1. SessionsInv => PasswordEndsOthers
  BY DEF SessionsInv
<1> QED BY SessionsInvariance, <1>1, PTL

-----------------------------------------------------------------------------
(* The administrators, their roles and the cache of the guard.               *)

AskStages == {"free", "reading", "storing", "granted", "checked", "changed", "evicting", "holding"}
AskRecords == [at : AskStages, by : Admins \cup {SuperRole}, op : {"none", "remove", "deactivate", "changeRole", "removeRole"},
               who : Admins \cup {SuperRole}, to : Roles, codes : SUBSET Codes, ids : SUBSET Admins]
AdminRecords == [life : {"unborn", "here", "gone"}, role : Roles, active : BOOLEAN]
RoleRecords == [there : BOOLEAN, super : BOOLEAN, system : BOOLEAN, codes : SUBSET Codes]

StaffTables ==
    /\ admin \in [Admins -> AdminRecords] /\ role \in [Roles -> RoleRecords]
    /\ cache \in [Admins -> {NoGrant} \cup SUBSET Codes]
    /\ asks \in [Clerks -> AskRecords]
    /\ changes \in 0 .. MaxChanges /\ late \subseteq Admins /\ practice \in {"careful", "overlapping"}

(* Nothing is cached or on its way into the cache for an account that does   *)
(* not exist yet, and a role that does not exist grants nothing.             *)
AskNamed(q) ==
    /\ q.at \in {"reading", "storing"} => q.by \in Admins /\ admin[q.by].life # "unborn"
    /\ q.at = "checked" /\ q.op # "removeRole" => q.who \in Admins
    /\ q.at = "changed" => q.who \in Admins
AsksNamed == \A c \in Clerks : AskNamed(asks[c])
UnbornUncached == \A a \in Admins : admin[a].life = "unborn" => cache[a] = NoGrant
AbsentGrantsNothing == \A r \in Roles : ~role[r].there => role[r].codes = {}

(* Under careful practice: the SUPER_ADMIN role stands as it was seeded and  *)
(* is the only one of its kind, somebody active holds it, one decision is    *)
(* taken at a time, and it leaves an active holder besides its target.       *)
SuperRoleStands ==
    /\ \A r \in Roles : role[r].super <=> r = SuperRole
    /\ role[SuperRole].there /\ role[SuperRole].system
    /\ {"admins.manage", "roles.manage"} \subseteq role[SuperRole].codes
Spares(q) ==
    /\ q.at = "checked" /\ (q.op \in {"remove", "deactivate"} \/ (q.op = "changeRole" /\ ~role[q.to].super)) =>
           \E b \in ActiveSupers : b # q.who
    /\ q.at = "checked" /\ q.op = "removeRole" => q.to # SuperRole
SuperKept ==
    practice = "careful" =>
        /\ SuperRoleStands /\ ActiveSupers # {}
        /\ \A c, d \in Clerks : asks[c].at = "checked" /\ asks[d].at = "checked" => c = d
        /\ \A c \in Clerks : Spares(asks[c])

StaffInv ==
    /\ StaffTables /\ AsksNamed /\ UnbornUncached /\ AbsentGrantsNothing
    /\ GuardFollowsRole /\ SuperKept

(* What a call in progress still has to evict.                               *)
DueBy(q, a) ==
    \/ q.at = "changed" /\ q.who = a
    \/ q.at = "evicting" /\ a \in Holders(q.to)
    \/ q.at = "holding" /\ a \in q.ids

(* An eviction is due when some call still has to make it.                   *)
LEMMA DueByCalls == \A a : EvictionDue(a) <=> \E c \in Clerks : DueBy(asks[c], a)
  BY DEF EvictionDue, DueBy

(* A desk at rest.                                                           *)
LEMMA AtRestFits ==
    AtRest \in AskRecords /\ AtRest.at = "free" /\ AskNamed(AtRest)
<1>1. AtRest \in AskRecords /\ AtRest.at = "free"
  BY StaffAssumption DEF AtRest, AskRecords, AskStages
<1> QED BY <1>1 DEF AskNamed

(* A step of one call that changes nothing else keeps the invariant, if it   *)
(* forgets no eviction and decides only when it may.                         *)
LEMMA OneAskMoves ==
    ASSUME StaffInv, NEW c \in Clerks, NEW new \in AskRecords, AskNamed(new),
           \A a : DueBy(asks[c], a) => DueBy(new, a),
           practice = "careful" => Spares(new),
           new.at = "checked" => Careful(c),
           asks' = [asks EXCEPT ![c] = new],
           UNCHANGED <<admin, role, cache, changes, late, practice>>
    PROVE  StaffInv'
<1> USE DEF StaffInv
<1>1. /\ asks' \in [Clerks -> AskRecords] /\ asks'[c] = new
      /\ \A d \in Clerks \ {c} : asks'[d] = asks[d]
  BY DEF StaffTables
<1>2. StaffTables' /\ UnbornUncached' /\ AbsentGrantsNothing'
  BY <1>1 DEF StaffTables, UnbornUncached, AbsentGrantsNothing
<1>3. AsksNamed'
  BY <1>1 DEF AsksNamed, AskNamed
<1>4. GuardFollowsRole'
  <2>2. ASSUME NEW a \in Admins, EvictionDue(a) PROVE EvictionDue(a)'
    <3>1. PICK d \in Clerks : DueBy(asks[d], a)
      BY <2>2, DueByCalls
    <3>2. DueBy(asks'[d], a)
      BY <1>1, <3>1
    <3> QED BY <3>2 DEF EvictionDue, DueBy, Holders, Here
  <2>3. \A a \in Admins : GrantOf(a)' = GrantOf(a)
    BY DEF GrantOf, Here
  <2> QED BY <2>2, <2>3 DEF GuardFollowsRole
<1>5. SuperKept'
  <2> SUFFICES ASSUME practice = "careful" PROVE SuperKept'
    BY DEF SuperKept
  <2>1. SuperRoleStands' /\ ActiveSupers' = ActiveSupers
    BY DEF SuperKept, SuperRoleStands, ActiveSupers, SignedIn, Here
  <2>2. \A d, e \in Clerks : asks'[d].at = "checked" /\ asks'[e].at = "checked" => d = e
    BY <1>1 DEF SuperKept, Careful
  <2>3. \A d \in Clerks : Spares(asks[d])'
    BY <1>1, <2>1 DEF SuperKept, Spares
  <2> QED BY <2>1, <2>2, <2>3 DEF SuperKept
<1> QED BY <1>2, <1>3, <1>4, <1>5

(* A change of the cache: of each entry that changes, what is due or late is *)
(* only left out when the entry is gone or answers as the role does.         *)
LEMMA CacheMoves ==
    ASSUME StaffInv,
           cache' \in [Admins -> {NoGrant} \cup SUBSET Codes], asks' \in [Clerks -> AskRecords], late' \subseteq Admins,
           \A a \in Admins : \/ cache'[a] = cache[a] /\ (EvictionDue(a) => EvictionDue(a)') /\ (a \in late => a \in late')
                             \/ cache'[a] \in {NoGrant, GrantOf(a)} \/ a \in late',
           \A a \in Admins : admin[a].life = "unborn" => cache'[a] \in {cache[a], NoGrant},
           \A c \in Clerks : asks'[c] = asks[c] \/ (asks'[c].at \in {"free", "granted"}),
           UNCHANGED <<admin, role, changes, practice>>
    PROVE  StaffInv'
<1> USE DEF StaffInv
<1>1. StaffTables' /\ AbsentGrantsNothing' /\ UnbornUncached'
  BY DEF StaffTables, AbsentGrantsNothing, UnbornUncached
<1>2. AsksNamed'
  BY DEF AsksNamed, AskNamed
<1>3. GuardFollowsRole'
  <2>1. \A a \in Admins : GrantOf(a)' = GrantOf(a)
    BY DEF GrantOf, Here
  <2> QED BY <2>1 DEF GuardFollowsRole
<1>4. SuperKept'
  <2> SUFFICES ASSUME practice = "careful" PROVE SuperKept'
    BY DEF SuperKept
  <2>1. SuperRoleStands' /\ ActiveSupers' = ActiveSupers
    BY DEF SuperKept, SuperRoleStands, ActiveSupers, SignedIn, Here
  <2>2. \A d, e \in Clerks : asks'[d].at = "checked" /\ asks'[e].at = "checked" => d = e
    BY DEF SuperKept
  <2>3. \A d \in Clerks : Spares(asks[d])'
    BY <2>1 DEF SuperKept, Spares
  <2> QED BY <2>1, <2>2, <2>3 DEF SuperKept
<1> QED BY <1>1, <1>2, <1>3, <1>4

(* A handler writes one account: its cached grant is gone, still right or    *)
(* about to be evicted, and an active SUPER_ADMIN remains.                   *)
LEMMA AdminMoves ==
    ASSUME StaffInv, NEW c \in Clerks, NEW new \in AskRecords, NEW t \in Admins, NEW row \in AdminRecords,
           admin' = [admin EXCEPT ![t] = row], row.life # "unborn",
           asks' = [asks EXCEPT ![c] = new], asks[c].at \in {"granted", "checked"},
           new.at \in {"free", "changed"}, new.at = "changed" => new.who = t,
           changes' \in 0 .. MaxChanges,
           UNCHANGED <<role, cache, late, practice>>,
           cache[t] = NoGrant \/ new.at = "changed" \/ (row.life = admin[t].life /\ row.role = admin[t].role),
           practice = "careful" =>
               \/ t \notin ActiveSupers
               \/ row.life = "here" /\ row.active /\ role[row.role].super
               \/ asks[c].at = "checked" /\ \E b \in ActiveSupers : b # t
    PROVE  StaffInv'
<1> USE DEF StaffInv
<1>a. /\ asks' \in [Clerks -> AskRecords] /\ asks'[c] = new
      /\ \A d \in Clerks \ {c} : asks'[d] = asks[d]
  BY DEF StaffTables
<1>b. /\ admin' \in [Admins -> AdminRecords] /\ admin'[t] = row
      /\ \A a \in Admins \ {t} : admin'[a] = admin[a]
  BY DEF StaffTables
<1>1. StaffTables' /\ AbsentGrantsNothing'
  BY <1>a, <1>b DEF StaffTables, AbsentGrantsNothing
<1>2. AsksNamed'
  <2>1. ASSUME NEW d \in Clerks \ {c} PROVE AskNamed(asks[d])'
    BY <1>a, <1>b DEF AsksNamed, AskNamed
  <2>2. AskNamed(asks[c])'
    BY <1>a DEF AskNamed
  <2> QED BY <2>1, <2>2 DEF AsksNamed
<1>3. UnbornUncached'
  BY <1>b DEF UnbornUncached
<1>4. GuardFollowsRole'
  <2>1. ASSUME NEW a \in Admins \ {t}
        PROVE  cache'[a] \in {NoGrant, GrantOf(a)'} \/ EvictionDue(a)' \/ a \in late'
    <3>1. GrantOf(a)' = GrantOf(a)
      BY <1>b DEF GrantOf, Here
    <3>2. ASSUME EvictionDue(a) PROVE EvictionDue(a)'
      <4>1. PICK d \in Clerks : DueBy(asks[d], a)
        BY <3>2, DueByCalls
      <4>2. d # c
        BY <4>1 DEF DueBy
      <4>3. asks'[d] = asks[d] /\ admin'[a] = admin[a]
        BY <1>a, <1>b, <4>2
      <4> QED BY <4>1, <4>3 DEF EvictionDue, DueBy, Holders, Here
    <3> QED BY <3>1, <3>2 DEF GuardFollowsRole
  <2>2. CASE cache[t] = NoGrant
    BY <2>1, <2>2 DEF GuardFollowsRole
  <2>3. CASE new.at = "changed"
    <3>1. EvictionDue(t)'
      BY <1>a, <2>3 DEF EvictionDue
    <3> QED BY <2>1, <3>1 DEF GuardFollowsRole
  <2>4. CASE row.life = admin[t].life /\ row.role = admin[t].role
    <3>1. GrantOf(t)' = GrantOf(t)
      BY <1>b, <2>4 DEF GrantOf, Here
    <3>2. ASSUME EvictionDue(t) PROVE EvictionDue(t)'
      <4>1. PICK d \in Clerks : DueBy(asks[d], t)
        BY <3>2, DueByCalls
      <4>2. d # c
        BY <4>1 DEF DueBy
      <4>3. asks'[d] = asks[d] /\ admin'[t] = row
        BY <1>a, <1>b, <4>2
      <4> QED BY <2>4, <4>1, <4>3 DEF EvictionDue, DueBy, Holders, Here
    <3> QED BY <2>1, <3>1, <3>2 DEF GuardFollowsRole
  <2> QED BY <2>2, <2>3, <2>4
<1>5. SuperKept'
  <2> SUFFICES ASSUME practice = "careful" PROVE SuperKept'
    BY DEF SuperKept
  <2>1. SuperRoleStands'
    BY DEF SuperKept, SuperRoleStands
  <2>2. \A d, e \in Clerks : asks'[d].at = "checked" /\ asks'[e].at = "checked" => d = e
    BY <1>a DEF SuperKept
  <2>3. \A a \in Admins \ {t} : a \in ActiveSupers <=> a \in ActiveSupers'
    BY <1>b DEF ActiveSupers, SignedIn, Here
  <2>4. CASE t \notin ActiveSupers \/ (row.life = "here" /\ row.active /\ role[row.role].super)
    <3>1. row.life = "here" /\ row.active /\ role[row.role].super => t \in ActiveSupers'
      BY <1>b DEF ActiveSupers, SignedIn, Here
    <3>2. ActiveSupers \subseteq ActiveSupers'
      BY <2>3, <2>4, <3>1 DEF ActiveSupers
    <3>3. ASSUME NEW d \in Clerks PROVE Spares(asks[d])'
      <4>1. CASE d = c
        BY <1>a, <4>1 DEF Spares
      <4>2. CASE d # c
        <5>1. Spares(asks[d]) /\ asks'[d] = asks[d]
          BY <1>a, <4>2 DEF SuperKept
        <5> QED BY <3>2, <5>1 DEF Spares
      <4> QED BY <4>1, <4>2
    <3> QED BY <2>1, <2>2, <3>2, <3>3 DEF SuperKept
  <2>5. CASE asks[c].at = "checked" /\ \E b \in ActiveSupers : b # t
    <3>1. ActiveSupers' # {}
      BY <2>3, <2>5 DEF ActiveSupers
    <3>2. \A d \in Clerks : asks'[d].at # "checked"
      BY <1>a, <2>5 DEF SuperKept
    <3> QED BY <2>1, <2>2, <3>1, <3>2 DEF SuperKept, Spares
  <2> QED BY <2>4, <2>5
<1> QED BY <1>1, <1>2, <1>3, <1>4, <1>5

(* A handler writes one role: whoever holds it keeps the grant or is about   *)
(* to be evicted, and carefully it is not the SUPER_ADMIN role.              *)
LEMMA RoleMoves ==
    ASSUME StaffInv, NEW c \in Clerks, NEW new \in AskRecords, NEW r \in Roles, NEW row \in RoleRecords,
           role' = [role EXCEPT ![r] = row], ~row.there => row.codes = {},
           asks' = [asks EXCEPT ![c] = new], asks[c].at \in {"granted", "checked"},
           new.at \in {"free", "evicting"},
           changes' \in 0 .. MaxChanges,
           UNCHANGED <<admin, cache, late, practice>>,
           row.codes = role[r].codes \/ Holders(r) = {} \/ (new.at = "evicting" /\ new.to = r),
           practice = "careful" => r # SuperRole /\ ~row.super
    PROVE  StaffInv'
<1> USE DEF StaffInv
<1>a. /\ asks' \in [Clerks -> AskRecords] /\ asks'[c] = new
      /\ \A d \in Clerks \ {c} : asks'[d] = asks[d]
  BY DEF StaffTables
<1>b. /\ role' \in [Roles -> RoleRecords] /\ role'[r] = row
      /\ \A s \in Roles \ {r} : role'[s] = role[s]
  BY DEF StaffTables
<1>1. StaffTables' /\ UnbornUncached'
  BY <1>a, <1>b DEF StaffTables, UnbornUncached
<1>2. AbsentGrantsNothing'
  BY <1>b DEF AbsentGrantsNothing
<1>3. AsksNamed'
  BY <1>a DEF AsksNamed, AskNamed
<1>4. GuardFollowsRole'
  <2>1. ASSUME NEW a \in Admins PROVE cache'[a] \in {NoGrant, GrantOf(a)'} \/ EvictionDue(a)' \/ a \in late'
    <3>0. Holders(r)' = Holders(r) /\ admin[a].role \in Roles
      BY DEF Holders, Here, StaffTables, AdminRecords
    <3>1. CASE GrantOf(a)' = GrantOf(a)
      <4>1. ASSUME EvictionDue(a) PROVE EvictionDue(a)'
        <5>1. PICK d \in Clerks : DueBy(asks[d], a)
          BY <4>1, DueByCalls
        <5>2. d # c
          BY <5>1 DEF DueBy
        <5>3. asks'[d] = asks[d]
          BY <1>a, <5>2
        <5> QED BY <5>1, <5>3 DEF EvictionDue, DueBy, Holders, Here
      <4> QED BY <3>1, <4>1 DEF GuardFollowsRole
    <3>2. CASE GrantOf(a)' # GrantOf(a)
      <4>1. Here(a) /\ admin[a].role = r /\ row.codes # role[r].codes
        BY <1>b, <3>0, <3>2 DEF GrantOf, Here
      <4>2. a \in Holders(r)
        BY <4>1 DEF Holders
      <4>3. new.at = "evicting" /\ new.to = r /\ a \in Holders(r)'
        BY <3>0, <4>1, <4>2
      <4>4. EvictionDue(a)'
        BY <1>a, <4>3 DEF EvictionDue, Holders, Here
      <4> QED BY <4>4
    <3> QED BY <3>1, <3>2
  <2> QED BY <2>1 DEF GuardFollowsRole
<1>5. SuperKept'
  <2> SUFFICES ASSUME practice = "careful" PROVE SuperKept'
    BY DEF SuperKept
  <2>1. \A s \in Roles : role'[s].super <=> role[s].super
    BY <1>b DEF SuperKept, SuperRoleStands
  <2>2. SuperRole \in Roles
    BY StaffAssumption
  <2>3. SuperRoleStands'
    BY <1>b, <2>1, <2>2 DEF SuperKept, SuperRoleStands
  <2>4. \A d, e \in Clerks : asks'[d].at = "checked" /\ asks'[e].at = "checked" => d = e
    BY <1>a DEF SuperKept
  <2>5. ActiveSupers' = ActiveSupers
    <3>1. \A a \in Admins : admin[a].role \in Roles
      BY DEF StaffTables, AdminRecords
    <3> QED BY <2>1, <3>1 DEF ActiveSupers, SignedIn, Here
  <2>6. ASSUME NEW d \in Clerks PROVE Spares(asks[d])'
    <3>1. CASE d = c
      BY <1>a, <3>1 DEF Spares
    <3>2. CASE d # c
      <4>1. Spares(asks[d]) /\ asks'[d] = asks[d] /\ asks[d].to \in Roles
        BY <1>a, <3>2 DEF SuperKept, StaffTables, AskRecords
      <4> QED BY <2>1, <2>5, <4>1 DEF Spares
    <3> QED BY <3>1, <3>2
  <2> QED BY <2>3, <2>4, <2>5, <2>6 DEF SuperKept
<1> QED BY <1>1, <1>2, <1>3, <1>4, <1>5

(* The record a desk has, and the one it gets.                               *)
LEMMA AskIsRecord == ASSUME StaffInv, NEW c \in Clerks PROVE asks[c] \in AskRecords /\ AskNamed(asks[c])
  BY DEF StaffInv, StaffTables, AsksNamed

(* A call that ends without an eviction to make.                             *)
LEMMA Rests ==
    ASSUME StaffInv, NEW c \in Clerks, asks[c].at \in {"granted", "checked"},
           asks' = [asks EXCEPT ![c] = AtRest],
           UNCHANGED <<admin, role, cache, changes, late, practice>>
    PROVE  StaffInv'
<1>1. \A a : ~DueBy(asks[c], a)
  BY DEF DueBy
<1>2. Spares(AtRest) /\ AtRest.at # "checked"
  BY AtRestFits DEF Spares
<1> QED BY <1>1, <1>2, AtRestFits, OneAskMoves

(* The guard reads.                                                          *)
LEMMA GuardReads == ASSUME StaffInv, NEW c \in Clerks, Arrive(c) \/ ReadGrant(c) PROVE StaffInv'
<1> USE DEF StaffInv
<1>1. CASE Arrive(c)
  <2>1. PICK a \in Admins :
          /\ SignedIn(a)
          /\ asks' = [asks EXCEPT ![c] = IF cache[a] # NoGrant
                                         THEN [AtRest EXCEPT !.at = "granted", !.by = a, !.codes = cache[a]]
                                         ELSE [AtRest EXCEPT !.at = "reading", !.by = a]]
    BY <1>1 DEF Arrive
  <2> DEFINE new == IF cache[a] # NoGrant THEN [AtRest EXCEPT !.at = "granted", !.by = a, !.codes = cache[a]]
                                          ELSE [AtRest EXCEPT !.at = "reading", !.by = a]
  <2>2. cache[a] # NoGrant => cache[a] \in SUBSET Codes
    BY DEF StaffTables
  <2>3. new \in AskRecords /\ new.at \in {"granted", "reading"} /\ new.by = a
    BY <2>2, AtRestFits DEF AskRecords, AskStages
  <2>4. asks' = [asks EXCEPT ![c] = new]
    BY <2>1
  <2> HIDE DEF new
  <2>5. AskNamed(new) /\ Spares(new) /\ new.at # "checked"
    BY <2>1, <2>3 DEF AskNamed, Spares, SignedIn, Here
  <2>6. \A b : ~DueBy(asks[c], b)
    BY <1>1 DEF Arrive, DueBy
  <2> QED BY <1>1, <2>3, <2>4, <2>5, <2>6, OneAskMoves DEF Arrive
<1>2. CASE ReadGrant(c)
  <2>1. asks[c] \in AskRecords /\ asks[c].at = "reading" /\ AskNamed(asks[c])
    BY <1>2, AskIsRecord DEF ReadGrant
  <2> DEFINE g == GrantOf(asks[c].by)
             new == [asks[c] EXCEPT !.at = "storing", !.codes = g]
  <2>2. g \in SUBSET Codes
    BY <2>1 DEF AskNamed, GrantOf, StaffTables, AdminRecords, RoleRecords
  <2> HIDE DEF g
  <2>3. new \in AskRecords /\ new.at = "storing" /\ new.by = asks[c].by
    BY <2>1, <2>2 DEF AskRecords, AskStages
  <2>4. asks' = [asks EXCEPT ![c] = new]
    <3>1. asks' = [asks EXCEPT ![c].at = "storing", ![c].codes = g] /\ asks \in [Clerks -> AskRecords]
      BY <1>2 DEF ReadGrant, StaffTables, g
    <3> QED BY <2>1, <3>1 DEF AskRecords
  <2> HIDE DEF new
  <2>5. AskNamed(new) /\ Spares(new) /\ new.at # "checked"
    BY <2>1, <2>3 DEF AskNamed, Spares
  <2>6. \A b : ~DueBy(asks[c], b)
    BY <2>1 DEF DueBy
  <2> QED BY <1>2, <2>3, <2>4, <2>5, <2>6, OneAskMoves DEF ReadGrant
<1> QED BY <1>1, <1>2

(* The guard stores, entries expire, and evictions are made.                 *)
LEMMA CacheKeeps ==
    ASSUME StaffInv, \/ \E c \in Clerks : StoreGrant(c) \/ InvalidateOne(c) \/ InvalidateHolders(c)
                     \/ \E a \in Admins : Expire(a)
    PROVE  StaffInv'
<1> USE DEF StaffInv
<1>1. ASSUME NEW c \in Clerks, StoreGrant(c) PROVE StaffInv'
  <2> DEFINE q == asks[c]
  <2>1. /\ q \in AskRecords /\ q.at = "storing" /\ q.by \in Admins /\ admin[q.by].life # "unborn"
    BY <1>1, AskIsRecord DEF StoreGrant, AskNamed
  <2>2. q.codes \in SUBSET Codes
    BY <2>1 DEF AskRecords
  <2>3. /\ asks' \in [Clerks -> AskRecords] /\ asks'[c].at = "granted"
        /\ \A d \in Clerks \ {c} : asks'[d] = asks[d]
    <3> DEFINE new == [q EXCEPT !.at = "granted"]
    <3>1. new \in AskRecords /\ new.at = "granted"
      BY <2>1 DEF AskRecords, AskStages
    <3>2. asks' = [asks EXCEPT ![c] = new] /\ asks \in [Clerks -> AskRecords]
      BY <1>1 DEF StoreGrant, StaffTables
    <3> HIDE DEF new, q
    <3> QED BY <3>1, <3>2
  <2>4. /\ cache' = [cache EXCEPT ![q.by] = q.codes]
        /\ late' = IF q.codes = GrantOf(q.by) THEN late \ {q.by} ELSE late \cup {q.by}
        /\ UNCHANGED <<admin, role, changes, practice>>
        /\ cache \in [Admins -> {NoGrant} \cup SUBSET Codes] /\ late \subseteq Admins
    BY <1>1 DEF StoreGrant, StaffTables
  <2>5. \A a : ~DueBy(q, a)
    BY <2>1 DEF DueBy
  <2>6. ASSUME NEW a \in Admins, EvictionDue(a) PROVE EvictionDue(a)'
    <3>1. PICK d \in Clerks : DueBy(asks[d], a)
      BY <2>6, DueByCalls
    <3>2. asks'[d] = asks[d]
      BY <2>3, <2>5, <3>1
    <3> QED BY <2>4, <3>1, <3>2 DEF EvictionDue, DueBy, Holders, Here
  <2> HIDE DEF q
  <2>7. /\ cache' \in [Admins -> {NoGrant} \cup SUBSET Codes] /\ late' \subseteq Admins
        /\ \A a \in Admins \ {q.by} : cache'[a] = cache[a] /\ (a \in late => a \in late')
        /\ cache'[q.by] = GrantOf(q.by) \/ q.by \in late'
    BY <2>1, <2>2, <2>4
  <2>8. \A a \in Admins : admin[a].life = "unborn" => cache'[a] \in {cache[a], NoGrant}
    BY <2>1, <2>7
  <2>9. \A d \in Clerks : asks'[d] = asks[d] \/ asks'[d].at \in {"free", "granted"}
    BY <2>3
  <2>10. \A a \in Admins : \/ cache'[a] = cache[a] /\ (EvictionDue(a) => EvictionDue(a)') /\ (a \in late => a \in late')
                           \/ cache'[a] \in {NoGrant, GrantOf(a)} \/ a \in late'
    BY <2>6, <2>7
  <2> QED BY <2>3, <2>4, <2>7, <2>8, <2>9, <2>10, CacheMoves
<1>2. ASSUME NEW c \in Clerks, NEW gone \in SUBSET Admins,
             \A a : DueBy(asks[c], a) => a \in gone,
             cache' = [a \in Admins |-> IF a \in gone THEN NoGrant ELSE cache[a]], late' = late \ gone,
             asks' = [asks EXCEPT ![c] = AtRest], UNCHANGED <<admin, role, changes, practice>>
      PROVE  StaffInv'
  <2>1. /\ asks' \in [Clerks -> AskRecords] /\ asks'[c].at = "free"
        /\ \A d \in Clerks \ {c} : asks'[d] = asks[d]
    BY <1>2, AtRestFits DEF StaffTables
  <2>2. cache' \in [Admins -> {NoGrant} \cup SUBSET Codes] /\ late' \subseteq Admins
    BY <1>2 DEF StaffTables
  <2>3. ASSUME NEW a \in Admins, a \notin gone, EvictionDue(a) PROVE EvictionDue(a)'
    <3>1. PICK d \in Clerks : DueBy(asks[d], a)
      BY <2>3, DueByCalls
    <3>2. asks'[d] = asks[d]
      BY <1>2, <2>1, <2>3, <3>1
    <3> QED BY <1>2, <3>1, <3>2 DEF EvictionDue, DueBy, Holders, Here
  <2>4. \A a \in Admins : \/ cache'[a] = cache[a] /\ (EvictionDue(a) => EvictionDue(a)') /\ (a \in late => a \in late')
                          \/ cache'[a] \in {NoGrant, GrantOf(a)} \/ a \in late'
    BY <1>2, <2>3
  <2>5. \A a \in Admins : admin[a].life = "unborn" => cache'[a] \in {cache[a], NoGrant}
    BY <1>2
  <2>6. \A d \in Clerks : asks'[d] = asks[d] \/ asks'[d].at \in {"free", "granted"}
    BY <2>1
  <2> QED BY <1>2, <2>1, <2>2, <2>4, <2>5, <2>6, CacheMoves
<1>3. ASSUME NEW c \in Clerks, InvalidateOne(c) PROVE StaffInv'
  <2>1. asks[c].at = "changed" /\ asks[c].who \in Admins
    BY <1>3, AskIsRecord DEF InvalidateOne, AskNamed
  <2>2. \A a : DueBy(asks[c], a) => a \in {asks[c].who}
    BY <2>1 DEF DueBy
  <2>3. cache' = [a \in Admins |-> IF a \in {asks[c].who} THEN NoGrant ELSE cache[a]]
    <3>1. cache' = [cache EXCEPT ![asks[c].who] = NoGrant] /\ cache \in [Admins -> {NoGrant} \cup SUBSET Codes]
      BY <1>3 DEF InvalidateOne, StaffTables
    <3> QED BY <2>1, <3>1
  <2>4. /\ late' = late \ {asks[c].who} /\ asks' = [asks EXCEPT ![c] = AtRest]
        /\ UNCHANGED <<admin, role, changes, practice>> /\ {asks[c].who} \in SUBSET Admins
    BY <1>3, <2>1 DEF InvalidateOne
  <2> HIDE DEF StaffInv
  <2> QED BY <1>2, <2>2, <2>3, <2>4
<1>4. ASSUME NEW c \in Clerks, InvalidateHolders(c) PROVE StaffInv'
  <2>1. asks[c].at = "holding" /\ asks[c].ids \in SUBSET Admins
    BY <1>4, AskIsRecord DEF InvalidateHolders, AskRecords
  <2>2. \A a : DueBy(asks[c], a) => a \in asks[c].ids
    BY <2>1 DEF DueBy
  <2> QED BY <1>2, <1>4, <2>1, <2>2 DEF InvalidateHolders
<1>5. ASSUME NEW a \in Admins, Expire(a) PROVE StaffInv'
  <2>1. /\ cache' = [cache EXCEPT ![a] = NoGrant] /\ late' = late \ {a}
        /\ UNCHANGED <<admin, role, asks, changes, practice>>
        /\ cache \in [Admins -> {NoGrant} \cup SUBSET Codes] /\ late \subseteq Admins /\ asks \in [Clerks -> AskRecords]
    BY <1>5 DEF Expire, StaffTables
  <2>2. /\ cache' \in [Admins -> {NoGrant} \cup SUBSET Codes] /\ cache'[a] = NoGrant
        /\ \A b \in Admins \ {a} : cache'[b] = cache[b]
    BY <2>1
  <2>3. \A b : EvictionDue(b) => EvictionDue(b)'
    BY <2>1 DEF EvictionDue, Holders, Here
  <2> QED BY <2>1, <2>2, <2>3, CacheMoves
<1> QED BY <1>1, <1>3, <1>4, <1>5

(* Who is left when an active SUPER_ADMIN is not the last.                   *)
LEMMA NotTheLast ==
    ASSUME StaffInv, practice = "careful", NEW t \in Admins, Here(t), NotLastActiveSuper(t)
    PROVE  \E b \in ActiveSupers : b # t
<1>1. ActiveSupers # {}
  BY DEF StaffInv, SuperKept
<1>2. CASE t \notin ActiveSupers
  BY <1>1, <1>2
<1>3. CASE t \in ActiveSupers
  <2>1. Cardinality(ActiveSupers) > 1
    BY <1>3 DEF ActiveSupers, SignedIn, NotLastActiveSuper
  <2>2. ActiveSupers # {t}
    <3>1. Cardinality({t}) = 1
      BY FS_Singleton
    <3> QED BY <2>1, <3>1
  <2> QED BY <1>3, <2>2
<1> QED BY <1>2, <1>3

(* The checks before a write.                                                *)
LEMMA ChecksKeep ==
    ASSUME StaffInv, NEW c \in Clerks, CheckTarget(c) \/ CheckMove(c) \/ CheckRole(c)
    PROVE  StaffInv'
<1> USE DEF StaffInv
<1>0. asks[c].at = "granted" /\ Careful(c)
  BY DEF CheckTarget, CheckMove, CheckRole, Admitted
<1>a. \A a : ~DueBy(asks[c], a)
  BY <1>0 DEF DueBy
<1>1. CASE CheckTarget(c)
  <2>1. PICK t \in Admins, op \in {"remove", "deactivate"} :
          /\ Here(t) /\ NotLastActiveSuper(t)
          /\ asks' = [asks EXCEPT ![c] = [AtRest EXCEPT !.at = "checked", !.op = op, !.who = t]]
    BY <1>1 DEF CheckTarget
  <2> DEFINE new == [AtRest EXCEPT !.at = "checked", !.op = op, !.who = t]
  <2>2. new \in AskRecords /\ new.at = "checked" /\ new.op = op /\ new.who = t
    BY AtRestFits DEF AskRecords, AskStages
  <2>3. asks' = [asks EXCEPT ![c] = new]
    BY <2>1
  <2> HIDE DEF new
  <2>4. AskNamed(new) /\ (practice = "careful" => Spares(new))
    BY <2>1, <2>2, NotTheLast DEF AskNamed, Spares
  <2> QED BY <1>0, <1>a, <1>1, <2>2, <2>3, <2>4, OneAskMoves DEF CheckTarget
<1>2. CASE CheckMove(c)
  <2>1. PICK t \in Admins, r \in Roles :
          /\ Here(t) /\ (~role[r].super => NotLastActiveSuper(t))
          /\ asks' = [asks EXCEPT ![c] = [AtRest EXCEPT !.at = "checked", !.op = "changeRole", !.who = t, !.to = r]]
    BY <1>2 DEF CheckMove
  <2> DEFINE new == [AtRest EXCEPT !.at = "checked", !.op = "changeRole", !.who = t, !.to = r]
  <2>2. new \in AskRecords /\ new.at = "checked" /\ new.op = "changeRole" /\ new.who = t /\ new.to = r
    BY AtRestFits DEF AskRecords, AskStages
  <2>3. asks' = [asks EXCEPT ![c] = new]
    BY <2>1
  <2> HIDE DEF new
  <2>4. AskNamed(new) /\ (practice = "careful" => Spares(new))
    BY <2>1, <2>2, NotTheLast DEF AskNamed, Spares
  <2> QED BY <1>0, <1>a, <1>2, <2>2, <2>3, <2>4, OneAskMoves DEF CheckMove
<1>3. CASE CheckRole(c)
  <2>1. PICK r \in Roles :
          /\ ~role[r].system
          /\ asks' = [asks EXCEPT ![c] = [AtRest EXCEPT !.at = "checked", !.op = "removeRole", !.to = r]]
    BY <1>3 DEF CheckRole
  <2> DEFINE new == [AtRest EXCEPT !.at = "checked", !.op = "removeRole", !.to = r]
  <2>2. new \in AskRecords /\ new.at = "checked" /\ new.op = "removeRole" /\ new.to = r
    BY AtRestFits DEF AskRecords, AskStages
  <2>3. asks' = [asks EXCEPT ![c] = new]
    BY <2>1
  <2> HIDE DEF new
  <2>4. AskNamed(new) /\ (practice = "careful" => Spares(new))
    BY <2>1, <2>2 DEF AskNamed, Spares, SuperKept, SuperRoleStands
  <2> QED BY <1>0, <1>a, <1>3, <2>2, <2>3, <2>4, OneAskMoves DEF CheckRole
<1> QED BY <1>1, <1>2, <1>3

(* A commit is counted.                                                      *)
LEMMA CommitCounts == StaffInv /\ Commit => changes' \in 0 .. MaxChanges
  BY StaffAssumption DEF StaffInv, StaffTables, Commit

(* The handlers that write an account.                                       *)
LEMMA AccountWritesKeep ==
    ASSUME StaffInv, NEW c \in Clerks,
           Deactivate(c) \/ RemoveAdmin(c) \/ ChangeRole(c) \/ Activate(c) \/ Create(c)
    PROVE  StaffInv'
<1> USE DEF StaffInv
<1>0. changes' \in 0 .. MaxChanges
  BY CommitCounts DEF Deactivate, RemoveAdmin, ChangeRole, Activate, Create
<1>a. \A t \in Admins : admin[t] \in AdminRecords
  BY DEF StaffTables
<1>b. practice = "careful" => Spares(asks[c])
  BY DEF SuperKept
<1> DEFINE t == asks[c].who
           done == [AtRest EXCEPT !.at = "changed", !.who = t]
<1>c. t \in Admins => done \in AskRecords /\ done.at = "changed" /\ done.who = t
  BY AtRestFits DEF AskRecords, AskStages
<1> HIDE DEF done
<1>1. CASE Deactivate(c)
  <2>1. /\ asks[c].at = "checked" /\ asks[c].op = "deactivate" /\ t \in Admins /\ Here(t)
        /\ admin' = [admin EXCEPT ![t] = [admin[t] EXCEPT !.active = FALSE]]
    BY <1>1, AskIsRecord DEF Deactivate, AskNamed
  <2> DEFINE row == [admin[t] EXCEPT !.active = FALSE]
  <2>2. row \in AdminRecords /\ row.life = admin[t].life /\ row.role = admin[t].role
    BY <1>a, <2>1 DEF AdminRecords
  <2>3. row.life # "unborn"
    BY <2>1, <2>2 DEF Here
  <2>4. practice = "careful" => \E b \in ActiveSupers : b # t
    BY <1>b, <2>1 DEF Spares
  <2> HIDE DEF row, t
  <2>5. admin' = [admin EXCEPT ![t] = row] /\ asks' = [asks EXCEPT ![c] = AtRest]
    BY <1>1, <2>1 DEF Deactivate, row
  <2>9. UNCHANGED <<role, cache, late, practice>>
    BY <1>1 DEF Deactivate
  <2> HIDE DEF StaffInv
  <2> QED BY <1>0, <2>1, <2>2, <2>3, <2>4, <2>5, AtRestFits, <2>9, AdminMoves
<1>2. CASE RemoveAdmin(c)
  <2>1. /\ asks[c].at = "checked" /\ asks[c].op = "remove" /\ t \in Admins /\ Here(t)
        /\ admin' = [admin EXCEPT ![t] = [admin[t] EXCEPT !.life = "gone"]]
    BY <1>2, AskIsRecord DEF RemoveAdmin, AskNamed
  <2> DEFINE row == [admin[t] EXCEPT !.life = "gone"]
  <2>2. row \in AdminRecords /\ row.life # "unborn"
    BY <1>a, <2>1 DEF AdminRecords
  <2>4. practice = "careful" => \E b \in ActiveSupers : b # t
    BY <1>b, <2>1 DEF Spares
  <2>5. asks' = [asks EXCEPT ![c] = done]
    BY <1>2 DEF RemoveAdmin, done
  <2> HIDE DEF row, t
  <2>6. admin' = [admin EXCEPT ![t] = row]
    BY <2>1 DEF row
  <2>9. UNCHANGED <<role, cache, late, practice>>
    BY <1>2 DEF RemoveAdmin
  <2> HIDE DEF StaffInv
  <2> QED BY <1>0, <1>c, <2>1, <2>2, <2>4, <2>5, <2>6, <2>9, AdminMoves
<1>3. CASE ChangeRole(c)
  <2>1. /\ asks[c].at = "checked" /\ asks[c].op = "changeRole" /\ t \in Admins /\ Here(t)
        /\ asks[c].to \in Roles
        /\ admin' = [admin EXCEPT ![t] = [admin[t] EXCEPT !.role = asks[c].to]]
    BY <1>3, AskIsRecord DEF ChangeRole, AskNamed, AskRecords
  <2> DEFINE row == [admin[t] EXCEPT !.role = asks[c].to]
  <2>2. /\ row \in AdminRecords /\ row.life = "here" /\ row.active = admin[t].active /\ row.role = asks[c].to
    BY <1>a, <2>1 DEF AdminRecords, Here
  <2>3. practice = "careful" => role[asks[c].to].super \/ \E b \in ActiveSupers : b # t
    BY <1>b, <2>1 DEF Spares
  <2>4. t \in ActiveSupers => admin[t].active
    BY DEF ActiveSupers, SignedIn
  <2>5. asks' = [asks EXCEPT ![c] = done]
    BY <1>3 DEF ChangeRole, done
  <2> HIDE DEF row, t
  <2>6. admin' = [admin EXCEPT ![t] = row]
    BY <2>1 DEF row
  <2>7. practice = "careful" =>
               \/ t \notin ActiveSupers
               \/ row.life = "here" /\ row.active /\ role[row.role].super
               \/ asks[c].at = "checked" /\ \E b \in ActiveSupers : b # t
    BY <2>1, <2>2, <2>3, <2>4
  <2>9. UNCHANGED <<role, cache, late, practice>>
    BY <1>3 DEF ChangeRole
  <2> HIDE DEF StaffInv
  <2> QED BY <1>0, <1>c, <2>1, <2>2, <2>5, <2>6, <2>7, <2>9, AdminMoves
<1>4. CASE Activate(c)
  <2>1. PICK u \in Admins :
          /\ asks[c].at = "granted" /\ Here(u)
          /\ admin' = [admin EXCEPT ![u] = [admin[u] EXCEPT !.active = TRUE]]
          /\ asks' = [asks EXCEPT ![c] = AtRest]
    BY <1>4 DEF Activate, Admitted
  <2> DEFINE row == [admin[u] EXCEPT !.active = TRUE]
  <2>2. row \in AdminRecords /\ row.life = admin[u].life /\ row.role = admin[u].role /\ row.active
    BY <1>a DEF AdminRecords
  <2>3. row.life = "here"
    BY <2>1, <2>2 DEF Here
  <2>4. u \in ActiveSupers => role[row.role].super
    BY <2>2 DEF ActiveSupers
  <2>5. admin' = [admin EXCEPT ![u] = row]
    BY <2>1
  <2> HIDE DEF row
  <2>9. UNCHANGED <<role, cache, late, practice>>
    BY <1>4 DEF Activate
  <2> HIDE DEF StaffInv
  <2> QED BY <1>0, <2>1, <2>2, <2>3, <2>4, <2>5, AtRestFits, <2>9, AdminMoves
<1>5. CASE Create(c)
  <2>1. PICK u \in Admins, r \in Roles :
          /\ asks[c].at = "granted" /\ admin[u].life = "unborn"
          /\ admin' = [admin EXCEPT ![u] = [life |-> "here", role |-> r, active |-> TRUE]]
          /\ asks' = [asks EXCEPT ![c] = AtRest]
    BY <1>5 DEF Create, Admitted
  <2> DEFINE row == [life |-> "here", role |-> r, active |-> TRUE]
  <2>2. row \in AdminRecords /\ row.life = "here"
    BY DEF AdminRecords
  <2>3. cache[u] = NoGrant /\ u \notin ActiveSupers
    BY <2>1 DEF UnbornUncached, ActiveSupers, SignedIn, Here
  <2>5. admin' = [admin EXCEPT ![u] = row]
    BY <2>1
  <2> HIDE DEF row
  <2>9. UNCHANGED <<role, cache, late, practice>>
    BY <1>5 DEF Create
  <2> HIDE DEF StaffInv
  <2> QED BY <1>0, <2>1, <2>2, <2>3, <2>5, AtRestFits, <2>9, AdminMoves
<1> QED BY <1>1, <1>2, <1>3, <1>4, <1>5

(* The handlers that write a role.                                           *)
LEMMA RoleWritesKeep ==
    ASSUME StaffInv, NEW c \in Clerks,
           RemoveRole(c) \/ CreateRole(c) \/ UpdateRole(c) \/ ReplacePermissions(c)
    PROVE  StaffInv'
<1> USE DEF StaffInv
<1>0. changes' \in 0 .. MaxChanges
  BY CommitCounts DEF RemoveRole, CreateRole, UpdateRole, ReplacePermissions
<1>a. \A r \in Roles : role[r] \in RoleRecords
  BY DEF StaffTables
<1>b. practice = "careful" => Spares(asks[c]) /\ SuperRoleStands
  BY DEF SuperKept
<1>1. CASE RemoveRole(c)
  <2>1. /\ asks[c].at = "checked" /\ asks[c].op = "removeRole" /\ asks[c].to \in Roles
        /\ role[asks[c].to].there /\ Holders(asks[c].to) = {}
    BY <1>1, AskIsRecord DEF RemoveRole, AskRecords
  <2> DEFINE r == asks[c].to
             row == [role[r] EXCEPT !.there = FALSE, !.codes = {}]
  <2>2. row \in RoleRecords /\ ~row.there /\ row.codes = {} /\ row.super = role[r].super
    BY <1>a, <2>1 DEF RoleRecords
  <2>3. role' = [role EXCEPT ![r] = row]
    <3>1. role' = [role EXCEPT ![r].there = FALSE, ![r].codes = {}] /\ role \in [Roles -> RoleRecords]
      BY <1>1 DEF RemoveRole, StaffTables
    <3>2. role[r] \in RoleRecords /\ r \in Roles
      BY <1>a, <2>1
    <3> QED BY <3>1, <3>2 DEF RoleRecords
  <2>4. practice = "careful" => r # SuperRole /\ ~row.super
    BY <1>b, <2>1, <2>2 DEF Spares, SuperRoleStands
  <2> HIDE DEF row
  <2>9. UNCHANGED <<admin, cache, late, practice>> /\ asks' = [asks EXCEPT ![c] = AtRest]
    BY <1>1 DEF RemoveRole
  <2> HIDE DEF StaffInv
  <2> QED BY <1>0, <2>1, <2>2, <2>3, <2>4, AtRestFits, <2>9, RoleMoves
<1>2. CASE CreateRole(c)
  <2>1. PICK r \in Roles :
          /\ asks[c].at = "granted" /\ ~role[r].there
          /\ role' = [role EXCEPT ![r] = [there |-> TRUE, super |-> FALSE, system |-> FALSE, codes |-> {}]]
          /\ asks' = [asks EXCEPT ![c] = AtRest]
    BY <1>2 DEF CreateRole, Admitted
  <2> DEFINE row == [there |-> TRUE, super |-> FALSE, system |-> FALSE, codes |-> {}]
  <2>2. row \in RoleRecords /\ row.there /\ row.codes = {} /\ ~row.super
    BY DEF RoleRecords
  <2>3. row.codes = role[r].codes
    BY <2>1, <2>2 DEF AbsentGrantsNothing
  <2>4. practice = "careful" => r # SuperRole /\ ~row.super
    BY <1>b, <2>1, <2>2 DEF SuperRoleStands
  <2>5. role' = [role EXCEPT ![r] = row]
    BY <2>1
  <2> HIDE DEF row
  <2>9. UNCHANGED <<admin, cache, late, practice>>
    BY <1>2 DEF CreateRole
  <2> HIDE DEF StaffInv
  <2>6. asks[c].at \in {"granted", "checked"} /\ (~row.there => row.codes = {})
        /\ asks' = [asks EXCEPT ![c] = AtRest] /\ AtRest \in AskRecords /\ AtRest.at \in {"free", "evicting"}
    BY <2>1, <2>2, AtRestFits
  <2> QED BY <1>0, <2>2, <2>3, <2>4, <2>5, <2>6, <2>9, RoleMoves
<1>3. CASE UpdateRole(c)
  <2>1. PICK r \in Roles, super \in BOOLEAN, system \in BOOLEAN :
          /\ asks[c].at = "granted" /\ role[r].there /\ MayEditRole(r)
          /\ super => \A o \in Roles \ {r} : ~(role[o].there /\ role[o].super)
          /\ role' = [role EXCEPT ![r].super = super, ![r].system = system]
          /\ asks' = [asks EXCEPT ![c] = AtRest]
    BY <1>3 DEF UpdateRole, Admitted
  <2> DEFINE row == [role[r] EXCEPT !.super = super, !.system = system]
  <2>2. row \in RoleRecords /\ row.there /\ row.codes = role[r].codes /\ (row.super <=> super)
    BY <1>a, <2>1 DEF RoleRecords
  <2>3. practice = "careful" => r # SuperRole /\ ~super
    BY <1>b, <2>1, StaffAssumption DEF MayEditRole, SuperRoleStands
  <2>4. role' = [role EXCEPT ![r] = row]
    <3>1. role[r] \in RoleRecords /\ role \in [Roles -> RoleRecords]
      BY <1>a DEF StaffTables
    <3> QED BY <2>1, <3>1 DEF RoleRecords
  <2> HIDE DEF row
  <2>9. UNCHANGED <<admin, cache, late, practice>>
    BY <1>3 DEF UpdateRole
  <2> HIDE DEF StaffInv
  <2>5. row.there /\ row.codes = role[r].codes /\ (practice = "careful" => r # SuperRole /\ ~row.super)
    BY <2>2, <2>3
  <2>6. asks[c].at \in {"granted", "checked"} /\ (~row.there => row.codes = {})
        /\ asks' = [asks EXCEPT ![c] = AtRest] /\ AtRest \in AskRecords /\ AtRest.at \in {"free", "evicting"}
    BY <2>1, <2>2, AtRestFits
  <2> QED BY <1>0, <2>2, <2>4, <2>5, <2>6, <2>9, RoleMoves
<1>4. CASE ReplacePermissions(c)
  <2>1. PICK r \in Roles, codes \in Grants :
          /\ asks[c].at = "granted" /\ role[r].there /\ MayEditRole(r)
          /\ role' = [role EXCEPT ![r] = [role[r] EXCEPT !.codes = codes]]
          /\ asks' = [asks EXCEPT ![c] = [AtRest EXCEPT !.at = "evicting", !.to = r]]
    BY <1>4 DEF ReplacePermissions, Admitted
  <2> DEFINE row == [role[r] EXCEPT !.codes = codes]
             new == [AtRest EXCEPT !.at = "evicting", !.to = r]
  <2>0. codes \in SUBSET Codes
    BY StaffAssumption DEF Codes
  <2>2. row \in RoleRecords /\ row.there /\ (row.super <=> role[r].super)
    BY <1>a, <2>0, <2>1 DEF RoleRecords
  <2>3. practice = "careful" => r # SuperRole /\ ~row.super
    BY <1>b, <2>1, <2>2 DEF MayEditRole, SuperRoleStands
  <2>4. new \in AskRecords /\ new.at = "evicting" /\ new.to = r
    BY AtRestFits DEF AskRecords, AskStages
  <2>5. role' = [role EXCEPT ![r] = row] /\ asks' = [asks EXCEPT ![c] = new]
    BY <2>1
  <2> HIDE DEF row, new
  <2>9. UNCHANGED <<admin, cache, late, practice>>
    BY <1>4 DEF ReplacePermissions
  <2> HIDE DEF StaffInv
  <2>6. asks[c].at \in {"granted", "checked"} /\ (~row.there => row.codes = {})
        /\ new.at \in {"free", "evicting"} /\ (new.at = "evicting" /\ new.to = r)
    BY <2>1, <2>2, <2>4
  <2> QED BY <1>0, <2>2, <2>3, <2>4, <2>5, <2>6, <2>9, RoleMoves
<1> QED BY <1>1, <1>2, <1>3, <1>4

(* Who is to be evicted is read after the commit.                            *)
LEMMA ReadHoldersKeeps == ASSUME StaffInv, NEW c \in Clerks, ReadHolders(c) PROVE StaffInv'
<1> DEFINE new == [AtRest EXCEPT !.at = "holding", !.ids = Holders(asks[c].to)]
<1>1. new \in AskRecords /\ new.at = "holding" /\ new.ids = Holders(asks[c].to)
  BY AtRestFits DEF AskRecords, AskStages, Holders
<1>2. asks' = [asks EXCEPT ![c] = new]
  BY DEF ReadHolders
<1> HIDE DEF new
<1>3. AskNamed(new) /\ Spares(new) /\ new.at # "checked"
  BY <1>1 DEF AskNamed, Spares
<1>4. \A a : DueBy(asks[c], a) => DueBy(new, a)
  BY <1>1 DEF ReadHolders, DueBy
<1> QED BY <1>1, <1>2, <1>3, <1>4, OneAskMoves DEF ReadHolders

(* It holds at first.                                                        *)
LEMMA StaffStart == StaffInit => StaffInv
<1> SUFFICES ASSUME StaffInit PROVE StaffInv
  OBVIOUS
<1>1. ASSUME NEW a \in Admins
      PROVE  /\ admin[a] \in AdminRecords /\ (admin[a].life = "here" <=> a \in DOMAIN FirstAdmins)
             /\ a \in DOMAIN FirstAdmins => admin[a].role = FirstAdmins[a] /\ admin[a].active
  BY StaffAssumption DEF StaffInit, Unborn, AdminRecords
<1>2. ASSUME NEW r \in Roles
      PROVE  /\ role[r] \in RoleRecords /\ (role[r].there <=> r \in DOMAIN FirstRoles)
             /\ (role[r].super <=> r = SuperRole) /\ (role[r].system <=> r \in DOMAIN FirstRoles)
             /\ role[r].codes = IF r \in DOMAIN FirstRoles THEN FirstRoles[r] ELSE {}
  <2> DEFINE codes == IF r \in DOMAIN FirstRoles THEN FirstRoles[r] ELSE {}
  <2>1. codes \in SUBSET Codes
    BY StaffAssumption DEF Codes
  <2>2. role[r] = [there |-> r \in DOMAIN FirstRoles, super |-> r = SuperRole,
                   system |-> r \in DOMAIN FirstRoles, codes |-> codes]
    BY DEF StaffInit
  <2>3. role[r].codes = codes
    BY <2>2
  <2> HIDE DEF codes
  <2>4. role[r] \in RoleRecords
    BY <2>1, <2>2 DEF RoleRecords
  <2>5. (role[r].there <=> r \in DOMAIN FirstRoles) /\ (role[r].system <=> r \in DOMAIN FirstRoles)
    <3>1. CASE r \in DOMAIN FirstRoles
      <4>1. role[r] = [there |-> TRUE, super |-> r = SuperRole, system |-> TRUE, codes |-> codes]
        BY <2>2, <3>1, Zenon
      <4> QED BY <3>1, <4>1
    <3>2. CASE r \notin DOMAIN FirstRoles
      <4>0. (r \in DOMAIN FirstRoles) = FALSE
        BY <3>2
      <4>1. role[r] = [there |-> FALSE, super |-> r = SuperRole, system |-> FALSE, codes |-> codes]
        BY <2>2, <4>0, Zenon
      <4> QED BY <3>2, <4>1
    <3> QED BY <3>1, <3>2
  <2>6. role[r].super <=> r = SuperRole
    <3>1. CASE r = SuperRole
      <4>0. (r = SuperRole) = TRUE
        BY <3>1
      <4>1. role[r] = [there |-> r \in DOMAIN FirstRoles, super |-> TRUE, system |-> r \in DOMAIN FirstRoles, codes |-> codes]
        BY <2>2, <4>0, Zenon
      <4> QED BY <3>1, <4>1
    <3>2. CASE r # SuperRole
      <4>0. (r = SuperRole) = FALSE
        BY <3>2
      <4>1. role[r] = [there |-> r \in DOMAIN FirstRoles, super |-> FALSE, system |-> r \in DOMAIN FirstRoles, codes |-> codes]
        BY <2>2, <4>0, Zenon
      <4> QED BY <3>2, <4>1
    <3> QED BY <3>1, <3>2
  <2> QED BY <2>3, <2>4, <2>5, <2>6 DEF codes
<1>3. StaffTables
  <2>1. admin \in [Admins -> AdminRecords]
    <3>1. admin = [a \in Admins |-> admin[a]]
      BY DEF StaffInit
    <3> QED BY <1>1, <3>1
  <2>2. role \in [Roles -> RoleRecords]
    <3>1. role = [r \in Roles |-> role[r]]
      BY DEF StaffInit
    <3> QED BY <1>2, <3>1
  <2>3. asks \in [Clerks -> AskRecords] /\ cache \in [Admins -> {NoGrant} \cup SUBSET Codes]
    BY AtRestFits DEF StaffInit
  <2> QED BY <2>1, <2>2, <2>3, StaffAssumption DEF StaffInit, StaffTables
<1>4. AsksNamed /\ UnbornUncached
  BY AtRestFits DEF StaffInit, AsksNamed, UnbornUncached
<1>5. AbsentGrantsNothing
  BY <1>2 DEF AbsentGrantsNothing
<1>6. GuardFollowsRole
  BY DEF StaffInit, GuardFollowsRole
<1>7. SuperKept
  <2>1. SuperRoleStands
    BY <1>2, StaffAssumption DEF SuperRoleStands
  <2>2. ActiveSupers # {}
    <3>1. PICK a \in DOMAIN FirstAdmins : FirstAdmins[a] = SuperRole
      BY StaffAssumption
    <3>2. a \in Admins
      BY StaffAssumption
    <3>3. a \in ActiveSupers
      BY <1>1, <2>1, <3>1, <3>2, StaffAssumption DEF ActiveSupers, SignedIn, Here, SuperRoleStands
    <3> QED BY <3>3
  <2>3. \A c \in Clerks : asks[c].at = "free"
    BY AtRestFits DEF StaffInit
  <2> QED BY <2>1, <2>2, <2>3 DEF SuperKept, Spares
<1> QED BY <1>3, <1>4, <1>5, <1>6, <1>7 DEF StaffInv

(* Every step keeps it.                                                      *)
LEMMA StaffInduct == StaffInv /\ [StaffNext]_staffVars => StaffInv'
<1> SUFFICES ASSUME StaffInv, [StaffNext]_staffVars PROVE StaffInv'
  OBVIOUS
<1>1. CASE UNCHANGED staffVars
  BY <1>1 DEF staffVars, StaffInv, StaffTables, AsksNamed, AskNamed, UnbornUncached, AbsentGrantsNothing,
              GuardFollowsRole, EvictionDue, Holders, GrantOf, SuperKept, SuperRoleStands, Spares, ActiveSupers,
              SignedIn, Here
<1>2. ASSUME NEW c \in Clerks, Refuse(c) \/ Gone(c) PROVE StaffInv'
  BY <1>2, Rests DEF Refuse, Gone
<1>3. ASSUME NEW c \in Clerks, StaffStep(c) PROVE StaffInv'
  BY <1>2, <1>3, GuardReads, CacheKeeps, ChecksKeep, AccountWritesKeep, RoleWritesKeep, ReadHoldersKeeps DEF StaffStep
<1> QED BY <1>1, <1>3, CacheKeeps DEF StaffNext

(* The tables of the panel's staff, the guard's cache and the rails around   *)
(* the SUPER_ADMIN role, for every number of accounts, roles and requests.   *)
THEOREM StaffInvariance == StaffSpec => []StaffInv
<1> QED BY StaffStart, StaffInduct, PTL DEF StaffSpec

(* As long as decisions do not overlap and nobody edits the SUPER_ADMIN role *)
(* an active administrator holds every code that manages staff.              *)
THEOREM NeverLockedOut == StaffSpec => []SuperAdminRemains
<1>1. StaffInv => SuperAdminRemains
  <2> SUFFICES ASSUME StaffInv, practice = "careful"
               PROVE  \E a \in Admins : SignedIn(a) /\ {"admins.manage", "roles.manage"} \subseteq GrantOf(a)
    BY DEF SuperAdminRemains
  <2>1. PICK a \in Admins : SignedIn(a) /\ role[admin[a].role].super
    BY DEF StaffInv, SuperKept, ActiveSupers
  <2>2. admin[a].role = SuperRole
    BY <2>1 DEF StaffInv, SuperKept, SuperRoleStands, StaffTables, AdminRecords
  <2> QED BY <2>1, <2>2 DEF StaffInv, SuperKept, SuperRoleStands, SignedIn, GrantOf
<1> QED BY StaffInvariance, <1>1, PTL

-----------------------------------------------------------------------------
(* The routes: a write of the panel is nobody's without a manage code or a   *)
(* secret that is no code at all, and a player's write under the session     *)
(* asks for the double-submitted token.                                      *)
Barred(needs) == \E x \in needs : x \in ManageCodes \/ x \notin PERMISSION_CODES
WriteIsBarred(r) == r.does = "writes" /\ r.area # "auth" => Barred(r.needs)
WriteHasToken(r) == r.does = "writes" /\ "session" \in r.needs => "csrf" \in r.needs

(* A route that only reads.                                                  *)
LEMMA ReadsRead == ASSUME NEW area, NEW ops, NEW needs, NEW r \in Reads(area, ops, needs)
                   PROVE  WriteIsBarred(r) /\ WriteHasToken(r)
<1>1. r.does = "reads"
  BY DEF Reads
<1> QED BY <1>1 DEF WriteIsBarred, WriteHasToken

(* What a route that writes asks of its caller.                              *)
LEMMA WritesNeed == ASSUME NEW area, NEW ops, NEW needs, NEW r \in Writes(area, ops, needs)
                    PROVE  r.area = area /\ r.needs = needs
  BY DEF Writes

(* The demands there are.                                                    *)
LEMMA BarredCodes ==
    /\ Barred({"admins.manage", "roles.manage"}) /\ Barred({"admins.manage"}) /\ Barred({"roles.manage"})
    /\ Barred({"security.manage"}) /\ Barred({"users.manage"}) /\ Barred({"tournaments.manage"})
    /\ Barred({"payouts.manage"}) /\ Barred({"rewards.manage"}) /\ Barred({"settings.manage"})
    /\ Barred({"signature"}) /\ Barred({"token"})
  BY DEF Barred, ManageCodes, PERMISSION_CODES

(* Every write of every controller of the panel is barred.                   *)
LEMMA StaffWritesBarred == ASSUME NEW r \in StaffRoutes PROVE WriteIsBarred(r)
<1>1. CASE r \in AdminsController
  BY <1>1, ReadsRead, WritesNeed, BarredCodes DEF AdminsController, WriteIsBarred
<1>2. CASE r \in AdminRoleController
  BY <1>2, ReadsRead, WritesNeed, BarredCodes DEF AdminRoleController, WriteIsBarred
<1>3. CASE r \in RolesController
  BY <1>3, ReadsRead, WritesNeed, BarredCodes DEF RolesController, WriteIsBarred
<1>4. CASE r \in PermissionsController
  BY <1>4, ReadsRead, WritesNeed, BarredCodes DEF PermissionsController, WriteIsBarred
<1>5. CASE r \in AuthController
  BY <1>5, ReadsRead, WritesNeed, BarredCodes DEF AuthController, WriteIsBarred
<1>6. CASE r \in AuthSelfController
  BY <1>6, ReadsRead, WritesNeed, BarredCodes DEF AuthSelfController, WriteIsBarred
<1>7. CASE r \in SecurityController
  BY <1>7, ReadsRead, WritesNeed, BarredCodes DEF SecurityController, WriteIsBarred
<1>8. CASE r \in UsersReads
  BY <1>8, ReadsRead, WritesNeed, BarredCodes DEF UsersReads, WriteIsBarred
<1>9. CASE r \in UsersWrites
  BY <1>9, ReadsRead, WritesNeed, BarredCodes DEF UsersWrites, WriteIsBarred
<1>10. CASE r \in TournamentsReads
  BY <1>10, ReadsRead, WritesNeed, BarredCodes DEF TournamentsReads, WriteIsBarred
<1>11. CASE r \in TournamentsWrites
  BY <1>11, ReadsRead, WritesNeed, BarredCodes DEF TournamentsWrites, WriteIsBarred
<1>12. CASE r \in TournamentsDesk
  BY <1>12, ReadsRead, WritesNeed, BarredCodes DEF TournamentsDesk, WriteIsBarred
<1>13. CASE r \in PayoutsReads
  BY <1>13, ReadsRead, WritesNeed, BarredCodes DEF PayoutsReads, WriteIsBarred
<1>14. CASE r \in PayoutsWrites
  BY <1>14, ReadsRead, WritesNeed, BarredCodes DEF PayoutsWrites, WriteIsBarred
<1>15. CASE r \in StripeWebhook
  BY <1>15, ReadsRead, WritesNeed, BarredCodes DEF StripeWebhook, WriteIsBarred
<1>16. CASE r \in ClaimsController
  BY <1>16, ReadsRead, WritesNeed, BarredCodes DEF ClaimsController, WriteIsBarred, DeskReads, DeskWrites
<1>17. CASE r \in DisputesController
  BY <1>17, ReadsRead, WritesNeed, BarredCodes DEF DisputesController, WriteIsBarred, DeskReads, DeskWrites
<1>18. CASE r \in PayoutMethodsController
  BY <1>18, ReadsRead, WritesNeed, BarredCodes DEF PayoutMethodsController, WriteIsBarred, DeskReads, DeskWrites
<1>19. CASE r \in SponsorsController
  BY <1>19, ReadsRead, WritesNeed, BarredCodes DEF SponsorsController, WriteIsBarred, DeskReads, DeskWrites
<1>20. CASE r \in ShipmentsController
  BY <1>20, ReadsRead, WritesNeed, BarredCodes DEF ShipmentsController, WriteIsBarred, DeskReads, DeskWrites
<1>21. CASE r \in TaxController
  BY <1>21, ReadsRead, WritesNeed, BarredCodes DEF TaxController, WriteIsBarred, DeskReads, DeskWrites
<1>22. CASE r \in TreasuryController
  BY <1>22, ReadsRead, WritesNeed, BarredCodes DEF TreasuryController, WriteIsBarred, DeskReads, DeskWrites
<1>23. CASE r \in VerificationController
  BY <1>23, ReadsRead, WritesNeed, BarredCodes DEF VerificationController, WriteIsBarred, DeskReads, DeskWrites
<1>24. CASE r \in RewardsController
  BY <1>24, ReadsRead, WritesNeed, BarredCodes DEF RewardsController, WriteIsBarred
<1>25. CASE r \in RewardFulfilmentController
  BY <1>25, ReadsRead, WritesNeed, BarredCodes DEF RewardFulfilmentController, WriteIsBarred
<1>26. CASE r \in MerchandiseReads
  BY <1>26, ReadsRead, WritesNeed, BarredCodes DEF MerchandiseReads, WriteIsBarred
<1>27. CASE r \in MerchandiseWrites
  BY <1>27, ReadsRead, WritesNeed, BarredCodes DEF MerchandiseWrites, WriteIsBarred
<1>28. CASE r \in SettingsController
  BY <1>28, ReadsRead, WritesNeed, BarredCodes DEF SettingsController, WriteIsBarred
<1>29. CASE r \in ActivityController
  BY <1>29, ReadsRead, WritesNeed, BarredCodes DEF ActivityController, WriteIsBarred
<1>30. CASE r \in DashboardController
  BY <1>30, ReadsRead, WritesNeed, BarredCodes DEF DashboardController, WriteIsBarred
<1>31. CASE r \in HealthController
  BY <1>31, ReadsRead, WritesNeed, BarredCodes DEF HealthController, WriteIsBarred
<1>32. CASE r \in WebhooksController
  BY <1>32, ReadsRead, WritesNeed, BarredCodes DEF WebhooksController, WriteIsBarred
<1> QED BY <1>1, <1>2, <1>3, <1>4, <1>5, <1>6, <1>7, <1>8, <1>9, <1>10, <1>11, <1>12, <1>13, <1>14, <1>15, <1>16, <1>17, <1>18, <1>19, <1>20, <1>21, <1>22, <1>23, <1>24, <1>25, <1>26, <1>27, <1>28, <1>29, <1>30, <1>31, <1>32 DEF StaffRoutes

(* Every write of every controller of the players' site under a session has  *)
(* the token.                                                                *)
LEMMA PlayerWritesToken == ASSUME NEW r \in PlayerRoutes PROVE WriteHasToken(r)
<1>0. "csrf" \in {"session", "csrf"}
  OBVIOUS
<1>1. CASE r \in PlayerAuthController
  BY <1>0, <1>1, ReadsRead, WritesNeed DEF PlayerAuthController, Looks, Acts, WriteHasToken
<1>2. CASE r \in PlayerIdentityController
  BY <1>0, <1>2, ReadsRead, WritesNeed DEF PlayerIdentityController, Looks, Acts, WriteHasToken
<1>3. CASE r \in PlayerProfileController
  BY <1>0, <1>3, ReadsRead, WritesNeed DEF PlayerProfileController, Looks, Acts, WriteHasToken
<1>4. CASE r \in PlayerSocialController
  BY <1>0, <1>4, ReadsRead, WritesNeed DEF PlayerSocialController, Looks, Acts, WriteHasToken
<1>5. CASE r \in MatchesController
  BY <1>0, <1>5, ReadsRead, WritesNeed DEF MatchesController, Looks, Acts, WriteHasToken
<1>6. CASE r \in PlayerTournamentsController
  BY <1>0, <1>6, ReadsRead, WritesNeed DEF PlayerTournamentsController, Looks, Acts, WriteHasToken
<1>7. CASE r \in PlayerDepositsController
  BY <1>0, <1>7, ReadsRead, WritesNeed DEF PlayerDepositsController, Looks, Acts, WriteHasToken
<1>8. CASE r \in PlayerWithdrawalsController
  BY <1>0, <1>8, ReadsRead, WritesNeed DEF PlayerWithdrawalsController, Looks, Acts, WriteHasToken
<1>9. CASE r \in PlayerMerchandiseController
  BY <1>0, <1>9, ReadsRead, WritesNeed DEF PlayerMerchandiseController, Looks, Acts, WriteHasToken
<1>10. CASE r \in PlayerRewardsController
  BY <1>0, <1>10, ReadsRead, WritesNeed DEF PlayerRewardsController, Looks, Acts, WriteHasToken
<1>11. CASE r \in PlayerWalletController
  BY <1>0, <1>11, ReadsRead, WritesNeed DEF PlayerWalletController, Looks, Acts, WriteHasToken
<1>12. CASE r \in PlayerOverviewController
  BY <1>0, <1>12, ReadsRead, WritesNeed DEF PlayerOverviewController, Looks, Acts, WriteHasToken
<1>13. CASE r \in LeaderboardController
  BY <1>0, <1>13, ReadsRead, WritesNeed DEF LeaderboardController, Looks, Acts, WriteHasToken
<1>14. CASE r \in AnimationsController
  BY <1>0, <1>14, ReadsRead, WritesNeed DEF AnimationsController, Looks, Acts, WriteHasToken
<1>15. CASE r \in EngagementController
  BY <1>0, <1>15, ReadsRead, WritesNeed DEF EngagementController, Looks, Acts, WriteHasToken
<1>16. CASE r \in LearningController
  BY <1>0, <1>16, ReadsRead, WritesNeed DEF LearningController, Looks, Acts, WriteHasToken
<1> QED BY <1>1, <1>2, <1>3, <1>4, <1>5, <1>6, <1>7, <1>8, <1>9, <1>10, <1>11, <1>12, <1>13, <1>14, <1>15, <1>16 DEF PlayerRoutes

(* Whatever overlaps, what a request may do follows the role its sender      *)
(* holds, until an eviction that is due or the expiry of a late entry: the   *)
(* guard answers as the role does, and nobody writes through the panel on    *)
(* its answer alone without a manage code of that role.                      *)
THEOREM GuardFollows == StaffSpec => []AccessFollowsRole
<1>1. StaffInv => StaffTypeOK
  BY DEF StaffInv, StaffTables, StaffTypeOK, AdminRecords, RoleRecords, AskRecords, AskStages
<1>2. StaffInv => GuardFollowsRole
  BY DEF StaffInv
<1>3. StaffInv => NoRouteLeftOpen
  <2> SUFFICES ASSUME StaffInv PROVE NoRouteLeftOpen
    OBVIOUS
  <2>1. ASSUME NEW a \in Admins, NEW needs \in WriteNeeds, needs \subseteq Effective(a),
               ~EvictionDue(a), a \notin late
        PROVE  GrantOf(a) \cap ManageCodes # {}
    <3>1. cache[a] \in {NoGrant, GrantOf(a)}
      BY <1>2, <2>1 DEF GuardFollowsRole
    <3>2. Effective(a) = GrantOf(a)
      BY <3>1 DEF Effective
    <3>3. GrantOf(a) \subseteq PERMISSION_CODES
      BY DEF StaffInv, StaffTables, AdminRecords, RoleRecords, GrantOf, Codes
    <3>4. PICK r \in StaffRoutes : r.does = "writes" /\ r.area # "auth" /\ needs = r.needs
      BY <2>1 DEF WriteNeeds
    <3>5. Barred(needs)
      BY <3>4, StaffWritesBarred DEF WriteIsBarred
    <3> HIDE DEF StaffInv
    <3> QED BY <2>1, <3>2, <3>3, <3>5 DEF Barred
  <2>2. \A r \in PlayerRoutes : r.does = "writes" /\ "session" \in r.needs => "csrf" \in r.needs
    BY PlayerWritesToken DEF WriteHasToken
  <2> QED BY <2>1, <2>2 DEF NoRouteLeftOpen
<1>4. StaffInv => AccessFollowsRole
  BY <1>1, <1>2, <1>3 DEF AccessFollowsRole
<1> QED BY StaffInvariance, <1>4, PTL
=============================================================================
