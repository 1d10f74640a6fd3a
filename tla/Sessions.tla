------------------------------ MODULE Sessions ------------------------------
(***************************************************************************)
(* Signing in to the panel: sessions, the refresh tokens that rotate in    *)
(* them, and the calls that end them.  Every awaited statement is a step;  *)
(* the two calls that revoke run as a transaction of two updateMany, which *)
(* sees the tokens committed when it begins (a rotation that claimed its   *)
(* token first commits in between) and the sessions there are at its end.  *)
(***************************************************************************)
EXTENDS Naturals, FiniteSets
CONSTANTS Owners, SessionIds, TokenIds, Desks, MaxPassword
ASSUME SessionsAssumption == /\ SessionIds \subseteq Nat \ {0} /\ TokenIds \subseteq Nat \ {0} /\ 0 \notin Owners
                             /\ MaxPassword \in Nat
VARIABLES password,    \* the version of the hash on the row
          active, session, token, call,
          fresh,       \* tokens rotated less than REFRESH_REUSE_GRACE_MS ago
          floor,       \* history: [version, spared] of the last finished self-service change
          slipped      \* history: sessions opened on a password that had just been replaced
sessionVars == <<password, active, session, token, call, fresh, floor, slipped>>

Quiet == [at |-> "quiet", who |-> 0, sid |-> 0, tok |-> 0, seen |-> {}, version |-> 0]
SessionsTypeOK ==
  /\ password \in [Owners -> 0..MaxPassword] /\ active \in [Owners -> BOOLEAN]
  /\ \A s \in SessionIds : session[s].state \in {"none", "live", "lapsed", "revoked"}
  /\ \A t \in TokenIds : token[t].state \in {"none", "live", "revoked"} /\ token[t].next \in TokenIds \cup {0}
  /\ \A d \in Desks : call[d].at \in {"quiet", "verified", "opened", "found", "rotating", "revoking",
                                     "sweeping", "changing", "changed"}
  /\ fresh \subseteq TokenIds /\ slipped \subseteq SessionIds

SessionsInit ==
  /\ password = [a \in Owners |-> 0] /\ active = [a \in Owners |-> TRUE]
  /\ session = [s \in SessionIds |-> [state |-> "none", owner |-> 0, since |-> 0]]
  /\ token = [t \in TokenIds |-> [state |-> "none", sid |-> 0, next |-> 0]]
  /\ call = [d \in Desks |-> Quiet]
  /\ fresh = {} /\ slipped = {} /\ floor = [a \in Owners |-> [version |-> 0, spared |-> 0]]

-----------------------------------------------------------------------------
NewToken(t) == token[t].state = "none" /\ \A u \in TokenIds : token[u].state = "none" => t <= u
NewSession(s) == session[s].state = "none" /\ \A u \in SessionIds : session[u].state = "none" => s <= u
TokensOf(ss) == {t \in TokenIds : token[t].state = "live" /\ token[t].sid \in ss}
SessionsOf(a) == {s \in SessionIds : session[s].state # "none" /\ session[s].owner = a}
Hangs(d) == call' = [call EXCEPT ![d] = Quiet]
\* What JwtStrategy lets through: a session neither ended nor past its time, of an active admin.
Authenticated(s) == session[s].state = "live" /\ active[session[s].owner]

(* Signing in. *)
Verify(d) == \E a \in Owners :
  /\ call[d].at = "quiet" /\ active[a]
  /\ call' = [call EXCEPT ![d] = [Quiet EXCEPT !.at = "verified", !.who = a, !.version = password[a]]]
  /\ UNCHANGED <<password, active, session, token, fresh, floor, slipped>>

OpenSession(d) == LET q == call[d] IN \E s \in SessionIds :
  /\ q.at = "verified" /\ NewSession(s)
  /\ session' = [session EXCEPT ![s] = [state |-> "live", owner |-> q.who, since |-> q.version]]
  /\ slipped' = IF q.version < password[q.who] THEN slipped \cup {s} ELSE slipped
  /\ call' = [call EXCEPT ![d].at = "opened", ![d].sid = s]
  /\ UNCHANGED <<password, active, token, fresh, floor>>

IssueTokens(d) == \E t \in TokenIds :
  /\ call[d].at = "opened" /\ NewToken(t)
  /\ token' = [token EXCEPT ![t] = [state |-> "live", sid |-> call[d].sid, next |-> 0]]
  /\ Hangs(d) /\ UNCHANGED <<password, active, session, fresh, floor, slipped>>

-----------------------------------------------------------------------------
(* Refreshing. *)
Present(d) == \E t \in TokenIds :
  /\ call[d].at = "quiet"
  /\ LET revoked == token[t].state = "revoked"
         usable  == token[t].state = "live" /\ session[token[t].sid].state \in {"live", "lapsed"}
         replay  == revoked /\ ~(token[t].next # 0 /\ t \in fresh)
     IN /\ usable \/ replay
        /\ call' = [call EXCEPT ![d] =
             IF replay THEN [Quiet EXCEPT !.at = "revoking", !.sid = token[t].sid, !.seen = TokensOf({token[t].sid})]
             ELSE [Quiet EXCEPT !.at = "found", !.tok = t, !.sid = token[t].sid]]
  /\ UNCHANGED <<password, active, session, token, fresh, floor, slipped>>

ReadOwner(d) == LET s == call[d].sid IN
  /\ call[d].at = "found"
  /\ call' = [call EXCEPT ![d] = IF active[session[s].owner] THEN [call[d] EXCEPT !.at = "rotating"]
                                 ELSE [Quiet EXCEPT !.at = "revoking", !.sid = s, !.seen = TokensOf({s})]]
  /\ UNCHANGED <<password, active, session, token, fresh, floor, slipped>>

ClaimsSeen(t) == token[t].state # "none"
Claims(t) == token[t].state = "live"
Rotate(d) == LET q == call[d] IN \E t \in TokenIds :
  /\ q.at = "rotating" /\ Claims(q.tok) /\ NewToken(t)
  /\ token' = [token EXCEPT ![q.tok] = [@ EXCEPT !.state = "revoked", !.next = t],
                            ![t] = [state |-> "live", sid |-> q.sid, next |-> 0]]
  /\ fresh' = fresh \cup {q.tok}
  /\ Hangs(d) /\ UNCHANGED <<password, active, session, floor, slipped>>

LosesRotation(d) ==
  /\ call[d].at = "rotating" /\ ~Claims(call[d].tok)
  /\ Hangs(d) /\ UNCHANGED <<password, active, session, token, fresh, floor, slipped>>

GraceOver(t) ==
  /\ t \in fresh /\ fresh' = fresh \ {t}
  /\ UNCHANGED <<password, active, session, token, call, floor, slipped>>

-----------------------------------------------------------------------------
(* Ending sessions: one (sid), or every one of an owner (who), or all, but the spared. *)
Logout(d) == \E s \in SessionIds :
  /\ call[d].at = "quiet" /\ Authenticated(s)
  /\ call' = [call EXCEPT ![d] = [Quiet EXCEPT !.at = "revoking", !.sid = s, !.seen = TokensOf({s})]]
  /\ UNCHANGED <<password, active, session, token, fresh, floor, slipped>>

RevokeOther(d) == \E by, s \in SessionIds :
  /\ call[d].at = "quiet" /\ Authenticated(by) /\ s # by
  /\ session[s].state \in {"live", "lapsed"}
  /\ call' = [call EXCEPT ![d] = [Quiet EXCEPT !.at = "revoking", !.sid = s, !.seen = TokensOf({s})]]
  /\ UNCHANGED <<password, active, session, token, fresh, floor, slipped>>

RevokeSession(d) == LET q == call[d] IN
  /\ q.at = "revoking"
  /\ token' = [t \in TokenIds |-> IF t \in q.seen THEN [token[t] EXCEPT !.state = "revoked"] ELSE token[t]]
  /\ session' = [session EXCEPT ![q.sid].state = "revoked"]
  /\ Hangs(d) /\ UNCHANGED <<password, active, fresh, floor, slipped>>

SignOutOthers(d) == \E by \in SessionIds, who \in Owners \cup {0} :   \* 0: everybody on the platform
  /\ call[d].at = "quiet" /\ Authenticated(by) /\ who \in {0, session[by].owner}
  /\ LET swept == (IF who = 0 THEN SessionIds ELSE SessionsOf(who)) \ {by} IN
     call' = [call EXCEPT ![d] = [Quiet EXCEPT !.at = "sweeping", !.sid = by, !.who = who, !.seen = TokensOf(swept)]]
  /\ UNCHANGED <<password, active, session, token, fresh, floor, slipped>>

SweepByToken(d) == LET q == call[d]
                       swept == {token[t].sid : t \in q.seen} IN
  /\ q.at = "sweeping"
  /\ token' = [t \in TokenIds |-> IF t \in q.seen THEN [token[t] EXCEPT !.state = "revoked"] ELSE token[t]]
  /\ session' = [s \in SessionIds |-> IF s \in swept THEN [session[s] EXCEPT !.state = "revoked"] ELSE session[s]]
  /\ floor' = IF q.version = 0 THEN floor ELSE [floor EXCEPT ![q.who] = [version |-> q.version, spared |-> q.sid]]
  /\ Hangs(d) /\ UNCHANGED <<password, active, fresh, slipped>>
Sweep(d) == LET q == call[d]
                swept == (IF q.who = 0 THEN SessionIds ELSE SessionsOf(q.who)) \ {q.sid} IN
  /\ q.at = "sweeping"
  /\ token' = [t \in TokenIds |-> IF t \in q.seen THEN [token[t] EXCEPT !.state = "revoked"] ELSE token[t]]
  /\ session' = [s \in SessionIds |-> IF s \in swept /\ session[s].state \in {"live", "lapsed"}
                                      THEN [session[s] EXCEPT !.state = "revoked"] ELSE session[s]]
  /\ floor' = IF q.version = 0 THEN floor ELSE [floor EXCEPT ![q.who] = [version |-> q.version, spared |-> q.sid]]
  /\ Hangs(d) /\ UNCHANGED <<password, active, fresh, slipped>>

Lapse(s) ==
  /\ session[s].state = "live" /\ session' = [session EXCEPT ![s].state = "lapsed"]
  /\ UNCHANGED <<password, active, token, call, fresh, floor, slipped>>

-----------------------------------------------------------------------------
(* The password and the account. *)
CheckPassword(d) == \E s \in SessionIds :
  /\ call[d].at = "quiet" /\ Authenticated(s)
  /\ call' = [call EXCEPT ![d] = [Quiet EXCEPT !.at = "changing", !.sid = s, !.who = session[s].owner]]
  /\ UNCHANGED <<password, active, session, token, fresh, floor, slipped>>

UpdatePassword(d) == LET q == call[d] IN
  /\ q.at = "changing" /\ password[q.who] < MaxPassword
  /\ password' = [password EXCEPT ![q.who] = @ + 1]
  /\ call' = [call EXCEPT ![d].at = "changed", ![d].version = password[q.who] + 1]
  /\ UNCHANGED <<active, session, token, fresh, floor, slipped>>

EndOthers(d) == LET q == call[d] IN
  /\ q.at = "changed"
  /\ call' = [call EXCEPT ![d].at = "sweeping", ![d].seen = TokensOf(SessionsOf(q.who) \ {q.sid})]
  /\ UNCHANGED <<password, active, session, token, fresh, floor, slipped>>

\* Another administrator sets it, and no session ends.
SetPassword(a) ==
  /\ password[a] < MaxPassword /\ password' = [password EXCEPT ![a] = @ + 1]
  /\ UNCHANGED <<active, session, token, call, fresh, floor, slipped>>

SwitchAccount(a) ==
  /\ active' = [active EXCEPT ![a] = ~@]
  /\ UNCHANGED <<password, session, token, call, fresh, floor, slipped>>

SessionsStep(d) ==
  \/ Verify(d) \/ OpenSession(d) \/ IssueTokens(d) \/ Present(d) \/ ReadOwner(d) \/ Rotate(d) \/ LosesRotation(d)
  \/ Logout(d) \/ RevokeOther(d) \/ RevokeSession(d) \/ SignOutOthers(d) \/ Sweep(d)
  \/ CheckPassword(d) \/ UpdatePassword(d) \/ EndOthers(d)
SessionsNext ==
  \/ \E d \in Desks : SessionsStep(d)
  \/ \E t \in TokenIds : GraceOver(t)
  \/ \E s \in SessionIds : Lapse(s)
  \/ \E a \in Owners : SetPassword(a) \/ SwitchAccount(a)

SessionsSpec == SessionsInit /\ [][SessionsNext]_sessionVars

-----------------------------------------------------------------------------
(* Properties. *)

\* Of the tokens of one session at most one still mints a successor, whatever requests
\* present the same one at once.
OneLiveToken == SessionsTypeOK /\ \A t, u \in TokenIds :
  token[t].state = "live" /\ token[u].state = "live" /\ token[t].sid = token[u].sid => t = u

\* Once an administrator has changed their own password, no other session of theirs
\* that was opened on an older one is still live, but for a sign-in that had verified
\* the old password before the change and opened its session after it.
PasswordEndsOthers == \A a \in Owners : \A s \in SessionsOf(a) :
  session[s].state = "live" /\ session[s].since < floor[a].version => s = floor[a].spared \/ s \in slipped
=============================================================================
