--------------------------- MODULE PlayerSessions ---------------------------
(***************************************************************************)
(* Signing in to the player app, for one player: by password or through a  *)
(* provider, refresh tokens that rotate, signing out, and the reset link   *)
(* that changes the password and ends every session.  An access token dies *)
(* with its session (the strategy reads the session on every request), so  *)
(* it needs no state.  Rows with one use, reset links and the states of    *)
(* provider sign-ins, are `ticket'.                                        *)
(***************************************************************************)
EXTENDS Naturals, FiniteSets
CONSTANTS PSessions, PTokens, Tickets, Hands
ASSUME PlayerSessionsAssumption == PSessions \cup PTokens \cup Tickets \subseteq Nat \ {0} /\ IsFiniteSet(Tickets)
VARIABLES resets,     \* how often the password has been changed: the version of the hash
          usable,     \* the account is active, not deleted, verified
          psession, ptoken, ticket, hand,
          uses,       \* history: what a ticket has done: passwords set, sign-ins made
          slipped     \* history: sessions of a sign-in that read the player before a reset
playerSessionVars == <<resets, usable, psession, ptoken, ticket, hand, uses, slipped>>

Idle == [at |-> "idle", sid |-> 0, tok |-> 0, tick |-> 0, since |-> 0, seen |-> {}]
PlayerSessionsTypeOK ==
  /\ resets \in 0..Cardinality(Tickets) /\ usable \in BOOLEAN
  /\ \A s \in PSessions : psession[s].state \in {"none", "active", "ended"}
  /\ \A t \in PTokens : ptoken[t].state \in {"none", "live", "rotated"} /\ ptoken[t].sid \in PSessions \cup {0}
  /\ \A k \in Tickets : ticket[k] \in {"none", "link", "state", "consumed"}
  /\ \A h \in Hands : hand[h].at \in {"idle", "vouched", "verified", "opened", "rotating", "revoking",
                                     "mailing", "posting", "resetting", "ending", "consuming"}
  /\ slipped \subseteq PSessions

PlayerSessionsInit ==
  /\ resets = 0 /\ usable = TRUE
  /\ psession = [s \in PSessions |-> [state |-> "none", since |-> 0]]
  /\ ptoken = [t \in PTokens |-> [state |-> "none", sid |-> 0]]
  /\ ticket = [k \in Tickets |-> "none"]
  /\ hand = [h \in Hands |-> Idle]
  /\ uses = [k \in Tickets |-> 0] /\ slipped = {}

-----------------------------------------------------------------------------
NextSession(s) == psession[s].state = "none" /\ \A r \in PSessions : psession[r].state = "none" => s <= r
NextToken(t) == ptoken[t].state = "none" /\ \A r \in PTokens : ptoken[r].state = "none" => t <= r
NextTicket(k) == ticket[k] = "none" /\ \A r \in Tickets : ticket[r] = "none" => k <= r
Rests(h) == hand' = [hand EXCEPT ![h] = Idle]
Goes(h, new) == hand[h].at = "idle" /\ hand' = [hand EXCEPT ![h] = new]
Sends(h, at) == hand' = [hand EXCEPT ![h].at = at]

-----------------------------------------------------------------------------
(* Signing in. *)
Login(h) ==          \* the row read, the password compared with its hash
  /\ usable /\ Goes(h, [Idle EXCEPT !.at = "verified", !.since = resets])
  /\ UNCHANGED <<resets, usable, psession, ptoken, ticket, uses, slipped>>

BeginOAuth == \E k \in Tickets :
  /\ NextTicket(k) /\ ticket' = [ticket EXCEPT ![k] = "state"]
  /\ UNCHANGED <<resets, usable, psession, ptoken, hand, uses, slipped>>

ReadOAuthState(h) == \E k \in Tickets :
  /\ ticket[k] = "state" /\ Goes(h, [Idle EXCEPT !.at = "consuming", !.tick = k])
  /\ UNCHANGED <<resets, usable, psession, ptoken, ticket, uses, slipped>>

UnconsumedWhenRead(k) == TRUE
Unconsumed(k) == ticket[k] # "consumed"
ConsumeOAuthState(h) == LET k == hand[h].tick IN
  /\ hand[h].at = "consuming"
  /\ IF Unconsumed(k)
     THEN /\ ticket' = [ticket EXCEPT ![k] = "consumed"]
          /\ \/ Sends(h, "vouched") /\ uses' = [uses EXCEPT ![k] = @ + 1]
             \/ Rests(h) /\ uses' = uses       \* abandonOAuth, or the provider's refusal
     ELSE Rests(h) /\ UNCHANGED <<ticket, uses>>
  /\ UNCHANGED <<resets, usable, psession, ptoken, slipped>>

Vouched(h) ==        \* linkOAuthProfile answers the player's row
  /\ hand[h].at = "vouched"
  /\ IF usable THEN hand' = [hand EXCEPT ![h].at = "verified", ![h].since = resets] ELSE Rests(h)
  /\ UNCHANGED <<resets, usable, psession, ptoken, ticket, uses, slipped>>

CreateSession(h) == \E s \in PSessions :
  /\ hand[h].at = "verified" /\ NextSession(s)
  /\ psession' = [psession EXCEPT ![s] = [state |-> "active", since |-> hand[h].since]]
  /\ hand' = [hand EXCEPT ![h].at = "opened", ![h].sid = s]
  /\ slipped' = IF hand[h].since < resets THEN slipped \cup {s} ELSE slipped
  /\ UNCHANGED <<resets, usable, ptoken, ticket, uses>>

StoreRefreshToken(h) == \E t \in PTokens :
  /\ hand[h].at = "opened" /\ NextToken(t)
  /\ ptoken' = [ptoken EXCEPT ![t] = [state |-> "live", sid |-> hand[h].sid]]
  /\ Rests(h) /\ UNCHANGED <<resets, usable, psession, ticket, uses, slipped>>

-----------------------------------------------------------------------------
(* Refreshing and signing out. *)
Authenticated(s) == psession[s].state = "active" /\ usable      \* what every request of the player passes
Rejected(t) == ptoken[t].state = "rotated" \/ ~Authenticated(ptoken[t].sid)
Present(h) == \E t \in PTokens :
  /\ ptoken[t].state # "none"
  /\ \/ ~Rejected(t) /\ Goes(h, [Idle EXCEPT !.at = "rotating", !.sid = ptoken[t].sid, !.tok = t])
     \* refused; a replay within the grace does not come this far, and changes nothing
     \/ Rejected(t) /\ Goes(h, [Idle EXCEPT !.at = "revoking", !.sid = ptoken[t].sid])
  /\ UNCHANGED <<resets, usable, psession, ptoken, ticket, uses, slipped>>

Claimable(t) == ptoken[t].state = "live"
RotateRefreshToken(h) == \E n \in PTokens :
  /\ hand[h].at = "rotating" /\ NextToken(n) /\ Claimable(hand[h].tok)
  /\ ptoken' = [ptoken EXCEPT ![hand[h].tok].state = "rotated", ![n] = [state |-> "live", sid |-> hand[h].sid]]
  /\ Rests(h) /\ UNCHANGED <<resets, usable, psession, ticket, uses, slipped>>

Lost(h) ==           \* another request rotated it first
  /\ hand[h].at = "rotating" /\ ~Claimable(hand[h].tok)
  /\ Rests(h) /\ UNCHANGED <<resets, usable, psession, ptoken, ticket, uses, slipped>>

Logout(h) == \E t \in PTokens :
  /\ ptoken[t].state # "none" /\ Goes(h, [Idle EXCEPT !.at = "revoking", !.sid = ptoken[t].sid])
  /\ UNCHANGED <<resets, usable, psession, ptoken, ticket, uses, slipped>>

RevokeSession(h) ==
  /\ hand[h].at = "revoking"
  /\ psession' = [psession EXCEPT ![hand[h].sid].state = "ended"]
  /\ Rests(h) /\ UNCHANGED <<resets, usable, ptoken, ticket, uses, slipped>>

-----------------------------------------------------------------------------
(* Resetting the password. *)
RequestPasswordReset(h) ==
  /\ usable /\ Goes(h, [Idle EXCEPT !.at = "mailing"])
  /\ UNCHANGED <<resets, usable, psession, ptoken, ticket, uses, slipped>>

OpenLinks == {k \in Tickets : ticket[k] = "link"}
ConsumeOlder(h) ==   \* a transaction: the links that are committed by now are consumed ...
  /\ hand[h].at = "mailing" /\ hand' = [hand EXCEPT ![h].at = "posting", ![h].seen = OpenLinks]
  /\ UNCHANGED <<resets, usable, psession, ptoken, ticket, uses, slipped>>
CreateEmailToken(h) == \E k \in Tickets :      \* ... and a new one is made; both show when it commits
  /\ hand[h].at = "posting" /\ NextTicket(k)
  /\ ticket' = [r \in Tickets |-> IF r = k THEN "link" ELSE IF r \in hand[h].seen THEN "consumed" ELSE ticket[r]]
  /\ Rests(h) /\ UNCHANGED <<resets, usable, psession, ptoken, uses, slipped>>

ReadResetLink(h) == \E k \in Tickets :
  /\ ticket[k] = "link" /\ Goes(h, [Idle EXCEPT !.at = "resetting", !.tick = k])
  /\ UNCHANGED <<resets, usable, psession, ptoken, ticket, uses, slipped>>

Active == {s \in PSessions : psession[s].state = "active"}
ClaimReset(h) ==     \* the claim on the link, then the credential, are locked until the commit
  /\ hand[h].at = "resetting" /\ \A g \in Hands : hand[g].at # "ending"
  /\ IF Unconsumed(hand[h].tick)
     THEN hand' = [hand EXCEPT ![h].at = "ending", ![h].seen = Active]
     ELSE Rests(h)
  /\ UNCHANGED <<resets, usable, psession, ptoken, ticket, uses, slipped>>

ResetPassword(h) == LET k == hand[h].tick IN
  /\ hand[h].at = "ending"
  /\ resets' = resets + 1 /\ uses' = [uses EXCEPT ![k] = @ + 1]
  /\ ticket' = [r \in Tickets |-> IF ticket[r] = "link" THEN "consumed" ELSE ticket[r]]
  /\ psession' = [s \in PSessions |-> IF s \in hand[h].seen THEN [psession[s] EXCEPT !.state = "ended"] ELSE psession[s]]
  /\ slipped' = slipped \cup (Active \ hand[h].seen)
  /\ Rests(h) /\ UNCHANGED <<usable, ptoken>>

-----------------------------------------------------------------------------
SwitchAccount ==     \* the panel suspends, activates or removes
  /\ usable' = ~usable /\ UNCHANGED <<resets, psession, ptoken, ticket, hand, uses, slipped>>
Vanishes(h) ==       \* the process dies between two statements, or a session, token or link expires under the call
  /\ hand[h].at # "idle" /\ Rests(h)
  /\ UNCHANGED <<resets, usable, psession, ptoken, ticket, uses, slipped>>

PlayerSessionStep(h) ==
  \/ Login(h) \/ ReadOAuthState(h) \/ ConsumeOAuthState(h) \/ Vouched(h) \/ CreateSession(h) \/ StoreRefreshToken(h)
  \/ Present(h) \/ RotateRefreshToken(h) \/ Lost(h) \/ Logout(h) \/ RevokeSession(h)
  \/ RequestPasswordReset(h) \/ CreateEmailToken(h) \/ ConsumeOlder(h) \/ ReadResetLink(h) \/ ClaimReset(h) \/ ResetPassword(h) \/ Vanishes(h)
PlayerSessionsNext == BeginOAuth \/ SwitchAccount \/ \E h \in Hands : PlayerSessionStep(h)

PlayerSessionsSpec == PlayerSessionsInit /\ [][PlayerSessionsNext]_playerSessionVars

-----------------------------------------------------------------------------
(* Properties. *)

\* A reset is final: no session opened before it goes on (but for a sign-in that had read the
\* old hash), no link or provider state works twice, and an old refresh token never has two heirs.
ResetIsFinal ==
  /\ PlayerSessionsTypeOK
  /\ \A s \in PSessions : Authenticated(s) => psession[s].since = resets \/ s \in slipped
  /\ \A k \in Tickets : uses[k] <= 1
  /\ \A s \in PSessions : Cardinality({t \in PTokens : ptoken[t].state = "live" /\ ptoken[t].sid = s}) <= 1

=============================================================================
