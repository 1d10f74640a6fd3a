------------------------------ MODULE Engagement ------------------------------
(***************************************************************************)
(* What a player is told and what he belongs to (player-engagement): his    *)
(* notifications and whether he wants them, the early-access list, and his  *)
(* membership, which follows the tier an administrator gives him            *)
(* (users.update) until he cancels it.  Every handler reads, awaits and     *)
(* writes; Requests are the calls in progress.                              *)
(*                                                                          *)
(* No code writes a membership's expiresAt, so the expiry branch of         *)
(* membership() is never taken and EXPIRED is no state here.                *)
(***************************************************************************)
EXTENDS Calls, Naturals, FiniteSets
CONSTANTS Members, Addresses, LeadRows, Tiers, Requests,
          Topics       \* event keys, with "welcome" and "joined" among them
ASSUME EngagementAssumption == /\ {"PLAYER", "VIP"} \subseteq Tiers /\ {"welcome", "joined"} \subseteq Topics
                               /\ Free \notin Members /\ Free \notin Addresses /\ Free \notin LeadRows /\ Free \notin Tiers
                               /\ Free \notin {"joining", "looking", "renewing", "cancelling", "answering"}
VARIABLES tier,        \* User.tier
          inApp,       \* the in-app preference of each member
          notes,       \* the notification of each event key
          lead,        \* rows of the early-access list
          membership,
          visit,       \* calls in progress
          moved,       \* history: members whose tier an administrator changed after, or from under, the membership
          displaced    \* history: members whose row another one's call took that had found the address free
engagementVars == <<tier, inApp, notes, lead, membership, visit, moved, displaced>>

NoVisit == [at |-> Free, by |-> Free, email |-> Free, mine |-> Free, owner |-> Free, tier |-> Free, old |-> FALSE]
EngagementTypeOK ==
  /\ tier \in [Members -> Tiers] /\ inApp \in [Members -> BOOLEAN]
  /\ notes \in [Members -> [Topics -> {"none", "unread", "read"}]]
  /\ lead \in [LeadRows -> [email : Addresses \cup {Free}, who : Members \cup {Free}]]
  /\ membership \in [Members -> [status : {"none", "WAITLISTED", "ACTIVE", "CANCELLED"}, tier : Tiers]]
  /\ moved \subseteq Members /\ displaced \subseteq Members
EngagementInit ==
  /\ tier = [p \in Members |-> "PLAYER"] /\ inApp = [p \in Members |-> TRUE]
  /\ notes = [p \in Members |-> [k \in Topics |-> "none"]]
  /\ lead = [r \in LeadRows |-> [email |-> Free, who |-> Free]]
  /\ membership = [p \in Members |-> [status |-> "none", tier |-> "PLAYER"]]
  /\ visit = [t \in Requests |-> NoVisit] /\ moved = {} /\ displaced = {}

Visits(t, step) == visit[t].at = Free /\ visit' = [visit EXCEPT ![t] = step]
Leaves(t) == visit' = [visit EXCEPT ![t] = NoVisit]
Told(p, k) == [notes EXCEPT ![p][k] = IF @ = "none" THEN "unread" ELSE @]      \* upsert, update: {}
\* A call that has read p's tier and not written yet holds an old one from now on.
Outdated(p) == [t \in Requests |-> IF visit[t].by = p /\ visit[t].tier # Free THEN [visit[t] EXCEPT !.old = TRUE] ELSE visit[t]]

-----------------------------------------------------------------------------
(* Notifications. *)
UpdateNotificationPreferences == \E p \in Members, on \in BOOLEAN :
  /\ inApp' = [inApp EXCEPT ![p] = on]
  /\ UNCHANGED <<tier, notes, lead, membership, visit, moved, displaced>>
Notifications == \E p \in Members :
  /\ inApp[p] /\ notes' = Told(p, "welcome")
  /\ UNCHANGED <<tier, inApp, lead, membership, visit, moved, displaced>>
ReadNotification == \E p \in Members, k \in Topics :
  /\ notes[p][k] # "none" /\ notes' = [notes EXCEPT ![p][k] = "read"]
  /\ UNCHANGED <<tier, inApp, lead, membership, visit, moved, displaced>>
ReadAll == \E p \in Members :
  /\ notes' = [notes EXCEPT ![p] = [k \in Topics |-> IF @[k] # "none" THEN "read"
                                                    ELSE IF k = "welcome" /\ inApp[p] THEN "unread" ELSE "none"]]
  /\ UNCHANGED <<tier, inApp, lead, membership, visit, moved, displaced>>

-----------------------------------------------------------------------------
(* The early-access list. *)
RowOfEmail(e) == {r \in LeadRows : lead[r].email = e}
RowOfMember(p) == {r \in LeadRows : lead[r].who = p}
AddressIsFor(e, p) == \A r \in RowOfEmail(e) : lead[r].who \in {p, Free}
BeginJoin(t) == \E p \in Members, e \in Addresses :
  /\ AddressIsFor(e, p)
  /\ Visits(t, [NoVisit EXCEPT !.at = "joining", !.by = p, !.email = e, !.mine = One(RowOfMember(p)),
                               !.owner = IF RowOfEmail(e) = {} THEN Free ELSE lead[One(RowOfEmail(e))].who])
  /\ UNCHANGED <<tier, inApp, notes, lead, membership, moved, displaced>>
\* In one transaction: the player's own row takes the address, or the row of the address (a new one if
\* there is none) takes the player; the two unique keys refuse, and roll back, what does not fit.
JoinedRow(t) == LET v == visit[t] IN
  IF v.mine # Free THEN v.mine ELSE IF RowOfEmail(v.email) # {} THEN One(RowOfEmail(v.email))
  ELSE One({r \in LeadRows : lead[r].email = Free})
JoinFits(t) == LET v == visit[t] IN
  /\ RowOfEmail(v.email) \subseteq {JoinedRow(t)}
  /\ v.mine = Free => RowOfMember(v.by) \subseteq {JoinedRow(t)}
Join(t) == LET v == visit[t]  p == v.by  r == JoinedRow(t) IN
  /\ v.at = "joining" /\ Leaves(t)
  /\ \/ /\ JoinFits(t) /\ r # Free
        /\ lead' = IF v.mine # Free THEN [lead EXCEPT ![r].email = v.email]
                   ELSE [lead EXCEPT ![r] = [email |-> v.email, who |-> p]]
        /\ membership' = IF membership[p].status # "none" THEN membership
             ELSE [membership EXCEPT ![p] = [tier |-> tier[p], status |-> IF tier[p] = "PLAYER" THEN "WAITLISTED" ELSE "ACTIVE"]]
        /\ moved' = IF membership[p].status # "none" THEN moved ELSE moved \ {p}
        /\ notes' = Told(p, "joined")
        /\ displaced' = IF v.mine = Free /\ v.owner = Free
                        THEN (displaced \ {p}) \cup ({lead[r].who} \ {p, Free}) ELSE displaced
     \/ ~JoinFits(t) /\ UNCHANGED <<lead, membership, moved, notes, displaced>>
  /\ UNCHANGED <<tier, inApp>>

-----------------------------------------------------------------------------
(* Tier and membership. *)
\* An administrator edits the user.
SetTier == \E p \in Members, new \in Tiers :
  /\ new # tier[p] /\ tier' = [tier EXCEPT ![p] = new]
  /\ moved' = moved \cup {p} /\ visit' = Outdated(p)
  /\ UNCHANGED <<inApp, notes, lead, membership, displaced>>

Membership(t) == \E p \in Members :
  /\ Visits(t, [NoVisit EXCEPT !.at = "looking", !.by = p, !.tier = tier[p]])
  /\ UNCHANGED <<tier, inApp, notes, lead, membership, moved, displaced>>
Mismatch(p, seen) == seen # "PLAYER" /\ (membership[p].status # "ACTIVE" \/ membership[p].tier # seen)
FindMembership(t) == LET v == visit[t] IN
  /\ v.at = "looking"
  /\ visit' = [visit EXCEPT ![t] = IF Mismatch(v.by, v.tier) THEN [v EXCEPT !.at = "renewing"] ELSE NoVisit]
  /\ UNCHANGED <<tier, inApp, notes, lead, membership, moved, displaced>>
Renew(t) == LET v == visit[t] IN
  /\ v.at = "renewing" /\ Leaves(t)
  /\ membership' = [membership EXCEPT ![v.by] = [status |-> "ACTIVE", tier |-> v.tier]]
  /\ moved' = IF v.old THEN moved \cup {v.by} ELSE moved \ {v.by}
  /\ UNCHANGED <<tier, inApp, notes, lead, displaced>>

CancelMembership(t) == \E p \in Members :
  /\ membership[p].status = "ACTIVE"
  /\ Visits(t, [NoVisit EXCEPT !.at = "cancelling", !.by = p])
  /\ UNCHANGED <<tier, inApp, notes, lead, membership, moved, displaced>>
TierKeptByCancel(p) == tier[p]
TierAfterCancel(p) == "PLAYER"
\* One transaction over both rows; then the handler answers with membership().
Cancel(t) == LET p == visit[t].by IN
  /\ visit[t].at = "cancelling"
  /\ membership' = [membership EXCEPT ![p] = [status |-> "CANCELLED", tier |-> "PLAYER"]]
  /\ tier' = [tier EXCEPT ![p] = TierAfterCancel(p)] /\ moved' = moved \ {p}
  /\ visit' = [Outdated(p) EXCEPT ![t] = [NoVisit EXCEPT !.at = "answering", !.by = p]]
  /\ UNCHANGED <<inApp, notes, lead, displaced>>
AnswerMembership(t) == LET p == visit[t].by IN
  /\ visit[t].at = "answering"
  /\ visit' = [visit EXCEPT ![t] = [NoVisit EXCEPT !.at = "looking", !.by = p, !.tier = tier[p]]]
  /\ UNCHANGED <<tier, inApp, notes, lead, membership, moved, displaced>>

NoticeNext == UpdateNotificationPreferences \/ Notifications \/ ReadNotification \/ ReadAll
VisitStep(t) == BeginJoin(t) \/ Join(t) \/ Membership(t) \/ FindMembership(t) \/ Renew(t)
                \/ CancelMembership(t) \/ Cancel(t) \/ AnswerMembership(t)
EngagementNext == SetTier \/ NoticeNext \/ \E t \in Requests : VisitStep(t)
EngagementSpec == EngagementInit /\ [][EngagementNext]_engagementVars

-----------------------------------------------------------------------------
(* Properties. *)

\* A membership that is active or was cancelled names the user's tier, unless an administrator changed
\* the tier since, or a call wrote what it had read before a change: a cancelled VIP is no VIP again.
MembershipFollowsTier == \A p \in Members \ moved :
  membership[p].status \in {"ACTIVE", "CANCELLED"} => membership[p].tier = tier[p]

\* Who has been told of his place on the early-access list has one, unless a call that had found the
\* address free took it from him.
JoinedStaysListed == \A p \in Members \ displaced : notes[p]["joined"] # "none" => RowOfMember(p) # {}

\* What a member has been given, a tier paid for or a place in the queue, stays the member's.
StandingIsKept == EngagementTypeOK /\ MembershipFollowsTier /\ JoinedStaysListed
=============================================================================
