-------------------------------- MODULE Staff --------------------------------
(***************************************************************************)
(* The panel's administrators, their roles and the cache of permissions    *)
(* the guard answers from.  A request passes the guard (a cached grant, or *)
(* a read and a store with an await between them) and then runs a handler  *)
(* whose check and write are separate statements, so that other requests   *)
(* come in between.  What is evicted from the cache is evicted after the   *)
(* commit it follows.                                                      *)
(***************************************************************************)
EXTENDS Routes, Naturals, FiniteSets
CONSTANTS Admins, Roles, Clerks, SuperRole, FirstAdmins,   \* FirstAdmins: id |-> the role it is seeded with
          FirstRoles,                                      \* system roles seeded, id |-> codes
          Grants,                                          \* the sets of codes an operator gives a role
          NoGrant, MaxChanges                              \* how many commits a behaviour makes
ASSUME StaffAssumption == SuperRole \in DOMAIN FirstRoles /\ DOMAIN FirstRoles \subseteq Roles
                          /\ FirstAdmins \in [DOMAIN FirstAdmins -> DOMAIN FirstRoles]
                          /\ DOMAIN FirstAdmins \subseteq Admins /\ IsFiniteSet(Admins)
                          /\ \E a \in DOMAIN FirstAdmins : FirstAdmins[a] = SuperRole
                          /\ FirstRoles \in [DOMAIN FirstRoles -> SUBSET PERMISSION_CODES]
                          /\ {"admins.manage", "roles.manage"} \subseteq FirstRoles[SuperRole]
                          /\ Grants \subseteq SUBSET PERMISSION_CODES /\ MaxChanges \in Nat
VARIABLES admin, role, cache, asks, changes,
          late,       \* whose cached grant was read before, and stored after, a change of it
          practice    \* "careful": one decision at a time, and nobody edits the SUPER_ADMIN role
staffVars == <<admin, role, cache, asks, changes, late, practice>>

Codes == PERMISSION_CODES
AtRest == [at |-> "free", by |-> SuperRole, op |-> "none", who |-> SuperRole, to |-> SuperRole, codes |-> {}, ids |-> {}]
Unborn == [life |-> "unborn", role |-> SuperRole, active |-> FALSE]

StaffTypeOK ==
  /\ admin \in [Admins -> [life : {"unborn", "here", "gone"}, role : Roles, active : BOOLEAN]]
  /\ role \in [Roles -> [there : BOOLEAN, super : BOOLEAN, system : BOOLEAN, codes : SUBSET Codes]]
  /\ cache \in [Admins -> {NoGrant} \cup SUBSET Codes]
  /\ \A c \in Clerks : asks[c].at \in {"free", "reading", "storing", "granted", "checked", "changed", "evicting", "holding"}
  /\ changes \in 0..MaxChanges /\ late \subseteq Admins /\ practice \in {"careful", "overlapping"}

StaffInit ==
  /\ admin = [a \in Admins |-> IF a \in DOMAIN FirstAdmins
                               THEN [life |-> "here", role |-> FirstAdmins[a], active |-> TRUE] ELSE Unborn]
  /\ role = [r \in Roles |-> [there |-> r \in DOMAIN FirstRoles, super |-> r = SuperRole,
                              system |-> r \in DOMAIN FirstRoles,
                              codes |-> IF r \in DOMAIN FirstRoles THEN FirstRoles[r] ELSE {}]]
  /\ cache = [a \in Admins |-> NoGrant]
  /\ asks = [c \in Clerks |-> AtRest]
  /\ changes = 0 /\ late = {}
  /\ practice \in {"careful", "overlapping"}

-----------------------------------------------------------------------------
Here(a) == admin[a].life = "here"
SignedIn(a) == Here(a) /\ admin[a].active                           \* what JwtStrategy lets through
GrantOf(a) == IF Here(a) THEN role[admin[a].role].codes ELSE {}     \* findPermissionCodesForAdmin
ActiveSupersAnyone == {a \in Admins : Here(a) /\ role[admin[a].role].super}
ActiveSupers == {a \in Admins : SignedIn(a) /\ role[admin[a].role].super}
Holders(r) == {a \in Admins : Here(a) /\ admin[a].role = r}
Asked == [remove |-> Needs("admins", "remove"), activate |-> Needs("admins", "activate"),
          deactivate |-> Needs("admins", "deactivate"), create |-> Needs("admins", "create"),
          changeRole |-> Needs("admins", "changeRole"), createRole |-> Needs("roles", "create"),
          update |-> Needs("roles", "update"), removeRole |-> Needs("roles", "remove"),
          replacePermissions |-> Needs("roles", "replacePermissions")]
Admitted(c, op) == asks[c].at = "granted" /\ Asked[op] \subseteq asks[c].codes
Careful(c) == practice = "careful" => \A d \in Clerks \ {c} : asks[d].at # "checked"
Commit == changes < MaxChanges /\ changes' = changes + 1
MayEditRole(r) == practice = "careful" => r # SuperRole

-----------------------------------------------------------------------------
(* The guard. *)

\* Which route it is, is chosen with the handler; the guard settles what it may be.
Arrive(c) == \E a \in Admins :
  /\ asks[c].at = "free" /\ SignedIn(a)
  /\ asks' = [asks EXCEPT ![c] = IF cache[a] # NoGrant
                                 THEN [AtRest EXCEPT !.at = "granted", !.by = a, !.codes = cache[a]]
                                 ELSE [AtRest EXCEPT !.at = "reading", !.by = a]]
  /\ UNCHANGED <<admin, role, cache, changes, late, practice>>

ReadGrant(c) ==
  /\ asks[c].at = "reading"
  /\ asks' = [asks EXCEPT ![c].at = "storing", ![c].codes = GrantOf(asks[c].by)]
  /\ UNCHANGED <<admin, role, cache, changes, late, practice>>

StoreGrant(c) == LET q == asks[c] IN
  /\ q.at = "storing"
  /\ cache' = [cache EXCEPT ![q.by] = q.codes]
  /\ late' = IF q.codes = GrantOf(q.by) THEN late \ {q.by} ELSE late \cup {q.by}
  /\ asks' = [asks EXCEPT ![c].at = "granted"]
  /\ UNCHANGED <<admin, role, changes, practice>>

Expire(a) ==
  /\ cache[a] # NoGrant
  /\ cache' = [cache EXCEPT ![a] = NoGrant] /\ late' = late \ {a}
  /\ UNCHANGED <<admin, role, asks, changes, practice>>

-----------------------------------------------------------------------------
(* Handlers: the checks, on the rows as they are read. *)

NotLastActiveSuper(t) == role[admin[t].role].super /\ admin[t].active => Cardinality(ActiveSupers) > 1

CheckTarget(c) == \E t \in Admins, op \in {"remove", "deactivate"} :
  /\ Admitted(c, op) /\ Careful(c)
  /\ Here(t) /\ t # asks[c].by /\ NotLastActiveSuper(t)
  /\ asks' = [asks EXCEPT ![c] = [AtRest EXCEPT !.at = "checked", !.op = op, !.who = t]]
  /\ UNCHANGED <<admin, role, cache, changes, late, practice>>

CheckMove(c) == \E t \in Admins, r \in Roles :
  /\ Admitted(c, "changeRole") /\ Careful(c)
  /\ Here(t) /\ role[r].there
  /\ ~role[r].super => NotLastActiveSuper(t)
  /\ asks' = [asks EXCEPT ![c] = [AtRest EXCEPT !.at = "checked", !.op = "changeRole", !.who = t, !.to = r]]
  /\ UNCHANGED <<admin, role, cache, changes, late, practice>>

CheckRole(c) == \E r \in Roles :
  /\ Admitted(c, "removeRole") /\ Careful(c)
  /\ role[r].there /\ ~role[r].system /\ Holders(r) = {}
  /\ asks' = [asks EXCEPT ![c] = [AtRest EXCEPT !.at = "checked", !.op = "removeRole", !.to = r]]
  /\ UNCHANGED <<admin, role, cache, changes, late, practice>>

\* A route the guard refuses, a check that fails, a route that changes nothing here.
Refuse(c) ==
  /\ asks[c].at = "granted"
  /\ asks' = [asks EXCEPT ![c] = AtRest]
  /\ UNCHANGED <<admin, role, cache, changes, late, practice>>

-----------------------------------------------------------------------------
(* Handlers: the writes, by id, on the rows as they are then. *)

Gone(c) ==     \* the row was deleted in between: the update throws
  /\ asks[c].at = "checked"
  /\ IF asks[c].op = "removeRole" THEN ~role[asks[c].to].there \/ Holders(asks[c].to) # {}
     ELSE ~Here(asks[c].who) \/ (asks[c].op = "changeRole" /\ ~role[asks[c].to].there)
  /\ asks' = [asks EXCEPT ![c] = AtRest]
  /\ UNCHANGED <<admin, role, cache, changes, late, practice>>

Deactivate(c) == LET q == asks[c] IN
  /\ q.at = "checked" /\ q.op = "deactivate" /\ Here(q.who)
  /\ admin' = [admin EXCEPT ![q.who].active = FALSE]
  /\ asks' = [asks EXCEPT ![c] = AtRest]
  /\ Commit /\ UNCHANGED <<role, cache, late, practice>>

RemoveAdmin(c) == LET q == asks[c] IN
  /\ q.at = "checked" /\ q.op = "remove" /\ Here(q.who)
  /\ admin' = [admin EXCEPT ![q.who].life = "gone"]
  /\ asks' = [asks EXCEPT ![c] = [AtRest EXCEPT !.at = "changed", !.who = q.who]]
  /\ Commit /\ UNCHANGED <<role, cache, late, practice>>

ChangeRoleKeepsCache(c) == LET q == asks[c] IN
  /\ q.at = "checked" /\ q.op = "changeRole" /\ Here(q.who) /\ role[q.to].there
  /\ admin' = [admin EXCEPT ![q.who].role = q.to]
  /\ asks' = [asks EXCEPT ![c] = AtRest]
  /\ Commit /\ UNCHANGED <<role, cache, late, practice>>
ChangeRole(c) == LET q == asks[c] IN
  /\ q.at = "checked" /\ q.op = "changeRole" /\ Here(q.who) /\ role[q.to].there
  /\ admin' = [admin EXCEPT ![q.who].role = q.to]
  /\ asks' = [asks EXCEPT ![c] = [AtRest EXCEPT !.at = "changed", !.who = q.who]]
  /\ Commit /\ UNCHANGED <<role, cache, late, practice>>

RemoveRole(c) == LET q == asks[c] IN
  /\ q.at = "checked" /\ q.op = "removeRole" /\ role[q.to].there /\ Holders(q.to) = {}
  /\ role' = [role EXCEPT ![q.to].there = FALSE, ![q.to].codes = {}]
  /\ asks' = [asks EXCEPT ![c] = AtRest]
  /\ Commit /\ UNCHANGED <<admin, cache, late, practice>>

Activate(c) == \E t \in Admins :
  /\ Admitted(c, "activate") /\ Here(t)
  /\ admin' = [admin EXCEPT ![t].active = TRUE]
  /\ asks' = [asks EXCEPT ![c] = AtRest]
  /\ Commit /\ UNCHANGED <<role, cache, late, practice>>

Create(c) == \E t \in Admins, r \in Roles :
  /\ Admitted(c, "create") /\ admin[t].life = "unborn" /\ role[r].there
  /\ admin' = [admin EXCEPT ![t] = [life |-> "here", role |-> r, active |-> TRUE]]
  /\ asks' = [asks EXCEPT ![c] = AtRest]
  /\ Commit /\ UNCHANGED <<role, cache, late, practice>>

CreateRole(c) == \E r \in Roles :
  /\ Admitted(c, "createRole") /\ ~role[r].there
  /\ role' = [role EXCEPT ![r] = [there |-> TRUE, super |-> FALSE, system |-> FALSE, codes |-> {}]]
  /\ asks' = [asks EXCEPT ![c] = AtRest]
  /\ Commit /\ UNCHANGED <<admin, cache, late, practice>>

\* The edit form takes name and isSystem like the rest, and names are unique.
UpdateRole(c) == \E r \in Roles, super, system \in BOOLEAN :
  /\ Admitted(c, "update") /\ role[r].there /\ MayEditRole(r)
  /\ super => \A o \in Roles \ {r} : ~(role[o].there /\ role[o].super)
  /\ role' = [role EXCEPT ![r].super = super, ![r].system = system]
  /\ asks' = [asks EXCEPT ![c] = AtRest]
  /\ Commit /\ UNCHANGED <<admin, cache, late, practice>>

ReplacePermissions(c) == \E r \in Roles, codes \in Grants :
  /\ Admitted(c, "replacePermissions") /\ role[r].there /\ MayEditRole(r)
  /\ role' = [role EXCEPT ![r].codes = codes]
  /\ asks' = [asks EXCEPT ![c] = [AtRest EXCEPT !.at = "evicting", !.to = r]]
  /\ Commit /\ UNCHANGED <<admin, cache, late, practice>>

-----------------------------------------------------------------------------
(* Evictions. *)

InvalidateOne(c) == LET q == asks[c] IN
  /\ q.at = "changed"
  /\ cache' = [cache EXCEPT ![q.who] = NoGrant] /\ late' = late \ {q.who}
  /\ asks' = [asks EXCEPT ![c] = AtRest]
  /\ UNCHANGED <<admin, role, changes, practice>>

ReadHolders(c) ==
  /\ asks[c].at = "evicting"
  /\ asks' = [asks EXCEPT ![c] = [AtRest EXCEPT !.at = "holding", !.ids = Holders(asks[c].to)]]
  /\ UNCHANGED <<admin, role, cache, changes, late, practice>>

InvalidateHolders(c) == LET evicted == asks[c].ids IN
  /\ asks[c].at = "holding"
  /\ cache' = [a \in Admins |-> IF a \in evicted THEN NoGrant ELSE cache[a]] /\ late' = late \ evicted
  /\ asks' = [asks EXCEPT ![c] = AtRest]
  /\ UNCHANGED <<admin, role, changes, practice>>

StaffStep(c) ==
  \/ Arrive(c) \/ ReadGrant(c) \/ StoreGrant(c) \/ CheckTarget(c) \/ CheckMove(c) \/ CheckRole(c) \/ Refuse(c)
  \/ Gone(c) \/ Deactivate(c) \/ RemoveAdmin(c) \/ ChangeRole(c) \/ RemoveRole(c) \/ Activate(c) \/ Create(c)
  \/ CreateRole(c) \/ UpdateRole(c) \/ ReplacePermissions(c) \/ InvalidateOne(c) \/ ReadHolders(c) \/ InvalidateHolders(c)
StaffNext == (\E c \in Clerks : StaffStep(c)) \/ \E a \in Admins : Expire(a)

StaffSpec == StaffInit /\ [][StaffNext]_staffVars

-----------------------------------------------------------------------------
(* Properties. *)

\* The rails of AdminsService keep one active holder of the SUPER_ADMIN role with
\* every permission, as long as decisions do not overlap and nobody edits that role (roles.ts: "The role that
\* must never be locked out of the system"; otherwise it can be).
SuperAdminRemains == practice = "careful" =>
  \E a \in Admins : SignedIn(a) /\ {"admins.manage", "roles.manage"} \subseteq GrantOf(a)

\* Whatever overlaps, what the guard answers from is what the role grants, until an
\* eviction that is already due or (late) the expiry of an entry stored across a change.
EvictionDue(a) == \E c \in Clerks :
  \/ asks[c].at = "changed" /\ asks[c].who = a
  \/ asks[c].at = "evicting" /\ a \in Holders(asks[c].to)
  \/ asks[c].at = "holding" /\ a \in asks[c].ids
GuardFollowsRole == \A a \in Admins :
  cache[a] \in {NoGrant, GrantOf(a)} \/ EvictionDue(a) \/ a \in late

\* Nobody changes what is not theirs through the panel without a manage code of the role
\* they hold (unless an eviction is due), and no player's write rests on the session alone.
Effective(a) == IF cache[a] # NoGrant THEN cache[a] ELSE GrantOf(a)
WriteNeeds == {r.needs : r \in {w \in StaffRoutes : w.does = "writes" /\ w.area # "auth"}}
NoRouteLeftOpen ==
  /\ \A a \in Admins : SignedIn(a) /\ (\E needs \in WriteNeeds : needs \subseteq Effective(a))
       => EvictionDue(a) \/ a \in late \/ GrantOf(a) \cap ManageCodes # {}
  /\ \A r \in PlayerRoutes : r.does = "writes" /\ "session" \in r.needs => "csrf" \in r.needs

\* The guard and the routes together: what a request may do follows the role its sender holds.
AccessFollowsRole == StaffTypeOK /\ GuardFollowsRole /\ NoRouteLeftOpen
=============================================================================
