------------------------------ MODULE Accounts ------------------------------
(***************************************************************************)
(* The users table and everything that makes a row of it or moves its      *)
(* status: registration webhooks (signed, or from GoHighLevel) with their  *)
(* stored events and retries, the panel's create, edit, suspend, activate  *)
(* and remove, the players' own sign-up and sign-in through a provider.    *)
(* The services read, await, and write by id; what the database refuses    *)
(* (a unique e-mail, credential, event) is refused in the write.  A phone  *)
(* is checked and unique just as an e-mail is, and is left out.            *)
(***************************************************************************)
EXTENDS Naturals, FiniteSets
CONSTANTS Users, Emails, Events, Workers, Nobody, NoEvent,
          AddressIn,     \* event |-> the e-mail its payload registers (an event whose payload is
                         \* malformed is stored, fails and fails again: it is left out)
          FirstStatus    \* the users there are at the start: id |-> status
UserStatus == {"PENDING", "ACTIVE", "INACTIVE", "SUSPENDED", "DELETED"}
Addressed(f) == f \in [DOMAIN FirstStatus -> Emails] /\ \A u, v \in DOMAIN FirstStatus : f[u] = f[v] => u = v
ASSUME AccountsAssumption == Nobody \notin Users \cup Emails /\ NoEvent \notin Events
  /\ DOMAIN FirstStatus \subseteq Users /\ FirstStatus \in [DOMAIN FirstStatus -> UserStatus \ {"DELETED"}]
  /\ \E f \in [DOMAIN FirstStatus -> Emails] : Addressed(f)
  /\ \A e \in Events : AddressIn[e] \in Emails
VARIABLES user, linked, event, job,
          decided,     \* history: the status the last decision on a user gave them
          overtaken,   \* history: users whose status a call wrote that had read it before that decision
          contested    \* history: events two calls worked on at once
accountVars == <<user, linked, event, job, decided, overtaken, contested>>

Absent == [here |-> FALSE, email |-> Nobody, status |-> "PENDING", deleted |-> FALSE,
           verified |-> FALSE, cred |-> "none", from |-> NoEvent]
Rest == [at |-> "rest", on |-> NoEvent, email |-> Nobody, who |-> Nobody, to |-> "PENDING", stale |-> FALSE]

AccountsTypeOK ==
  /\ \A u \in Users : user[u].status \in UserStatus /\ user[u].cred \in {"none", "password", "provider"}
                      /\ user[u].from \in Events \cup {NoEvent} /\ user[u].email \in Emails \cup {Nobody}
  /\ linked \in [Emails -> Users \cup {Nobody}]
  /\ event \in [Events -> {"none", "RECEIVED", "PROCESSED", "FAILED"}]
  /\ \A w \in Workers : job[w].at \in {"rest", "storing", "contact", "checking", "creating", "failing", "setting", "attaching", "linking"}
  /\ decided \in [Users -> UserStatus] /\ overtaken \subseteq Users /\ contested \subseteq Events

\* The seeded users have an address each and no sign-in; the e-mail of an active one is verified.
AddressOf == CHOOSE f \in [DOMAIN FirstStatus -> Emails] : Addressed(f)
AccountsInit ==
  /\ user = [u \in Users |-> IF u \in DOMAIN FirstStatus
               THEN [Absent EXCEPT !.here = TRUE, !.email = AddressOf[u], !.status = FirstStatus[u],
                                   !.verified = FirstStatus[u] = "ACTIVE"] ELSE Absent]
  /\ linked = [m \in Emails |-> Nobody]
  /\ event = [e \in Events |-> "none"]
  /\ job = [w \in Workers |-> Rest]
  /\ decided = [u \in Users |-> user[u].status]
  /\ overtaken = {} /\ contested = {}

-----------------------------------------------------------------------------
Here(u) == user[u].here
HasEmail(m) == {u \in Users : Here(u) /\ user[u].email = m}
FromEvent(e) == {u \in Users : Here(u) /\ user[u].from = e}
Done(w) == job' = [job EXCEPT ![w] = Rest]
\* A decision on u, or a new address for u: whoever had read the row, or looked the address up,
\* now holds an old copy.
Aged(u, m) == [x \in Workers |->
  IF (job[x].who = u /\ u # Nobody) \/ job[x].email = m THEN [job[x] EXCEPT !.stale = TRUE] ELSE job[x]]
Decide(u, w, status) ==
  /\ decided' = IF job[w].stale THEN decided ELSE [decided EXCEPT ![u] = status]
  /\ overtaken' = IF job[w].stale THEN overtaken \cup {u} ELSE IF status = "DELETED" THEN overtaken \ {u} ELSE overtaken
  /\ job' = [Aged(u, user[u].email) EXCEPT ![w] = Rest]

-----------------------------------------------------------------------------
(* Registration webhooks. *)
Arrives(w, at) == \E e \in Events :
  /\ job[w].at = "rest" /\ event[e] = "none"          \* otherwise DUPLICATE: answered, nothing written
  /\ job' = [job EXCEPT ![w] = [Rest EXCEPT !.at = at, !.on = e]]
  /\ UNCHANGED <<user, linked, event, decided, overtaken, contested>>
Deliver(w) == Arrives(w, "storing")               \* the signed path
DeliverContact(w) == Arrives(w, "contact")        \* GoHighLevel: the contact's id is the key

Works(e) == {w \in Workers : job[w].on = e /\ job[w].at \in {"checking", "creating", "failing"}}
Begin(w, e, at) == /\ job' = [job EXCEPT ![w] = [Rest EXCEPT !.at = at, !.on = e]]
                   /\ contested' = IF Works(e) \ {w} = {} THEN contested ELSE contested \cup {e}

Stores(w) ==
  /\ event[job[w].on] = "none"
  /\ event' = [event EXCEPT ![job[w].on] = "RECEIVED"]
  /\ \E keyed \in BOOLEAN : Begin(w, job[w].on, IF keyed THEN "checking" ELSE "failing")  \* did the sender give a key?
  /\ UNCHANGED <<user, linked, decided, overtaken>>
StoreEvent(w) == job[w].at = "storing" /\ Stores(w)
StoreContact(w) == job[w].at = "contact" /\ Stores(w)

LosesStore(w) ==     \* the unique eventId: DUPLICATE on the signed path, an error on the other
  /\ job[w].at \in {"storing", "contact"} /\ event[job[w].on] # "none"
  /\ Done(w) /\ UNCHANGED <<user, linked, event, decided, overtaken, contested>>

Retriable(e) == event[e] \notin {"none", "PROCESSED"}
Retry(w) == \E e \in Events :
  /\ job[w].at = "rest" /\ Retriable(e)
  /\ Begin(w, e, "checking") /\ UNCHANGED <<user, linked, event, decided, overtaken>>

CheckFree(w) ==
  /\ job[w].at = "checking"
  /\ job' = [job EXCEPT ![w].at = IF HasEmail(AddressIn[job[w].on]) = {} THEN "creating" ELSE "failing"]
  /\ UNCHANGED <<user, linked, event, decided, overtaken, contested>>

Insertable(e) == HasEmail(AddressIn[e]) = {} /\ FromEvent(e) = {}
CreateUserFromEvent(w) == LET e == job[w].on IN \E u \in Users :
  /\ job[w].at = "creating" /\ Insertable(e) /\ ~Here(u)
  /\ user' = [user EXCEPT ![u] = [Absent EXCEPT !.here = TRUE, !.email = AddressIn[e],
                                    !.status = "ACTIVE", !.from = e]]
  /\ event' = [event EXCEPT ![e] = "PROCESSED"]
  /\ decided' = [decided EXCEPT ![u] = "ACTIVE"]
  /\ Done(w) /\ UNCHANGED <<linked, overtaken, contested>>

CannotCreate(w) ==     \* a unique index, or any other fault of the database
  /\ job[w].at = "creating"
  /\ job' = [job EXCEPT ![w].at = "failing"]
  /\ UNCHANGED <<user, linked, event, decided, overtaken, contested>>

MarkEventFailed(w) ==
  /\ job[w].at = "failing"
  /\ event' = [event EXCEPT ![job[w].on] = "FAILED"]
  /\ Done(w) /\ UNCHANGED <<user, linked, decided, overtaken, contested>>

Dies(w) ==             \* the process, between two statements
  /\ job[w].at # "rest" /\ Done(w)
  /\ UNCHANGED <<user, linked, event, decided, overtaken, contested>>

-----------------------------------------------------------------------------
(* The panel. *)
CreateUser(w) == \E u \in Users, m \in Emails :
  /\ job[w].at = "rest" /\ ~Here(u) /\ HasEmail(m) = {}
  /\ user' = [user EXCEPT ![u] = [Absent EXCEPT !.here = TRUE, !.email = m, !.status = "ACTIVE"]]
  /\ decided' = [decided EXCEPT ![u] = "ACTIVE"]
  /\ UNCHANGED <<linked, event, job, overtaken, contested>>

EditUser(w) == \E u \in Users, m \in Emails :
  /\ job[w].at = "rest" /\ Here(u) /\ HasEmail(m) \subseteq {u}
  /\ user' = [user EXCEPT ![u].email = m]
  /\ job' = (IF m = user[u].email THEN job ELSE Aged(Nobody, m))
  /\ UNCHANGED <<linked, event, decided, overtaken, contested>>

NotDeletedUnchecked(u) == TRUE
NotDeleted(u) == ~user[u].deleted
ReadToSet(w) == \E u \in Users, status \in {"SUSPENDED", "ACTIVE"} :     \* suspend, activate
  /\ job[w].at = "rest" /\ Here(u) /\ NotDeleted(u)
  /\ job' = [job EXCEPT ![w] = [Rest EXCEPT !.at = "setting", !.who = u, !.to = status]]
  /\ UNCHANGED <<user, linked, event, decided, overtaken, contested>>

SetStatus(w) == LET u == job[w].who IN
  /\ job[w].at = "setting"
  /\ user' = [user EXCEPT ![u].status = job[w].to]
  /\ Decide(u, w, job[w].to)
  /\ UNCHANGED <<linked, event, contested>>

RemoveUser(w) == \E u \in Users :
  /\ job[w].at = "rest" /\ Here(u)
  /\ user' = [user EXCEPT ![u].status = "DELETED", ![u].deleted = TRUE]
  /\ Decide(u, w, "DELETED")
  /\ UNCHANGED <<linked, event, contested>>

-----------------------------------------------------------------------------
(* The players' own way in. *)
Activates(u) == user[u].status = "PENDING" \/ ~user[u].verified
Register(w) == \E m \in Emails :
  /\ job[w].at = "rest"
  /\ \A u \in HasEmail(m) : user[u].cred = "none" /\ user[u].status \notin {"DELETED", "SUSPENDED"}
  /\ job' = [job EXCEPT ![w] = [Rest EXCEPT !.at = "attaching", !.email = m]]
  /\ UNCHANGED <<user, linked, event, decided, overtaken, contested>>

NewPlayer(w, m, cred) == \E u \in Users :
  /\ ~Here(u) /\ HasEmail(m) = {}
  /\ user' = [user EXCEPT ![u] = [Absent EXCEPT !.here = TRUE, !.email = m, !.status = "ACTIVE",
                                                !.verified = TRUE, !.cred = cred]]
  /\ decided' = [decided EXCEPT ![u] = "ACTIVE"] /\ overtaken' = overtaken /\ Done(w)

AttachCredential(w) == LET m == job[w].email IN
  /\ job[w].at = "attaching"
  /\ \/ NewPlayer(w, m, "password")
     \/ \E u \in HasEmail(m) :
          LET signable == IF user[u].cred = "none" THEN "password" ELSE user[u].cred IN
          IF Activates(u)
          THEN /\ user' = [user EXCEPT ![u].status = "ACTIVE", ![u].verified = TRUE, ![u].cred = signable]
               /\ Decide(u, w, "ACTIVE")
          ELSE /\ user' = [user EXCEPT ![u].cred = signable]
               /\ Done(w) /\ UNCHANGED <<decided, overtaken>>
  /\ UNCHANGED <<linked, event, contested>>

\* A provider vouches for an address; linked[m] is the user its account there belongs to.
CompleteOAuth(w) == \E m \in Emails :
  /\ job[w].at = "rest"
  /\ \A u \in HasEmail(m) : user[u].status \notin {"DELETED", "SUSPENDED"} /\ NotDeleted(u)
  /\ job' = [job EXCEPT ![w] = [Rest EXCEPT !.at = "linking", !.email = m]]
  /\ UNCHANGED <<user, linked, event, decided, overtaken, contested>>

LinkOAuthProfile(w) == LET m == job[w].email IN
  /\ job[w].at = "linking" /\ linked[m] = Nobody
  /\ \/ /\ NewPlayer(w, m, "provider")
        /\ \E u \in Users : user'[u].here /\ user'[u].email = m /\ linked' = [linked EXCEPT ![m] = u]
     \/ \E u \in HasEmail(m) :
          LET signable == IF user[u].cred = "none" THEN "provider" ELSE user[u].cred IN
          /\ linked' = [linked EXCEPT ![m] = u]
          /\ IF user[u].status = "PENDING" /\ NotDeleted(u)
             THEN /\ user' = [user EXCEPT ![u].status = "ACTIVE", ![u].verified = TRUE, ![u].cred = signable]
                  /\ Decide(u, w, "ACTIVE")
             ELSE /\ user' = [user EXCEPT ![u].cred = signable]
                  /\ Done(w) /\ UNCHANGED <<decided, overtaken>>
  /\ UNCHANGED <<event, contested>>

AlreadyLinked(w) ==
  /\ job[w].at = "linking" /\ linked[job[w].email] # Nobody
  /\ Done(w) /\ UNCHANGED <<user, linked, event, decided, overtaken, contested>>

AccountStep(w) ==
  \/ Deliver(w) \/ DeliverContact(w) \/ StoreEvent(w) \/ StoreContact(w) \/ LosesStore(w) \/ Retry(w) \/ CheckFree(w) \/ CreateUserFromEvent(w)
  \/ CannotCreate(w) \/ MarkEventFailed(w) \/ Dies(w) \/ CreateUser(w) \/ EditUser(w) \/ ReadToSet(w)
  \/ SetStatus(w) \/ RemoveUser(w) \/ Register(w) \/ AttachCredential(w) \/ CompleteOAuth(w)
  \/ LinkOAuthProfile(w) \/ AlreadyLinked(w)
AccountsNext == \E w \in Workers : AccountStep(w)

AccountsSpec == AccountsInit /\ [][AccountsNext]_accountVars

-----------------------------------------------------------------------------
(* Properties. *)

\* A stored registration says PROCESSED exactly when it has made its user, whatever was
\* delivered twice, died half way or was retried, but for events two calls worked on at once.
EventTellsTheUser == \A e \in Events :
  /\ Cardinality(FromEvent(e)) <= 1
  /\ event[e] = "PROCESSED" => FromEvent(e) # {}
  /\ FromEvent(e) # {} => event[e] = "PROCESSED" \/ e \in contested

\* A user's status is what the last decision on them made it, a removed user stays removed,
\* unless a call that had read the row before that decision wrote after it.
StatusIsLastDecision == \A u \in Users :
  Here(u) => \/ u \in overtaken
             \/ user[u].status = decided[u] /\ (user[u].deleted <=> decided[u] = "DELETED")

\* What is recorded of a user, through every way into the table, agrees with what was decided and
\* what was delivered.
AccountsAgree == AccountsTypeOK /\ EventTellsTheUser /\ StatusIsLastDecision
=============================================================================
