---------------------------- MODULE PayoutMethods ----------------------------
(***************************************************************************)
(* One player's payout accounts, at most one of each kind (payout-methods), *)
(* and his Stripe account (payouts): administrators connect, verify, choose *)
(* and disconnect accounts; onboarding creates the Stripe account and       *)
(* enters it among the others, and Stripe's webhooks say whether it may be  *)
(* paid.  setDefault is one transaction of two updates.  PostgreSQL locks   *)
(* each row an update reaches until the transaction ends; of transactions   *)
(* that wait for each other it aborts one.                                  *)
(***************************************************************************)
EXTENDS Calls, Naturals, FiniteSets
CONSTANTS Methods,         \* kinds of account, "STRIPE_CONNECT" among them
          StripeAccounts, Handles,        \* what an account may refer to
          Tellers, MaxVerdicts
ErrandStages == {"found", "clearing", "opening", "recording", "refreshing", "matching", "counting", "syncing"}
ASSUME MethodsAssumption == /\ "STRIPE_CONNECT" \in Methods /\ MaxVerdicts \in Nat
                            /\ Free \notin StripeAccounts \cup Handles \cup Methods \cup ErrandStages
VARIABLES account,         \* method -> its row
          user,            \* User.stripeConnectAccountId and stripeAccountStatus
          opened,          \* accounts that exist at Stripe
          mail,            \* verdicts Stripe has sent and nobody has claimed
          errand,            \* calls in progress
          preferred,          \* history: the account last made the default, while it exists
          raced,           \* history: a default was set by a call that could not see an account connected meanwhile
          vouched          \* history: accounts Stripe has said may be paid
methodVars == <<account, user, opened, mail, errand, preferred, raced, vouched>>

Stripe == "STRIPE_CONNECT"
NoAccount == [reference |-> Free, verified |-> FALSE, default |-> FALSE]
NoErrand == [at |-> Free, own |-> Free, held |-> {}, todo |-> {}, ref |-> Free, status |-> Free, first |-> FALSE, missed |-> {}, goal |-> Free]
Verdicts == {"PENDING", "RESTRICTED", "VERIFIED"}
MethodsTypeOK ==
  /\ account \in [Methods -> [reference : StripeAccounts \cup Handles \cup {Free}, verified : BOOLEAN, default : BOOLEAN]]
  /\ user.status \in Verdicts \cup {"NOT_CONNECTED"} /\ user.id \in opened \cup {Free}
MethodsInit ==
  /\ account = [m \in Methods |-> NoAccount] /\ user = [id |-> Free, status |-> "NOT_CONNECTED"]
  /\ opened = {} /\ mail = {} /\ preferred = Free /\ raced = FALSE /\ vouched = {}
  /\ errand = [c \in Tellers |-> NoErrand]

Connected == {m \in Methods : account[m].reference # Free}
Unlocked(m) == \A c \in Tellers : m \notin errand[c].held
Begins(c, step) == errand[c].at = Free /\ errand' = [errand EXCEPT ![c] = step]
Ends(c) == errand' = [errand EXCEPT ![c] = NoErrand]
RestUnchanged == UNCHANGED <<user, opened, mail, vouched>>
\* A row inserted now is none that a statement already begun will reach; a row connected anew is another row.
Inserted(m) == [c \in Tellers |-> IF errand[c].at = "clearing" /\ m \notin Connected
                                  THEN [errand[c] EXCEPT !.missed = @ \cup {m}] ELSE errand[c]]
Deleted(m) == [c \in Tellers |-> [errand[c] EXCEPT !.todo = @ \ {m}, !.missed = @ \ {m}, !.own = IF @ = m THEN Free ELSE @]]

-----------------------------------------------------------------------------
(* Administrators. *)
\* A second account of a kind replaces the first one's reference and, unless told otherwise, is unverified.
Connect == \E m \in Methods, r \in StripeAccounts \cup Handles, verified \in BOOLEAN :
  /\ Unlocked(m) /\ account' = [account EXCEPT ![m].reference = r, ![m].verified = verified]
  /\ errand' = Inserted(m) /\ UNCHANGED <<preferred, raced>> /\ RestUnchanged
SetVerified == \E m \in Connected, verified \in BOOLEAN :
  /\ Unlocked(m) /\ account' = [account EXCEPT ![m].verified = verified]
  /\ UNCHANGED <<errand, preferred, raced>> /\ RestUnchanged
Disconnect == \E m \in Connected :
  /\ Unlocked(m) /\ account' = [account EXCEPT ![m] = NoAccount]
  /\ preferred' = IF preferred = m THEN Free ELSE preferred
  /\ raced' = (raced /\ \E n \in Methods : account'[n].default)
  /\ errand' = Deleted(m) /\ RestUnchanged

SetDefault(c) == \E m \in Connected :
  /\ Begins(c, [NoErrand EXCEPT !.at = "found", !.own = m])
  /\ UNCHANGED <<account, preferred, raced>> /\ RestUnchanged
\* The other accounts are cleared, those there are when the statement begins ...
OthersShown(m) == {n \in Connected : n # m /\ account[n].default}
Others(m) == Connected \ {m}
BeginClear(c) ==
  /\ errand[c].at = "found"
  /\ errand' = [errand EXCEPT ![c].at = "clearing", ![c].todo = Others(errand[c].own)]
  /\ UNCHANGED <<account, preferred, raced>> /\ RestUnchanged
\* ... locked one after the other, in any order ...
ClearOne(c) == \E n \in errand[c].todo :
  /\ Unlocked(n)
  /\ errand' = [errand EXCEPT ![c].todo = @ \ {n}, ![c].held = @ \cup {n}]
  /\ UNCHANGED <<account, preferred, raced>> /\ RestUnchanged
\* ... then the account itself is set, and all commits; if it is gone all is rolled back.
MakeDefault(c) == LET m == errand[c].own IN
  /\ errand[c].at = "clearing" /\ errand[c].todo = {} /\ Unlocked(m) /\ Ends(c)
  /\ IF m = Free THEN UNCHANGED <<account, preferred, raced>>
     ELSE /\ account' = [n \in Methods |-> IF n = m THEN [account[n] EXCEPT !.default = TRUE]
                                           ELSE IF n \in errand[c].held THEN [account[n] EXCEPT !.default = FALSE]
                                           ELSE account[n]]
          /\ preferred' = m /\ raced' = (\E n \in errand[c].missed : account[n].default)
  /\ RestUnchanged
WaitsOn(c, d) == \/ errand[c].todo \cap errand[d].held # {}
                 \/ errand[c].at = "clearing" /\ errand[c].todo = {} /\ errand[c].own \in errand[d].held
DeadlockAborted(c) ==
  /\ \E d \in Tellers \ {c} : WaitsOn(c, d) /\ WaitsOn(d, c)
  /\ Ends(c) /\ UNCHANGED <<account, preferred, raced>> /\ RestUnchanged

-----------------------------------------------------------------------------
(* The Stripe account. *)
\* A player's or an administrator's onboarding link: the account known, or a new one.
Onboard(c) == \E goal \in {"player", "admin"} :
  /\ \/ user.id = Free /\ Begins(c, [NoErrand EXCEPT !.at = "opening", !.goal = goal])
     \/ user.id # Free /\ goal = "player" /\ Begins(c, [NoErrand EXCEPT !.at = "refreshing", !.ref = user.id, !.goal = goal])
  /\ UNCHANGED <<account, preferred, raced>> /\ RestUnchanged
CreateConnectAccount(c) == \E a \in StripeAccounts \ opened :
  /\ errand[c].at = "opening" /\ opened' = opened \cup {a}
  /\ errand' = [errand EXCEPT ![c].at = "recording", ![c].ref = a]
  /\ UNCHANGED <<account, user, mail, preferred, raced, vouched>>
\* A new account cannot be paid yet; only account.updated promotes it.
SetStripeAccount(c) ==
  /\ errand[c].at = "recording" /\ user' = [id |-> errand[c].ref, status |-> "PENDING"]
  /\ errand' = [errand EXCEPT ![c] = IF @.goal = "admin" THEN NoErrand ELSE [@ EXCEPT !.at = "refreshing"]]
  /\ UNCHANGED <<account, opened, mail, preferred, raced, vouched>>
Refresh(c) ==
  /\ errand[c].at = "refreshing"
  /\ errand' = [errand EXCEPT ![c].at = "counting", ![c].status = user.status]
  /\ UNCHANGED <<account, preferred, raced>> /\ RestUnchanged

Verdict == \E a \in opened, s \in Verdicts :
  /\ Cardinality(mail) < MaxVerdicts /\ mail' = mail \cup {[id |-> a, status |-> s]}
  /\ vouched' = IF s = "VERIFIED" THEN vouched \cup {a} ELSE vouched
  /\ UNCHANGED <<account, user, opened, errand, preferred, raced>>
\* account.updated: whatever order they come in, each is applied as it is claimed.
ForAnyAccount(e) == TRUE
ForThisAccount(e) == user.id = e.id
SetStripeStatus(c) == \E e \in mail :
  /\ mail' = mail \ {e}
  /\ user' = IF ForThisAccount(e) THEN [user EXCEPT !.status = e.status] ELSE user
  /\ Begins(c, [NoErrand EXCEPT !.at = "matching", !.ref = e.id, !.status = e.status])
  /\ UNCHANGED <<account, opened, preferred, raced, vouched>>
FindUserByAccount(c) ==
  /\ errand[c].at = "matching"
  /\ errand' = [errand EXCEPT ![c] = IF user.id = @.ref THEN [@ EXCEPT !.at = "counting"] ELSE NoErrand]
  /\ UNCHANGED <<account, preferred, raced>> /\ RestUnchanged

\* syncStripeDestination: count the player's accounts, then insert or update the one at Stripe.
CountMethods(c) ==
  /\ errand[c].at = "counting"
  /\ errand' = [errand EXCEPT ![c].at = "syncing", ![c].first = (Connected = {})]
  /\ UNCHANGED <<account, preferred, raced>> /\ RestUnchanged
SyncStripeDestination(c) == LET k == errand[c]  isNew == Stripe \notin Connected IN
  /\ k.at = "syncing" /\ Unlocked(Stripe) /\ errand' = [Inserted(Stripe) EXCEPT ![c] = NoErrand]
  /\ account' = [account EXCEPT ![Stripe] = [reference |-> k.ref, verified |-> k.status = "VERIFIED",
                                             default |-> IF isNew THEN k.first ELSE @.default]]
  /\ preferred' = IF isNew /\ k.first THEN Stripe ELSE preferred
  /\ raced' = (raced \/ (isNew /\ k.first /\ Connected # {}))
  /\ RestUnchanged
\* A call that is still between two statements of its own may fail, or its process stop.
Stops(c) ==
  /\ errand[c].at \in {"opening", "recording", "refreshing", "matching", "counting"}
  /\ Ends(c) /\ UNCHANGED <<account, preferred, raced>> /\ RestUnchanged

ErrandStep(c) == SetDefault(c) \/ BeginClear(c) \/ ClearOne(c) \/ MakeDefault(c) \/ DeadlockAborted(c)
               \/ Onboard(c) \/ CreateConnectAccount(c) \/ SetStripeAccount(c) \/ Refresh(c)
               \/ SetStripeStatus(c) \/ FindUserByAccount(c) \/ CountMethods(c) \/ SyncStripeDestination(c) \/ Stops(c)
MethodsNext == Connect \/ SetVerified \/ Disconnect \/ Verdict \/ \E c \in Tellers : ErrandStep(c)
MethodsSpec == MethodsInit /\ [][MethodsNext]_methodVars

-----------------------------------------------------------------------------
(* Properties. *)

\* "two defaults would leave the operator guessing which one a payout uses": however calls overlap, the
\* account last made the default is the only one while it is connected; unless a call made it so that had
\* counted, or begun to clear, the player's accounts before another one was connected.
OneDefault == MethodsTypeOK /\ (~raced => {m \in Methods : account[m].default} = {preferred} \ {Free})

\* What PlayerWithdrawalsRepository.create asks of a destination.
Payable == account[Stripe].verified /\ account[Stripe].reference = user.id /\ user.status = "VERIFIED"
\* A withdrawal is accepted only to an account of which Stripe has said that it may be paid, although two
\* onboardings may open two accounts and calls and webhooks enter their numbers and verdicts crosswise.
PaidWhereVerified == Payable => account[Stripe].reference \in vouched
=============================================================================
