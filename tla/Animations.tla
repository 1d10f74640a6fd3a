------------------------------ MODULE Animations ------------------------------
(***************************************************************************)
(* Card animations a player buys with tokens, gets with the VIP tier, and   *)
(* wears, one of a category at a time (player-animations).  A purchase is   *)
(* one transaction whose two unique keys decide; wearing is one transaction *)
(* that reads what is worn when its UPDATE begins (READ COMMITTED).         *)
(***************************************************************************)
EXTENDS Engagement, LedgerOps, Sums
CONSTANTS Buyer, Catalog,          \* animation -> [price, category, vip]
          PurchaseIds, Wallet0
ASSUME AnimationsAssumption == /\ Buyer \in Members /\ Wallet0 \in Nat /\ Free \notin DOMAIN Catalog
                               /\ IsFiniteSet(DOMAIN Catalog) /\ \A a \in DOMAIN Catalog : Catalog[a].price \in Nat
                               /\ Free \notin {"syncing", "equipping", "wearing", "buying"}
VARIABLES balance,
          own,         \* the buyer's entitlement to each animation
          dress,       \* calls in progress
          crossed      \* history: categories last written by a call that had not seen another one's write
animationVars == <<balance, own, dress, crossed>>

Anims == DOMAIN Catalog
Category(a) == Catalog[a].category
NotOwned == [source |-> "none", revoked |-> FALSE, equipped |-> FALSE, paid |-> 0, request |-> Free]
NoDress == [at |-> Free, tier |-> Free, anim |-> Free, id |-> Free, worn |-> {}, stale |-> FALSE]
AnimationsTypeOK ==
  /\ balance \in Nat
  /\ \A a \in Anims : own[a].source \in {"none", "PURCHASE", "VIP"} /\ own[a].paid \in Nat
AnimationsInit ==
  /\ balance = Wallet0 /\ own = [a \in Anims |-> NotOwned]
  /\ dress = [t \in Requests |-> NoDress] /\ crossed = {}

Starts(t, step) == dress[t].at = Free /\ dress' = [dress EXCEPT ![t] = step]
Stops(t) == dress' = [dress EXCEPT ![t] = NoDress]
Exists(a) == own[a].source # "none"
Entitled(a) == Exists(a) /\ ~own[a].revoked

\* The catalogue and every equip begin by bringing VIP entitlements in line with the tier read first.
\* Each entitlement is written on its own; they do not depend on each other and are written together here.
ReadTier(t) == \E goal \in Anims \cup {Free} :
  /\ Starts(t, [NoDress EXCEPT !.at = "syncing", !.tier = tier[Buyer], !.anim = goal])
  /\ UNCHANGED <<balance, own, crossed, engagementVars>>
Revoked(e) == [e EXCEPT !.revoked = TRUE, !.equipped = FALSE]
SyncVip(t) == LET d == dress[t]
                  hit == {a \in Anims : IF d.tier = "VIP" THEN Catalog[a].vip ELSE own[a].source = "VIP" /\ ~own[a].revoked} IN
  /\ d.at = "syncing"
  /\ own' = [a \in Anims |-> IF a \notin hit THEN own[a]
                             ELSE IF d.tier # "VIP" THEN Revoked(own[a])
                             ELSE IF Exists(a) THEN [own[a] EXCEPT !.revoked = FALSE]
                             ELSE [NotOwned EXCEPT !.source = "VIP"]]
  /\ dress' = [u \in Requests |->
       IF u = t THEN (IF d.anim = Free THEN NoDress ELSE [d EXCEPT !.at = "equipping"])
       ELSE IF dress[u].at = "wearing" /\ dress[u].anim \in hit THEN [dress[u] EXCEPT !.stale = TRUE] ELSE dress[u]]
  /\ UNCHANGED <<balance, crossed, engagementVars>>

\* equip: find the live entitlement and begin to take off what is worn of its category ...
TakeOff(t) == LET d == dress[t] IN
  /\ d.at = "equipping"
  /\ dress' = [dress EXCEPT ![t] = IF ~Entitled(d.anim) THEN NoDress
       ELSE [d EXCEPT !.at = "wearing", !.worn = {a \in Anims : own[a].equipped /\ Category(a) = Category(d.anim)}]]
  /\ UNCHANGED <<balance, own, crossed, engagementVars>>
\* ... put it on by its id, and commit.
Wear(t) == LET d == dress[t]  cat == Category(d.anim) IN
  /\ d.at = "wearing"
  /\ own' = [a \in Anims |-> IF a = d.anim THEN [own[a] EXCEPT !.equipped = TRUE]
                             ELSE IF a \in d.worn THEN [own[a] EXCEPT !.equipped = FALSE] ELSE own[a]]
  /\ crossed' = IF d.stale THEN crossed \cup {cat} ELSE crossed \ {cat}
  /\ dress' = [u \in Requests |-> IF u = t THEN NoDress
       ELSE IF dress[u].at = "wearing" /\ Category(dress[u].anim) = cat THEN [dress[u] EXCEPT !.stale = TRUE] ELSE dress[u]]
  /\ UNCHANGED <<balance, engagementVars>>

\* purchase: the checks, which also answer a repeated request, and then charge and create, both or none.
CheckPurchase(t) == \E a \in Anims, id \in PurchaseIds :
  /\ \A b \in Anims : own[b].request # id
  /\ ~Catalog[a].vip /\ ~Exists(a)
  /\ Starts(t, [NoDress EXCEPT !.at = "buying", !.anim = a, !.id = id])
  /\ UNCHANGED <<balance, own, crossed, engagementVars>>
AnyBuyer(a, id) == TRUE
KeysFree(a, id) == ~Exists(a) /\ \A b \in Anims : own[b].request # id
Purchase(t) == LET a == dress[t].anim  id == dress[t].id  price == Catalog[a].price IN
  /\ dress[t].at = "buying" /\ Stops(t)
  /\ \/ /\ Recordable(balance, -price) /\ KeysFree(a, id)
        /\ balance' = balance - price
        /\ own' = [own EXCEPT ![a] = [NotOwned EXCEPT !.source = "PURCHASE", !.paid = price, !.request = id]]
     \/ ~(Recordable(balance, -price) /\ KeysFree(a, id)) /\ UNCHANGED <<balance, own>>
  /\ UNCHANGED <<crossed, engagementVars>>

DressStep(t) == ReadTier(t) \/ SyncVip(t) \/ TakeOff(t) \/ Wear(t) \/ CheckPurchase(t) \/ Purchase(t)
AnimationsNext == (EngagementNext /\ UNCHANGED animationVars) \/ \E t \in Requests : DressStep(t)
AnimationsSpec == EngagementInit /\ AnimationsInit /\ [][AnimationsNext]_<<engagementVars, animationVars>>

-----------------------------------------------------------------------------
(* Properties. *)

\* What the player has spent on animations is what his entitlements say he paid, whatever purchases and
\* repeats of them run at once, and one request bought one animation.
PaidForWhatIsOwned ==
  /\ balance + SumOver([a \in Anims |-> own[a].paid], Anims) = Wallet0
  /\ \A a, b \in Anims : own[a].request # Free /\ own[a].request = own[b].request => a = b

\* An animation that is worn is the only one of its category and the player still has it, unless two
\* calls crossed when that category was last written.
WornIsOwned == \A a \in Anims : own[a].equipped /\ Category(a) \notin crossed =>
  Entitled(a) /\ \A b \in Anims : own[b].equipped /\ Category(b) = Category(a) => b = a

\* What is worn is held, and what is held was paid for or is given with the tier.
WardrobeIsHeld == AnimationsTypeOK /\ PaidForWhatIsOwned /\ WornIsOwned
=============================================================================
