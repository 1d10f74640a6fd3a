-------------------------------- MODULE MCDesk --------------------------------
(* The administrators' desk.  The parts share no row, so a behaviour exercises *)
(* one of them: `pictures', two rows at a time (scope); `catalogue'; `defaults' *)
(* and `onboarding' of one player's payout accounts; `orders': a claim and a   *)
(* gift of the same variant, and a reward; `settings'; `ledger': an account    *)
(* older than the ledger and one made in the panel.                           *)
EXTENDS Images, Catalogue, PayoutMethods, Orders, Settings, Ledger, TLC
CONSTANTS k1, k2, cup, prize, goods, staff, her, form, i1, i2, i3, shirt, mug, x1, x2, z,
          claim, gift, reward, card, a1, a2, him, fee, oldfee, win, won
VARIABLES part, scope
vars == <<part, scope, imageVars, catalogueVars, methodVars, orderVars, settingsVars, ledgerVars>>
MCKind == cup :> "tournament" @@ prize :> "reward" @@ goods :> "merchandise" @@ staff :> "admin" @@ her :> "player" @@ form :> "tax"
MCGenerated == shirt :> <<"S", "S-2">> @@ mug :> <<"M", "M-2">>
MCItem == claim :> shirt @@ gift :> shirt @@ reward :> card
MCCost == claim :> 1 @@ gift :> 1 @@ reward :> 2
OneOfEach == [i \in Items |-> 1]
MCDefaults == "payouts.frozen" :> "off" @@ "activity.retentionDays" :> "90"
MCLegal == "payouts.frozen" :> {"off", "on"} @@ "activity.retentionDays" :> {"90", "30"}
MCFeeOf == oldfee :> him @@ fee :> her
MCAdjustments == {-1}
MCBatches == LET Line(u, n, r) == [user |-> u, amount |-> n, ref |-> r]
             IN {<<Line(her, -1, fee)>>, <<Line(her, 1, win), Line(him, -1, won)>>, <<Line(him, -1, won), Line(her, 1, win)>>}
DeskSymmetry == Permutations({k1, k2}) \cup Permutations({i1, i2, i3}) \cup Permutations({a1, a2})
Init == /\ part \in {"pictures", "catalogue", "defaults", "onboarding", "orders", "settings", "ledger"}
        /\ scope \in IF part = "pictures" THEN {{cup, form}, {prize, staff}, {her, goods}} ELSE {{}}
        /\ ImagesInit({staff, her}) /\ CatalogueInit /\ MethodsInit
        /\ OrdersInit /\ (overlap => part = "orders")
        /\ SettingsInit /\ (part = "settings" \/ table = Nothing)
        /\ LedgerInit /\ (part = "ledger" \/ opening[him] = 0)
InScope == /\ \A h \in Handlers : work'[h].on \in scope \cup {Free}
           /\ \A s \in Shown \ scope : row'[s] = row[s]
\* What matters to one of the two properties of payout accounts.
OnlyDefaults == /\ \A m \in Methods : ~account'[m].verified /\ account'[m].reference \in {Free, IF m = Stripe THEN x1 ELSE z}
                /\ x2 \notin opened' /\ mail' = mail
                /\ \A c \in Tellers : errand'[c].goal # "admin"
OnlyOnboarding == /\ \A m \in Methods \ {Stripe} : account'[m] = account[m]
                  /\ account'[Stripe].reference \in opened' \cup {Free} /\ \A e \in mail' : e.status # "RESTRICTED"
                  /\ (x2 \in opened' => x1 \in opened') /\ Connected \subseteq Connected'
                  /\ \A c \in Tellers : errand'[c].goal = "admin" => errand[c].goal = "admin" \/ opened = {}
                  /\ \A c \in Tellers : errand'[c].at \notin {"found", "clearing"}
Next == /\ UNCHANGED <<part, scope>>
        /\ \/ part = "pictures" /\ ImagesNext /\ InScope /\ UNCHANGED <<catalogueVars, methodVars, orderVars, settingsVars, ledgerVars>>
           \/ part = "catalogue" /\ CatalogueNext /\ UNCHANGED <<imageVars, methodVars, orderVars, settingsVars, ledgerVars>>
           \/ /\ part \in {"defaults", "onboarding"} /\ MethodsNext
              /\ part = "defaults" => OnlyDefaults
              /\ part = "onboarding" => OnlyOnboarding
              /\ UNCHANGED <<imageVars, catalogueVars, orderVars, settingsVars, ledgerVars>>
           \/ /\ part = "orders" /\ OrdersNext /\ (overlap => debt' = 0)
              /\ UNCHANGED <<imageVars, catalogueVars, methodVars, settingsVars, ledgerVars>>
           \/ part = "settings" /\ SettingsNext /\ UNCHANGED <<imageVars, catalogueVars, methodVars, orderVars, ledgerVars>>
           \/ part = "ledger" /\ LedgerNext /\ UNCHANGED <<imageVars, catalogueVars, methodVars, orderVars, settingsVars>>
Spec == Init /\ [][Next]_vars
=============================================================================
