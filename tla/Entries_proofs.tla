---------------------------- MODULE Entries_proofs ----------------------------
(***************************************************************************)
(* Proofs about Entries and Results: whatever calls overlap, fees, refunds *)
(* and places agree (EntriesAreBacked), a bracket is drawn once            *)
(* (DrawnOnce), and places and prizes submitted by hand are those of the   *)
(* wallets and awards (ResultsStand).                                      *)
(*                                                                         *)
(* EntriesInv and ResultsInv are inductive; TLC has checked them on the    *)
(* run of the two modules.                                                 *)
(***************************************************************************)
EXTENDS Results, Sums_proofs

(* What every behaviour keeps.                                               *)
EntriesTables ==
    /\ TypeOK
    /\ \A a \in Admins : pc[a] = "form" => form[a] \in Forms

(* An attempt that was not made yet is neither charged nor refunded.         *)
Numbered(p) ==
    status # "GONE" =>
        \A n \in Attempts : n > attempt[p] => charged[p][n] = 0 /\ n \notin refunded[p]

(* What a player has and what is kept of his fees.                           *)
Held == [p \in Players |-> balance[p] + FeesKept(p)]
Accounted == SumOver(Held, Players) = Cardinality(Players) * Opening + prized - debt

(* A call of cancel: it has read fees that were charged and written refunds  *)
(* that nobody has given, and who gets the fee of the place he holds loses   *)
(* the place with it.                                                        *)
CancelFits(a) ==
    /\ seen[a] \subseteq Charges
    /\ pending[a] \subseteq Refundable(Charges)
    /\ pc[a] # "marked" => pending[a] = {}
    /\ \A p \in Live : <<p, attempt[p]>> \in pending[a] => p \in marked[a]

(* Two calls refund different players.                                       *)
RefundsApart == \A a, b \in Admins : a # b =>
    \A k \in pending[a], l \in pending[b] : k[1] # l[1]

(* Careful administrators: what a call has read still holds.                 *)
OneAtATime == \A a, b \in Admins :
    a # b /\ pc[a] # "idle" => pc[b] = "idle" \/ (pc[a] = "results" /\ pc[b] = "results")
ReadStillHolds(a) ==
    /\ pc[a] = "read" => seen[a] = Charges
    /\ pc[a] = "marked" => pending[a] = Refundable(Charges) /\ marked[a] = Live
    /\ pc[a] \in {"read", "marked"} => status \notin {"CANCELLED", "COMPLETED", "GONE"}
    /\ pc[a] = "form" => /\ form[a].size >= Cardinality(Live)
                         /\ status = "COMPLETED" => form[a].to = "COMPLETED"
                         /\ form[a].to = "CANCELLED" => status = "CANCELLED"

EntriesInv ==
    /\ EntriesTables
    /\ \A p \in Players : Numbered(p)
    /\ Accounted
    /\ LivePlaceIsPaid
    /\ \A a \in Admins : CancelFits(a)
    /\ RefundsApart
    /\ Careful => OneAtATime /\ \A a \in Admins : ReadStillHolds(a)
    /\ FeesFollowPlaces /\ NoOverbooking

(* Results by hand.                                                          *)
ResultsTables ==
    /\ placement \in [Players -> 0 .. Cardinality(Players)]
    /\ prizeWon  \in [Players -> 0 .. Pool]
    /\ award     \in [Players -> {"NONE", "HELD", "CREDITED", "REVERSED"}]
    /\ prize     \in [Players -> 0 .. Pool]
    /\ case      \in [Cases -> {Nothing} \cup
                        (Players \X {"OPEN", "CLEARED", "DISQUALIFIED"})]
    /\ sheet \in [Admins -> {Nothing} \cup Sheets(Players)]
    /\ \A a \in Admins : pc[a] = "results" => sheet[a] \in Sheets(Players)

(* Careful administrators: until a sheet completes the tournament nothing is *)
(* placed or awarded, and who is on a checked sheet still takes part.        *)
SheetFits(a) ==
    pc[a] = "results" => \A p \in DOMAIN sheet[a] : reg[p] = "REGISTERED"
NothingAwarded ==
    status # "COMPLETED" => \A p \in Players : placement[p] = 0 /\ award[p] = "NONE"

ResultsInv ==
    /\ EntriesInv
    /\ ResultsTables
    /\ AwardsTellTheWallets /\ HeldForACase /\ OneSheetDecides
    /\ Careful => NothingAwarded /\ \A a \in Admins : SheetFits(a)
    /\ Awarded # {} => settled
-----------------------------------------------------------------------------
(* Constants and sums.                                                       *)
LEMMA Finite ==
  /\ IsFiniteSet(Players) /\ IsFiniteSet(Attempts) /\ Cardinality(Players) \in Nat
  /\ 1 \in Attempts /\ Attempts \subseteq Nat /\ Fees \subseteq Nat /\ 0 \in Fees
<1>1. IsFiniteSet(Attempts)
  BY AttemptsAssumption, FS_Interval DEF Attempts
<1>2. 1 \in Attempts /\ Attempts \subseteq Nat
  BY AttemptsAssumption DEF Attempts
<1> QED  BY <1>1, <1>2, PlayersAssumption, AmountsAssumption, FS_CardinalityType

LEMMA LiveCount ==
  /\ IsFiniteSet(Live) /\ Cardinality(Live) \in Nat
  /\ Cardinality(Live) <= Cardinality(Players)
<1>1. Live \in SUBSET Players
  BY DEF Live
<1> QED  BY <1>1, Finite, FS_Subset, FS_CardinalityType

(* The fees of any attempts are a natural number, and so are those kept.     *)
LEMMA FeesAre ==
  ASSUME TypeOK, NEW p \in Players
  PROVE  /\ charged[p] \in [Attempts -> Int] /\ charged[p] \in [Attempts -> Nat]
         /\ \A A \in SUBSET Attempts : SumOver(charged[p], A) \in Nat
         /\ \A K : Due(p, K) \in Nat
         /\ FeesKept(p) \in Nat
<1>1. charged[p] \in [Attempts -> Int] /\ charged[p] \in [Attempts -> Nat]
  <2>1. charged[p] \in [Attempts -> Fees] /\ Fees \subseteq Nat
    BY Finite DEF TypeOK
  <2>2. DOMAIN charged[p] = Attempts /\ charged[p] = [n \in Attempts |-> charged[p][n]]
    BY <2>1
  <2>3. \A n \in Attempts : charged[p][n] \in Nat
    BY <2>1
  <2> QED  BY <2>2, <2>3
<1>2. ASSUME NEW A \in SUBSET Attempts PROVE SumOver(charged[p], A) \in Nat
  BY <1>1, Finite, SumIsNat
<1> QED  BY <1>1, <1>2 DEF Due, FeesKept

LEMMA HeldIs ==
  ASSUME TypeOK PROVE Held \in [Players -> Int] /\ SumOver(Held, Players) \in Int
<1>1. Held \in [Players -> Int]
  BY FeesAre DEF Held, TypeOK
<1> QED  BY <1>1, Finite, SumIsInt

(* A refund moves a player's fees into his wallet: he holds what he held.    *)
LEMMA RefundKeeps ==
  ASSUME TypeOK, NEW K, K \subseteq Refundable(Charges), Refund(K), UNCHANGED charged
  PROVE  /\ balance' \in [Players -> Int] /\ refunded' \in [Players -> SUBSET Attempts]
         /\ Held' = Held
         /\ Refundable(Charges)' = Refundable(Charges) \ K
<1>1. balance' \in [Players -> Int] /\ refunded' \in [Players -> SUBSET Attempts]
  BY FeesAre DEF Refund, TypeOK
<1>2. ASSUME NEW p \in Players
      PROVE  balance'[p] + FeesKept(p)' = balance[p] + FeesKept(p)
  <2> DEFINE A    == {a \in Attempts : <<p, a>> \in K}
             left == Attempts \ (refunded[p] \cup A)
  <2>1. A \cap refunded[p] = {}
    BY DEF Refundable
  <2>2. balance'[p] = balance[p] + SumOver(charged[p], A) /\ refunded'[p] = refunded[p] \cup A
    BY DEF Refund, Due
  <2>3. Attempts \ refunded[p] = A \cup left /\ A \cap left = {} /\ A \in SUBSET Attempts
        /\ left \in SUBSET Attempts
    BY <2>1 DEF TypeOK
  <2>4. FeesKept(p)' = SumOver(charged[p], left)
    BY <2>2 DEF FeesKept
  <2> HIDE DEF A, left
  <2>5. SumOver(charged[p], A \cup left) = SumOver(charged[p], A) + SumOver(charged[p], left)
    <3> DEFINE f == charged[p]
    <3>1. f \in [Attempts -> Int]
      BY FeesAre
    <3> HIDE DEF f
    <3>2. IsFiniteSet(Attempts) /\ A \in SUBSET Attempts /\ left \in SUBSET Attempts
      BY <2>3, Finite
    <3>3. A \cap left = {}
      BY <2>3
    <3>4. SumOver(f, A \cup left) = SumOver(f, A) + SumOver(f, left)
      BY <3>1, <3>2, <3>3, SumSplit
    <3> QED  BY <3>4 DEF f
  <2>6. FeesKept(p) = SumOver(charged[p], A \cup left)
    BY <2>3, Zenon DEF FeesKept
  <2>7. SumOver(charged[p], A) \in Nat /\ SumOver(charged[p], left) \in Nat /\ balance[p] \in Int
    BY <2>3, FeesAre DEF TypeOK
  <2> QED  BY <2>2, <2>4, <2>5, <2>6, <2>7
<1>3. Held' = Held
  BY <1>2 DEF Held
<1>4. Refundable(Charges)' = Refundable(Charges) \ K
  <2>1. \A p \in Players, a \in Attempts : a \in refunded'[p] <=> a \in refunded[p] \/ <<p, a>> \in K
    BY DEF Refund
  <2> QED  BY <2>1 DEF Refundable, Charges, Attempts
<1> QED  BY <1>1, <1>3, <1>4

(* One player's holding changes.                                             *)
LEMMA HeldChanges ==
  ASSUME TypeOK, NEW p \in Players, balance' \in [Players -> Int], NEW d \in Int,
         balance'[p] + FeesKept(p)' = balance[p] + FeesKept(p) + d, FeesKept(p)' \in Int,
         \A q \in Players \ {p} : balance'[q] + FeesKept(q)' = balance[q] + FeesKept(q)
  PROVE  SumOver(Held', Players) = SumOver(Held, Players) + d
<1>0. Held \in [Players -> Int] /\ Held[p] \in Int
  BY HeldIs
<1>2. \A q \in Players \ {p} : Held'[q] = Held[q]
  BY DEF Held
<1>4. Held'[p] = Held[p] + d
  BY DEF Held
<1>1. Held' \in [Players -> Int] /\ Held'[p] = Held[p] + d
  <2>1. \A q \in Players : Held'[q] \in Int
    BY <1>0, <1>2, <1>4
  <2>2. Held' = [q \in Players |-> Held'[q]]
    BY DEF Held
  <2> QED  BY <1>4, <2>1, <2>2
<1>3. SumOver(Held', Players) = SumOver(Held, Players) + (Held'[p] - Held[p])
  BY <1>1, <1>2, HeldIs, Finite, SumChange
<1> QED  BY <1>1, <1>3, HeldIs
-----------------------------------------------------------------------------
(* The fees.                                                                 *)
LEMMA NothingKept ==
  ASSUME TypeOK, NEW p \in Players, \A n \in Attempts : charged[p][n] = 0
  PROVE  FeesKept(p) = 0
<1> DEFINE S == Attempts \ refunded[p]
           f == charged[p]
           z == [n \in S |-> 0]
<1>1. IsFiniteSet(S) /\ \A n \in S : f[n] = z[n]
  BY Finite, FS_Subset
<1>2. SumOver(z, S) = Cardinality(S) * 0
  <2>1. 0 \in Int
    OBVIOUS
  <2> HIDE DEF S
  <2> QED  BY <1>1, <2>1, SumConstant, Zenon
<1>3. Cardinality(S) \in Nat
  BY <1>1, FS_CardinalityType
<1> HIDE DEF S, f, z
<1>4. SumOver(f, S) = SumOver(z, S)
  BY <1>1, SumSame
<1>5. FeesKept(p) = SumOver(f, S)
  BY DEF FeesKept, f, S
<1> QED  BY <1>2, <1>3, <1>4, <1>5

LEMMA OneFeeKept ==
  ASSUME TypeOK, NEW p \in Players, NEW m \in Attempts, m \notin refunded[p],
         \A n \in Attempts \ {m} : charged[p][n] = 0
  PROVE  FeesKept(p) = charged[p][m]
<1> DEFINE S == Attempts \ refunded[p]
           f == charged[p]
           c == [n \in S |-> f[n]]
           T == {m}
<1>1. IsFiniteSet(S) /\ T \in SUBSET S /\ c \in [S -> Int]
  BY Finite, FS_Subset, FeesAre
<1>2. \A n \in S : f[n] = c[n]
  OBVIOUS
<1>3. (\A n \in T : c[n] = f[n]) /\ \A n \in S \ T : c[n] = 0
  OBVIOUS
<1>4. FeesKept(p) = SumOver(f, S)
  BY DEF FeesKept
<1>5. SumOver(f, T) = f[m]
  <2>1. f \in [Attempts -> Int] /\ T \in SUBSET Attempts /\ m \in T /\ IsFiniteSet(Attempts) /\ f[m] \in Int
    BY FeesAre, Finite
  <2>2. T \ {m} = {}
    OBVIOUS
  <2> HIDE DEF T, f
  <2>3. SumOver(f, T) = f[m] + SumOver(f, T \ {m})
    BY <2>1, SumTake
  <2>4. SumOver(f, {}) = 0
    BY SumEmpty, Zenon
  <2>5. SumOver(f, T \ {m}) = 0
    BY <2>2, <2>4, Zenon
  <2> QED  BY <2>1, <2>3, <2>5
<1> HIDE DEF S, f, c, T
<1>6. SumOver(c, S) = SumOver(f, T)
  BY <1>1, <1>3, SumWithin
<1>7. SumOver(f, S) = SumOver(c, S)
  BY <1>1, <1>2, SumSame
<1>8. f[m] = charged[p][m]
  BY DEF f
<1> QED  BY <1>4, <1>5, <1>6, <1>7, <1>8

(* Every player holds what he started with.                                  *)
LEMMA AtFirst ==
  ASSUME TypeOK, \A p \in Players : balance[p] + FeesKept(p) = Opening, prized = 0, debt = 0
  PROVE  Accounted
<1>1. Held = [p \in Players |-> Opening]
  BY DEF Held
<1>2. Opening \in Int
  BY AmountsAssumption
<1>3. SumOver([p \in Players |-> Opening], Players) = Cardinality(Players) * Opening
  BY <1>2, Finite, SumConstant
<1>4. Cardinality(Players) * Opening \in Int
  BY <1>2, Finite
<1> QED  BY <1>1, <1>3, <1>4 DEF Accounted

LEMMA EntriesInitially == Init \/ ByHandInit => EntriesInv
<1> SUFFICES ASSUME Init \/ ByHandInit PROVE EntriesInv
  OBVIOUS
<1>1. /\ pc = [a \in Admins |-> "idle"] /\ seen = [a \in Admins |-> {}]
      /\ pending = [a \in Admins |-> {}] /\ marked = [a \in Admins |-> {}]
      /\ form = [a \in Admins |-> NoForm] /\ practice \in Practices
      /\ refunded = [p \in Players |-> {}] /\ debt = 0 /\ prized = 0
      /\ status \in TournamentStatus \ {"CANCELLED"} /\ fee \in Fees /\ size \in Sizes
      /\ drawn = {} /\ settled = FALSE
  BY DEF Init, ByHandInit, TournamentStatus
<1>2. /\ reg \in [Players -> {"NONE", "REGISTERED", "WITHDRAWN", "DISQUALIFIED"}]
      /\ attempt \in [Players -> 0 .. 1] /\ charged \in [Players -> [Attempts -> Fees]]
      /\ balance \in [Players -> Int]
  <2>1. CASE Init
    <3>1. reg \in [Players -> {"NONE", "REGISTERED", "WITHDRAWN", "DISQUALIFIED"}]
      BY <2>1 DEF Init
    <3>2. attempt \in [Players -> 0 .. 1]
      BY <2>1 DEF Init
    <3>3. balance \in [Players -> Int]
      BY <2>1, AmountsAssumption DEF Init
    <3> QED  BY <2>1, <3>1, <3>2, <3>3, Finite DEF Init
  <2>2. CASE ByHandInit
    <3>1. fee \in Int
      BY <1>1, Finite
    <3>2. balance \in [Players -> Int]
      BY <2>2, <3>1, AmountsAssumption DEF ByHandInit
    <3> QED  BY <2>2, <3>2, Finite DEF ByHandInit
  <2> QED  BY <2>1, <2>2
<1>3. EntriesTables
  <2>1. attempt \in [Players -> 0 .. MaxAttempts]
    BY <1>2, AttemptsAssumption
  <2>2. debt \in 0 .. MaxDebt /\ prized \in Nat
    BY <1>1, AmountsAssumption
  <2>3. /\ refunded \in [Players -> SUBSET Attempts]
        /\ pc \in [Admins -> {"idle", "read", "marked", "form", "start", "results"}]
        /\ seen \in [Admins -> SUBSET (Players \X Attempts)]
        /\ pending \in [Admins -> SUBSET (Players \X Attempts)]
        /\ marked \in [Admins -> SUBSET Players]
        /\ form \in [Admins -> Forms \cup {NoForm}]
    BY <1>1
  <2> QED  BY <1>1, <1>2, <2>1, <2>2, <2>3 DEF EntriesTables, TypeOK
<1>4. ASSUME NEW p \in Players
      PROVE  /\ \A n \in Attempts : n > attempt[p] => charged[p][n] = 0
             /\ \A n \in Attempts : charged[p][n] > 0 => n = attempt[p] /\ reg[p] = "REGISTERED"
             /\ balance[p] + FeesKept(p) = Opening
  <2>1. CASE Init
    <3>1. \A n \in Attempts : charged[p][n] = 0
      BY <2>1 DEF Init
    <3>2. FeesKept(p) = 0
      BY <1>3, <3>1, NothingKept DEF EntriesTables
    <3>3. balance[p] = Opening
      BY <2>1 DEF Init
    <3> QED  BY <3>1, <3>2, <3>3, AmountsAssumption
  <2>2. CASE ByHandInit
    <3>1. \A n \in Attempts : charged[p][n] = IF n = 1 THEN fee ELSE 0
      BY <2>2 DEF ByHandInit
    <3>2. FeesKept(p) = fee
      BY <1>1, <1>3, <3>1, Finite, OneFeeKept DEF EntriesTables
    <3>3. balance[p] = Opening - fee /\ attempt[p] = 1 /\ reg[p] = "REGISTERED" /\ fee \in Int
      BY <2>2, Finite DEF ByHandInit
    <3>4. balance[p] + FeesKept(p) = Opening
      BY <3>2, <3>3, AmountsAssumption
    <3>5. \A n \in Attempts : n > 1 => n # 1
      BY Finite
    <3> QED  BY <3>1, <3>3, <3>4, <3>5
  <2> QED  BY <2>1, <2>2
<1>5. (\A p \in Players : Numbered(p)) /\ LivePlaceIsPaid
  BY <1>1, <1>4 DEF Numbered, LivePlaceIsPaid, Live
<1>6. Accounted
  BY <1>1, <1>3, <1>4, AtFirst DEF EntriesTables
<1>7. (\A a \in Admins : CancelFits(a) /\ ReadStillHolds(a)) /\ RefundsApart /\ OneAtATime
  BY <1>1 DEF CancelFits, ReadStillHolds, RefundsApart, OneAtATime
<1>8. FeesFollowPlaces
  BY <1>1, <1>4 DEF FeesFollowPlaces, Refundable, Charges
<1>9. NoOverbooking
  <2>1. CASE Init
    <3>1. PICK h \in SUBSET Players : Cardinality(h) <= 1
                 /\ reg = [p \in Players |-> IF p \in h THEN "REGISTERED" ELSE "NONE"]
      BY <2>1 DEF Init
    <3>2. Live = h
      BY <3>1 DEF Live
    <3>3. size >= 1 /\ size \in Int
      BY <1>1, AmountsAssumption
    <3> QED  BY <3>1, <3>2, <3>3, LiveCount DEF NoOverbooking
  <2>2. CASE ByHandInit
    BY <2>2, LiveCount DEF ByHandInit, NoOverbooking
  <2> QED  BY <2>1, <2>2
<1> QED  BY <1>3, <1>5, <1>6, <1>7, <1>8, <1>9 DEF EntriesInv
-----------------------------------------------------------------------------
(* Steps that leave registrations, fees and wallets alone.                   *)
LEMMA PlacesRest ==
  ASSUME EntriesInv, UNCHANGED <<regVars, moneyVars>>, status' # "GONE" => status # "GONE"
  PROVE  /\ \A p \in Players : Numbered(p)'
         /\ Accounted' /\ LivePlaceIsPaid'
         /\ Live' = Live /\ Charges' = Charges /\ Refundable(Charges)' = Refundable(Charges)
         /\ reg' = reg /\ attempt' = attempt
<1>1. UNCHANGED <<reg, attempt, charged, refunded, balance, debt, prized>>
  BY DEF regVars, moneyVars
<1>2. \A p \in Players : Numbered(p)'
  BY <1>1 DEF EntriesInv, Numbered
<1>3. Accounted'
  BY <1>1 DEF EntriesInv, Accounted, Held, FeesKept
<1>4. Live' = Live /\ Charges' = Charges /\ Refundable(Charges)' = Refundable(Charges)
  BY <1>1 DEF Live, Charges, Refundable
<1>5. LivePlaceIsPaid'
  BY <1>1, <1>4 DEF EntriesInv, LivePlaceIsPaid
<1> QED  BY <1>1, <1>2, <1>3, <1>4, <1>5

LEMMA CancelReadStep ==
  ASSUME EntriesInv, NEW a \in Admins, CancelReadFees(a) PROVE EntriesInv'
<1>1. /\ UNCHANGED <<regVars, moneyVars>> /\ status' = status /\ fee' = fee /\ size' = size
      /\ practice' = practice /\ Careful' = Careful
  BY DEF CancelReadFees, tableVars, Careful
<1>2. EntriesTables'
  BY DEF EntriesInv, EntriesTables, TypeOK, CancelReadFees, tableVars, regVars, moneyVars, Charges
<1>3. ASSUME NEW b \in Admins PROVE CancelFits(b)'
  BY <1>1, PlacesRest DEF EntriesInv, EntriesTables, TypeOK, CancelReadFees, CancelFits
<1>4. RefundsApart'
  BY DEF EntriesInv, RefundsApart, CancelReadFees
<1>5. ASSUME Careful PROVE OneAtATime' /\ \A b \in Admins : ReadStillHolds(b)'
  BY <1>1, <1>5, PlacesRest
  DEF EntriesInv, EntriesTables, TypeOK, CancelReadFees, OneAtATime, ReadStillHolds, Alone
<1>6. FeesFollowPlaces' /\ NoOverbooking'
  BY <1>1, PlacesRest DEF EntriesInv, FeesFollowPlaces, NoOverbooking
<1> QED  BY <1>1, <1>2, <1>3, <1>4, <1>5, <1>6, PlacesRest DEF EntriesInv

LEMMA CancelRefundStep ==
  ASSUME EntriesInv, NEW a \in Admins, CancelRefundFees(a) PROVE EntriesInv'
<1> DEFINE K == Refundable(seen[a])
<1>1. /\ UNCHANGED <<regVars, moneyVars>> /\ status' = status /\ fee' = fee /\ size' = size
      /\ practice' = practice /\ Careful' = Careful
  BY DEF CancelRefundFees, tableVars, Careful
<1>2. K \subseteq Refundable(Charges)
  BY DEF EntriesInv, CancelFits, Refundable
<1>3. EntriesTables'
  BY <1>2 DEF EntriesInv, EntriesTables, TypeOK, CancelRefundFees, tableVars, regVars, moneyVars, Charges,
     Refundable, Live
<1>4. ASSUME NEW b \in Admins PROVE CancelFits(b)'
  BY <1>1, <1>2, PlacesRest DEF EntriesInv, EntriesTables, TypeOK, CancelRefundFees, CancelFits
<1>5. RefundsApart'
  <2>1. \A b \in Admins : \A k \in K, l \in pending[b] : k[1] # l[1]
    BY DEF CancelRefundFees, WalletLocked, Reserved
  <2> QED  BY <2>1 DEF EntriesInv, EntriesTables, TypeOK, RefundsApart, CancelRefundFees
<1>6. ASSUME Careful PROVE OneAtATime' /\ \A b \in Admins : ReadStillHolds(b)'
  BY <1>1, <1>6, PlacesRest
  DEF EntriesInv, EntriesTables, TypeOK, CancelRefundFees, OneAtATime, ReadStillHolds
<1>7. FeesFollowPlaces' /\ NoOverbooking'
  BY <1>1, PlacesRest DEF EntriesInv, FeesFollowPlaces, NoOverbooking
<1> QED  BY <1>1, <1>3, <1>4, <1>5, <1>6, <1>7, PlacesRest DEF EntriesInv

LEMMA CancelAbortStep ==
  ASSUME EntriesInv, NEW a \in Admins, CancelAbort(a) PROVE EntriesInv'
<1>1. /\ UNCHANGED <<regVars, moneyVars>> /\ status' = status /\ fee' = fee /\ size' = size
      /\ practice' = practice /\ Careful' = Careful
  BY DEF CancelAbort, tableVars, Careful
<1>2. EntriesTables'
  BY DEF EntriesInv, EntriesTables, TypeOK, CancelAbort, EndCancel, tableVars, regVars, moneyVars
<1>3. ASSUME NEW b \in Admins PROVE CancelFits(b)'
  BY <1>1, PlacesRest DEF EntriesInv, EntriesTables, TypeOK, CancelAbort, EndCancel, CancelFits
<1>4. RefundsApart'
  BY DEF EntriesInv, EntriesTables, TypeOK, RefundsApart, CancelAbort, EndCancel
<1>5. ASSUME Careful PROVE OneAtATime' /\ \A b \in Admins : ReadStillHolds(b)'
  BY <1>1, <1>5, PlacesRest
  DEF EntriesInv, EntriesTables, TypeOK, CancelAbort, EndCancel, OneAtATime, ReadStillHolds
<1>6. FeesFollowPlaces' /\ NoOverbooking'
  BY <1>1, PlacesRest DEF EntriesInv, FeesFollowPlaces, NoOverbooking
<1> QED  BY <1>1, <1>2, <1>3, <1>4, <1>5, <1>6, PlacesRest DEF EntriesInv
LEMMA EditReadStep ==
  ASSUME EntriesInv, NEW a \in Admins, EditRead(a) PROVE EntriesInv'
<1>1. /\ UNCHANGED <<regVars, moneyVars>> /\ status' = status /\ fee' = fee /\ size' = size
      /\ practice' = practice /\ Careful' = Careful
      /\ pc[a] = "idle" /\ pc' = [pc EXCEPT ![a] = "form"] /\ pending' = pending /\ marked' = marked /\ seen' = seen
  BY DEF EditRead, tableVars, Careful
<1>2. PICK f \in Forms : /\ form' = [form EXCEPT ![a] = f] /\ f.size >= Cardinality(Live)
                         /\ status = "COMPLETED" => f.to = "COMPLETED"
                         /\ Careful /\ f.to = "CANCELLED" => status = "CANCELLED"
  BY DEF EditRead, FitsSize, AllowedTransitions
<1>3. EntriesTables'
  BY <1>1, <1>2 DEF EntriesInv, EntriesTables, TypeOK, EditRead, tableVars, regVars, moneyVars
<1>4. ASSUME NEW b \in Admins PROVE CancelFits(b)'
  BY <1>1, PlacesRest DEF EntriesInv, EntriesTables, TypeOK, CancelFits
<1>5. RefundsApart'
  BY <1>1 DEF EntriesInv, RefundsApart
<1>6. ASSUME Careful PROVE OneAtATime' /\ \A b \in Admins : ReadStillHolds(b)'
  <2>1. OneAtATime'
    BY <1>1, <1>6 DEF EntriesInv, EntriesTables, TypeOK, EditRead, OneAtATime, Alone
  <2>2. \A b \in Admins : ReadStillHolds(b)'
    BY <1>1, <1>2, <1>6, PlacesRest DEF EntriesInv, EntriesTables, TypeOK, ReadStillHolds
  <2> QED  BY <2>1, <2>2
<1>7. FeesFollowPlaces' /\ NoOverbooking'
  BY <1>1, PlacesRest DEF EntriesInv, FeesFollowPlaces, NoOverbooking
<1> QED  BY <1>1, <1>3, <1>4, <1>5, <1>6, <1>7, PlacesRest DEF EntriesInv

(* A status written without looking again: a cancelled tournament has no fee *)
(* left if the form found it cancelled, and nobody else is at work.          *)
LEMMA EditWriteStep ==
  ASSUME EntriesInv, NEW a \in Admins, EditWrite(a) PROVE EntriesInv'
<1>1. /\ UNCHANGED <<regVars, moneyVars>> /\ status # "GONE" /\ settled' = settled /\ drawn' = drawn
      /\ practice' = practice /\ Careful' = Careful
      /\ pc[a] = "form" /\ pending' = pending /\ marked' = marked /\ seen' = seen
      /\ form' = [form EXCEPT ![a] = NoForm] /\ fee' = form[a].fee /\ size' = form[a].size
  BY DEF EditWrite, Careful
<1>2. /\ pc' = [pc EXCEPT ![a] = IF form[a].to = "START" THEN "start" ELSE "idle"]
      /\ status' = IF form[a].to = "START" THEN status ELSE form[a].to
      /\ form[a] \in Forms
  BY <1>1 DEF EditWrite, EntriesInv, EntriesTables
<1>3. status' \in TournamentStatus
  BY <1>1, <1>2 DEF Forms, EntriesInv, EntriesTables, TypeOK
<1>4. EntriesTables'
  <2>1. fee' \in Fees /\ size' \in Sizes
    BY <1>1, <1>2 DEF Forms
  <2> QED
    BY <1>1, <1>2, <1>3, <2>1 DEF EntriesInv, EntriesTables, TypeOK, regVars, moneyVars
<1>5. ASSUME NEW b \in Admins PROVE CancelFits(b)'
  BY <1>1, <1>2, PlacesRest DEF EntriesInv, EntriesTables, TypeOK, CancelFits
<1>6. RefundsApart'
  BY <1>1 DEF EntriesInv, RefundsApart
<1>7. ASSUME Careful PROVE OneAtATime' /\ \A b \in Admins : ReadStillHolds(b)'
  <2>1. OneAtATime'
    BY <1>1, <1>2, <1>7 DEF EntriesInv, EntriesTables, TypeOK, OneAtATime
  <2>2. \A b \in Admins \ {a} : pc[b] = "idle"
    BY <1>1, <1>7 DEF EntriesInv, EntriesTables, TypeOK, OneAtATime
  <2> QED
    BY <1>1, <1>2, <1>7, <2>1, <2>2 DEF EntriesInv, EntriesTables, TypeOK, ReadStillHolds
<1>8. FeesFollowPlaces'
  <2>1. Careful /\ status' = "CANCELLED" => status = "CANCELLED"
    BY <1>1, <1>2 DEF EntriesInv, ReadStillHolds
  <2> QED  BY <1>1, <2>1, PlacesRest DEF EntriesInv, FeesFollowPlaces
<1>9. NoOverbooking'
  BY <1>1, <1>3, PlacesRest DEF EntriesInv, NoOverbooking, ReadStillHolds
<1> QED  BY <1>1, <1>4, <1>5, <1>6, <1>7, <1>8, <1>9, PlacesRest DEF EntriesInv

(* A call ends, or goes on to results, without a trace in places and fees.   *)
LEMMA CallMoves ==
  ASSUME EntriesInv, NEW a \in Admins, UNCHANGED <<regVars, moneyVars, tableVars, practice>>,
         UNCHANGED <<seen, pending, marked>>, NEW to \in {"idle", "results"},
         pc' = [pc EXCEPT ![a] = to], pc[a] \notin {"read", "marked"},
         \/ form' = form /\ pc[a] # "form"
         \/ form' = [form EXCEPT ![a] = NoForm],
         Careful /\ to = "results" => \A b \in Admins \ {a} : pc[b] \in {"idle", "results"}
  PROVE  EntriesInv'
<1>1. /\ status' = status /\ fee' = fee /\ size' = size /\ Careful' = Careful
      /\ UNCHANGED <<regVars, moneyVars>>
  BY DEF tableVars, Careful
<1>2. EntriesTables'
  BY DEF EntriesInv, EntriesTables, TypeOK, tableVars, regVars, moneyVars
<1>3. ASSUME NEW b \in Admins PROVE CancelFits(b)'
  BY <1>1, PlacesRest DEF EntriesInv, EntriesTables, TypeOK, CancelFits
<1>4. RefundsApart'
  BY DEF EntriesInv, RefundsApart
<1>5. ASSUME Careful PROVE OneAtATime' /\ \A b \in Admins : ReadStillHolds(b)'
  <2>1. OneAtATime'
    BY <1>5 DEF EntriesInv, EntriesTables, TypeOK, OneAtATime
  <2>2. \A b \in Admins : ReadStillHolds(b)'
    BY <1>1, <1>5, PlacesRest DEF EntriesInv, EntriesTables, TypeOK, ReadStillHolds
  <2> QED  BY <2>1, <2>2
<1>6. FeesFollowPlaces' /\ NoOverbooking'
  BY <1>1, PlacesRest DEF EntriesInv, FeesFollowPlaces, NoOverbooking
<1> QED  BY <1>1, <1>2, <1>3, <1>4, <1>5, <1>6, PlacesRest DEF EntriesInv

LEMMA EditAbortStep ==
  ASSUME EntriesInv, NEW a \in Admins, EditAbort(a) PROVE EntriesInv'
BY CallMoves DEF EditAbort

(* The start, by the call that asked for it.                                 *)
LEMMA StartStep ==
  ASSUME EntriesInv, NEW a \in Admins, StartBracket(a) PROVE EntriesInv'
<1>1. /\ UNCHANGED <<regVars, moneyVars>> /\ status = "REGISTERING" /\ status' = "IN_PROGRESS"
      /\ fee' = fee /\ size' = size /\ practice' = practice /\ Careful' = Careful
      /\ pc[a] = "start" /\ pc' = [pc EXCEPT ![a] = "idle"]
      /\ UNCHANGED <<seen, pending, marked, form>>
  BY DEF StartBracket, Startable, Careful
<1>2. EntriesTables'
  BY <1>1 DEF EntriesInv, EntriesTables, TypeOK, TournamentStatus, regVars, moneyVars, StartBracket, Live
<1>3. ASSUME NEW b \in Admins PROVE CancelFits(b)'
  BY <1>1, PlacesRest DEF EntriesInv, EntriesTables, TypeOK, CancelFits
<1>4. RefundsApart'
  BY <1>1 DEF EntriesInv, RefundsApart
<1>5. ASSUME Careful PROVE OneAtATime' /\ \A b \in Admins : ReadStillHolds(b)'
  <2>1. OneAtATime'
    BY <1>1, <1>5 DEF EntriesInv, EntriesTables, TypeOK, OneAtATime
  <2>2. \A b \in Admins \ {a} : pc[b] = "idle"
    BY <1>1, <1>5 DEF EntriesInv, EntriesTables, TypeOK, OneAtATime
  <2> QED  BY <1>1, <1>5, <2>1, <2>2 DEF EntriesInv, EntriesTables, TypeOK, ReadStillHolds
<1>6. FeesFollowPlaces' /\ NoOverbooking'
  BY <1>1, PlacesRest DEF EntriesInv, FeesFollowPlaces, NoOverbooking
<1> QED  BY <1>1, <1>2, <1>3, <1>4, <1>5, <1>6, PlacesRest DEF EntriesInv

LEMMA SettleStep == ASSUME EntriesInv, Settle PROVE EntriesInv'
<1>1. /\ UNCHANGED <<regVars, moneyVars>> /\ status = "IN_PROGRESS" /\ status' = "COMPLETED"
      /\ fee' = fee /\ size' = size /\ practice' = practice /\ Careful' = Careful
      /\ UNCHANGED <<pc, seen, pending, marked, form>> /\ drawn' = drawn /\ settled' = TRUE
  BY DEF Settle, Careful, callVars
<1>2. EntriesTables'
  BY <1>1 DEF EntriesInv, EntriesTables, TypeOK, TournamentStatus, regVars, moneyVars
<1>3. ASSUME NEW b \in Admins PROVE CancelFits(b)'
  BY <1>1, PlacesRest DEF EntriesInv, CancelFits
<1>4. RefundsApart'
  BY <1>1 DEF EntriesInv, RefundsApart
<1>5. ASSUME Careful PROVE OneAtATime' /\ \A b \in Admins : ReadStillHolds(b)'
  BY <1>1, <1>5, PlacesRest DEF EntriesInv, OneAtATime, ReadStillHolds, Settle, Undisturbed
<1>6. FeesFollowPlaces' /\ NoOverbooking'
  BY <1>1, PlacesRest DEF EntriesInv, FeesFollowPlaces, NoOverbooking
<1> QED  BY <1>1, <1>2, <1>3, <1>4, <1>5, <1>6, PlacesRest DEF EntriesInv
-----------------------------------------------------------------------------
(* Steps that move money or places.                                          *)
LEMMA ChargeAdds ==
  ASSUME TypeOK, NEW p \in Players, NEW n \in Attempts, n \notin refunded[p], charged[p][n] = 0,
         fee \in Fees, charged' = [charged EXCEPT ![p][n] = fee], refunded' = refunded
  PROVE  /\ charged' \in [Players -> [Attempts -> Fees]]
         /\ FeesKept(p)' = FeesKept(p) + fee
         /\ \A q \in Players \ {p} : FeesKept(q)' = FeesKept(q)
<1> DEFINE S == Attempts \ refunded[p]
           f == charged[p]
           g == charged'[p]
           R == S \ {n}
<1>1. charged' \in [Players -> [Attempts -> Fees]]
  BY DEF TypeOK
<1>2. f \in [Attempts -> Int] /\ g \in [Attempts -> Int]
  <2>1. g \in [Attempts -> Fees]
    BY <1>1
  <2>2. g = [m \in Attempts |-> g[m]] /\ \A m \in Attempts : g[m] \in Nat
    BY <2>1, Finite
  <2> HIDE DEF g
  <2>3. g \in [Attempts -> Int]
    BY <2>2
  <2> QED  BY <2>3, FeesAre
<1>3. n \in S /\ S \in SUBSET Attempts /\ R \in SUBSET Attempts /\ IsFiniteSet(R)
  BY Finite, FS_Subset
<1>4. g[n] = fee /\ f[n] = 0 /\ \A m \in R : g[m] = f[m]
  BY DEF TypeOK
<1>5. FeesKept(p) = SumOver(f, S) /\ FeesKept(p)' = SumOver(g, S)
  BY DEF FeesKept
<1>6. \A q \in Players \ {p} : FeesKept(q)' = FeesKept(q)
  <2>1. \A q \in Players \ {p} : charged'[q] = charged[q]
    BY DEF TypeOK
  <2> QED  BY <2>1 DEF FeesKept
<1> HIDE DEF S, f, g
<1>7. SumOver(f, S) = f[n] + SumOver(f, R) /\ SumOver(g, S) = g[n] + SumOver(g, R)
  BY <1>2, <1>3, Finite, SumTake
<1> HIDE DEF R
<1>8. SumOver(f, R) = SumOver(g, R)
  BY <1>3, <1>4, SumSame
<1>9. SumOver(f, R) \in Int
  BY <1>2, <1>3, Finite, SumIsInt
<1>10. fee \in Int
  BY Finite
<1> QED  BY <1>1, <1>4, <1>5, <1>6, <1>7, <1>8, <1>9, <1>10

LEMMA RegisterStep ==
  ASSUME EntriesInv, NEW p \in Players, Register(p) PROVE EntriesInv'
<1> DEFINE n == attempt[p] + 1
<1>1. /\ status = "REGISTERING" /\ reg[p] \in {"NONE", "WITHDRAWN"} /\ Cardinality(Live) < size
      /\ reg' = [reg EXCEPT ![p] = "REGISTERED"] /\ attempt' = [attempt EXCEPT ![p] = n]
      /\ charged' = [charged EXCEPT ![p][n] = fee] /\ balance' = [balance EXCEPT ![p] = @ - fee]
      /\ refunded' = refunded /\ debt' = debt /\ prized' = prized
      /\ UNCHANGED <<status, fee, size, settled, drawn, pc, seen, pending, marked, form, practice>>
      /\ Careful' = Careful
  BY DEF Register, Registrable, HasPlace, NextAttempt, tableVars, callVars, Careful
<1>2. n \in Attempts /\ n \notin refunded[p] /\ charged[p][n] = 0 /\ fee \in Fees /\ fee \in Int
  <2>1. attempt[p] \in 0 .. MaxAttempts /\ n <= MaxAttempts
    BY DEF EntriesInv, EntriesTables, TypeOK, Register, NextAttempt
  <2>2. n \in Attempts /\ n > attempt[p]
    BY <2>1, AttemptsAssumption DEF Attempts
  <2>3. fee \in Fees /\ fee \in Int
    BY Finite DEF EntriesInv, EntriesTables, TypeOK
  <2> QED  BY <1>1, <2>2, <2>3 DEF EntriesInv, Numbered
<1> HIDE DEF n
<1>3. TypeOK /\ TypeOK'
  <2>1. TypeOK
    BY DEF EntriesInv, EntriesTables
  <2>2. charged' \in [Players -> [Attempts -> Fees]]
    BY <1>1, <1>2, <2>1, ChargeAdds
  <2>3. n \in 0 .. MaxAttempts
    BY <1>2, AttemptsAssumption DEF Attempts
  <2>4. balance' \in [Players -> Int]
    BY <1>1, <1>2, <2>1 DEF TypeOK
  <2> QED  BY <1>1, <2>1, <2>2, <2>3, <2>4 DEF TypeOK
<1>4. EntriesTables'
  BY <1>1, <1>3 DEF EntriesInv, EntriesTables
<1>5. ASSUME NEW q \in Players PROVE Numbered(q)'
  <2>1. Numbered(q)
    BY DEF EntriesInv
  <2>2. CASE q # p
    BY <1>1, <1>3, <2>1, <2>2 DEF Numbered, TypeOK
  <2>3. CASE q = p
    <3>1. attempt'[p] = n /\ attempt[p] \in Int /\ n = attempt[p] + 1
      BY <1>1, <1>3 DEF TypeOK, n
    <3>2. \A m \in Attempts : m > n => m > attempt[p] /\ m # n
      BY <3>1, Finite
    <3> QED  BY <1>1, <1>3, <2>1, <2>3, <3>1, <3>2 DEF Numbered, TypeOK
  <2> QED  BY <2>2, <2>3
<1>6. Accounted'
  <2>1. FeesKept(p)' = FeesKept(p) + fee /\ \A q \in Players \ {p} : FeesKept(q)' = FeesKept(q)
    BY <1>1, <1>2, <1>3, ChargeAdds
  <2>2. balance'[p] = balance[p] - fee /\ balance[p] \in Int /\ FeesKept(p) \in Nat
        /\ \A q \in Players \ {p} : balance'[q] = balance[q]
    BY <1>1, <1>3, FeesAre DEF TypeOK
  <2>3. balance'[p] + FeesKept(p)' = balance[p] + FeesKept(p) + 0 /\ FeesKept(p)' \in Int
    BY <1>2, <2>1, <2>2
  <2>4. SumOver(Held', Players) = SumOver(Held, Players) + 0
    BY <1>3, <2>1, <2>2, <2>3, HeldChanges DEF TypeOK
  <2> QED  BY <1>1, <1>3, <2>4, HeldIs DEF EntriesInv, Accounted
<1>7. Charges \subseteq Charges' /\ Charges' \subseteq Charges \cup {<<p, n>>}
      /\ Refundable(Charges) \subseteq Refundable(Charges)'
      /\ Refundable(Charges)' \subseteq Refundable(Charges) \cup {<<p, n>>}
  <2>1. \A q \in Players, m \in Attempts :
          charged'[q][m] = IF q = p /\ m = n THEN fee ELSE charged[q][m]
    BY <1>1, <1>2, <1>3 DEF TypeOK
  <2>2. \A q \in Players, m \in Attempts : charged[q][m] > 0 => charged'[q][m] > 0
    BY <1>2, <2>1
  <2>3. Charges \subseteq Charges' /\ Charges' \subseteq Charges \cup {<<p, n>>}
    BY <2>1, <2>2 DEF Charges, Attempts
  <2> QED  BY <1>1, <2>3 DEF Refundable
<1>8. Live' = Live \cup {p} /\ p \notin Live
  BY <1>1, <1>3 DEF Live, TypeOK
<1>9. LivePlaceIsPaid'
  BY <1>1, <1>2, <1>3, <1>8 DEF EntriesInv, LivePlaceIsPaid, TypeOK, Live
<1>10. ASSUME NEW a \in Admins PROVE CancelFits(a)'
  <2>1. <<p, n>> \notin pending[a]
    BY <1>2 DEF EntriesInv, CancelFits, Refundable, Charges
  <2>2. \A q \in Live \ {p} : attempt'[q] = attempt[q]
    BY <1>1, <1>3 DEF TypeOK, Live
  <2>3. attempt'[p] = n /\ seen' = seen /\ pending' = pending /\ marked' = marked /\ pc' = pc
    BY <1>1, <1>3 DEF TypeOK
  <2>4. CancelFits(a)
    BY DEF EntriesInv
  <2>5. seen'[a] \subseteq Charges' /\ pending'[a] \subseteq Refundable(Charges)'
    BY <1>7, <2>3, <2>4 DEF CancelFits
  <2>6. ASSUME NEW q \in Live', <<q, attempt'[q]>> \in pending[a] PROVE q \in marked[a]
    <3>1. q # p
      BY <2>1, <2>3, <2>6
    <3>2. q \in Live /\ attempt'[q] = attempt[q]
      BY <1>8, <2>2, <3>1
    <3> QED  BY <2>4, <2>6, <3>2 DEF CancelFits
  <2> QED  BY <2>3, <2>4, <2>5, <2>6 DEF CancelFits
<1>11. RefundsApart'
  BY <1>1 DEF EntriesInv, RefundsApart
<1>12. ASSUME Careful PROVE OneAtATime' /\ \A a \in Admins : ReadStillHolds(a)'
  BY <1>1, <1>12 DEF Register, Undisturbed, OneAtATime, ReadStillHolds
<1>13. FeesFollowPlaces'
  <2>1. Careful => \A k \in Refundable(Charges) : k[1] # p
    BY <1>1 DEF EntriesInv, FeesFollowPlaces
  <2>2. \A k \in Refundable(Charges) : k[1] \in Players
    BY DEF Refundable, Charges
  <2> QED  BY <1>1, <1>3, <1>7, <2>1, <2>2 DEF EntriesInv, FeesFollowPlaces, TypeOK
<1>14. NoOverbooking'
  <2>1. Cardinality(Live \cup {p}) = Cardinality(Live) + 1
    BY <1>8, LiveCount, FS_AddElement
  <2>2. size \in Int
    BY <1>3, AmountsAssumption DEF TypeOK
  <2> QED  BY <1>1, <1>8, <2>1, <2>2, LiveCount DEF NoOverbooking
<1> QED  BY <1>1, <1>4, <1>5, <1>6, <1>9, <1>10, <1>11, <1>12, <1>13, <1>14 DEF EntriesInv
LEMMA ChargebackStep ==
  ASSUME EntriesInv, NEW p \in Players, Chargeback(p) PROVE EntriesInv'
<1>1. /\ balance' = [balance EXCEPT ![p] = @ - 1] /\ debt' = debt + 1 /\ debt < MaxDebt
      /\ UNCHANGED <<status, fee, size, settled, drawn, reg, attempt, charged, refunded, prized>>
      /\ UNCHANGED <<pc, seen, pending, marked, form, practice>> /\ Careful' = Careful
  BY DEF Chargeback, tableVars, regVars, callVars, Careful
<1>2. EntriesTables'
  <2>1. balance' \in [Players -> Int] /\ debt' \in 0 .. MaxDebt
    BY <1>1, AmountsAssumption DEF EntriesInv, EntriesTables, TypeOK
  <2> QED  BY <1>1, <2>1 DEF EntriesInv, EntriesTables, TypeOK
<1>3. Accounted'
  <2>1. TypeOK
    BY DEF EntriesInv, EntriesTables
  <2>2. \A q \in Players : FeesKept(q)' = FeesKept(q)
    BY <1>1 DEF FeesKept
  <2>3. balance'[p] = balance[p] - 1 /\ balance[p] \in Int /\ FeesKept(p) \in Nat
        /\ \A q \in Players \ {p} : balance'[q] = balance[q]
    BY <1>1, <2>1, FeesAre DEF TypeOK
  <2>4. balance'[p] + FeesKept(p)' = balance[p] + FeesKept(p) + (-1) /\ FeesKept(p)' \in Int
    BY <2>2, <2>3
  <2>5. SumOver(Held', Players) = SumOver(Held, Players) + (-1)
    <3>1. -1 \in Int /\ balance' \in [Players -> Int]
      BY <1>2 DEF EntriesTables, TypeOK
    <3> QED  BY <2>1, <2>2, <2>3, <2>4, <3>1, HeldChanges
  <2>6. Cardinality(Players) * Opening \in Int /\ prized \in Int /\ debt \in Int
    BY <2>1, Finite, AmountsAssumption DEF TypeOK
  <2> QED  BY <1>1, <2>1, <2>5, <2>6, HeldIs DEF EntriesInv, Accounted
<1>4. Live' = Live /\ Charges' = Charges /\ Refundable(Charges)' = Refundable(Charges)
  BY <1>1 DEF Live, Charges, Refundable
<1>5. \A q \in Players : Numbered(q)'
  BY <1>1 DEF EntriesInv, Numbered
<1>6. LivePlaceIsPaid'
  BY <1>1, <1>4 DEF EntriesInv, LivePlaceIsPaid
<1>7. (\A a \in Admins : CancelFits(a)') /\ RefundsApart'
  BY <1>1, <1>4 DEF EntriesInv, CancelFits, RefundsApart
<1>8. Careful => OneAtATime' /\ \A a \in Admins : ReadStillHolds(a)'
  BY <1>1, <1>4 DEF EntriesInv, OneAtATime, ReadStillHolds
<1>9. FeesFollowPlaces' /\ NoOverbooking'
  BY <1>1, <1>4 DEF EntriesInv, FeesFollowPlaces, NoOverbooking
<1> QED  BY <1>1, <1>2, <1>3, <1>5, <1>6, <1>7, <1>8, <1>9 DEF EntriesInv

LEMMA DisqualifyStep ==
  ASSUME EntriesInv, NEW p \in Players, Disqualify(p) PROVE EntriesInv'
<1>1. /\ reg' = [reg EXCEPT ![p] = "DISQUALIFIED"] /\ status # "GONE" /\ reg[p] # "NONE"
      /\ UNCHANGED <<status, fee, size, settled, drawn, attempt, charged, refunded, prized, balance, debt>>
      /\ UNCHANGED <<pc, seen, pending, marked, form, practice>> /\ Careful' = Careful
      /\ Undisturbed
  BY DEF Disqualify, tableVars, moneyVars, callVars, Careful
<1>2. EntriesTables'
  BY <1>1 DEF EntriesInv, EntriesTables, TypeOK
<1>3. Accounted'
  BY <1>1 DEF EntriesInv, Accounted, Held, FeesKept
<1>4. Live' \subseteq Live /\ Charges' = Charges /\ Refundable(Charges)' = Refundable(Charges)
  BY <1>1, <1>2 DEF Live, Charges, Refundable, EntriesInv, EntriesTables, TypeOK
<1>5. \A q \in Players : Numbered(q)'
  BY <1>1 DEF EntriesInv, Numbered
<1>6. LivePlaceIsPaid'
  BY <1>1, <1>4 DEF EntriesInv, LivePlaceIsPaid
<1>7. (\A a \in Admins : CancelFits(a)') /\ RefundsApart'
  BY <1>1, <1>4 DEF EntriesInv, CancelFits, RefundsApart
<1>8. Careful => OneAtATime' /\ \A a \in Admins : ReadStillHolds(a)'
  BY <1>1 DEF EntriesInv, OneAtATime, ReadStillHolds, Undisturbed
<1>9. FeesFollowPlaces'
  BY <1>1, <1>4 DEF EntriesInv, EntriesTables, TypeOK, FeesFollowPlaces
<1>10. NoOverbooking'
  <2>1. Cardinality(Live') <= Cardinality(Live) /\ Cardinality(Live') \in Nat
    BY <1>4, LiveCount, FS_Subset, FS_CardinalityType
  <2>2. size \in Int
    BY AmountsAssumption DEF EntriesInv, EntriesTables, TypeOK
  <2> QED  BY <1>1, <2>1, <2>2, LiveCount DEF EntriesInv, NoOverbooking
<1> QED  BY <1>1, <1>2, <1>3, <1>5, <1>6, <1>7, <1>8, <1>9, <1>10 DEF EntriesInv

(* Refunds of fees K, with which the places of some players go.              *)
LEMMA RefundStep ==
  ASSUME EntriesInv, NEW K, K \subseteq Refundable(Charges), Refund(K),
         UNCHANGED <<charged, attempt, debt, prized, fee, size, settled, drawn, practice>>,
         NEW gone, gone \subseteq Players,
         reg' = [p \in Players |-> IF p \in gone THEN "WITHDRAWN" ELSE reg[p]],
         status' \in TournamentStatus, status # "GONE",
         \A p \in Live \ gone : <<p, attempt[p]>> \notin K,
         Careful => \/ Refundable(Charges) \ K = {}
                    \/ /\ status' # "CANCELLED"
                       /\ \A k \in Refundable(Charges) \ K : k[1] \notin gone
  PROVE  /\ balance' \in [Players -> Int] /\ refunded' \in [Players -> SUBSET Attempts]
         /\ reg' \in [Players -> {"NONE", "REGISTERED", "WITHDRAWN", "DISQUALIFIED"}]
         /\ \A p \in Players : Numbered(p)'
         /\ Accounted' /\ LivePlaceIsPaid' /\ FeesFollowPlaces' /\ NoOverbooking'
         /\ Live' = Live \ gone /\ Charges' = Charges /\ Refundable(Charges)' = Refundable(Charges) \ K
<1> DEFINE K0 == Refundable(Charges) \ K
<1>1. TypeOK /\ Careful' = Careful
  BY DEF EntriesInv, EntriesTables, Careful
<1>2. /\ balance' \in [Players -> Int] /\ refunded' \in [Players -> SUBSET Attempts]
      /\ Held' = Held /\ Refundable(Charges)' = K0
  BY <1>1, RefundKeeps
<1>3. reg' \in [Players -> {"NONE", "REGISTERED", "WITHDRAWN", "DISQUALIFIED"}]
  BY <1>1 DEF TypeOK
<1>4. Live' = Live \ gone /\ Charges' = Charges
  BY DEF Live, Charges
<1>5. ASSUME NEW p \in Players PROVE Numbered(p)'
  <2>1. Numbered(p) /\ \A a \in Attempts : charged[p][a] = 0 => <<p, a>> \notin K
    BY DEF EntriesInv, Refundable, Charges
  <2>2. \A a \in Attempts : a \in refunded'[p] <=> a \in refunded[p] \/ <<p, a>> \in K
    BY DEF Refund
  <2> QED  BY <2>1, <2>2 DEF Numbered
<1>6. Accounted'
  BY <1>2 DEF EntriesInv, Accounted
<1>7. LivePlaceIsPaid'
  <2>1. ASSUME NEW p \in Live', attempt'[p] \in refunded'[p] PROVE FALSE
    <3>1. p \in Live \ gone /\ attempt[p] \notin refunded[p] /\ <<p, attempt[p]>> \notin K
      BY <1>4 DEF EntriesInv, LivePlaceIsPaid
    <3>2. refunded'[p] = refunded[p] \cup {a \in Attempts : <<p, a>> \in K}
      BY <3>1 DEF Refund, Live
    <3> QED  BY <2>1, <3>1, <3>2
  <2> QED  BY <2>1 DEF LivePlaceIsPaid
<1>8. FeesFollowPlaces'
  <2>1. \A k \in K0 : k[1] \in Players /\ k \in Refundable(Charges)
    BY DEF Refundable, Charges
  <2>2. \A p \in Players : reg'[p] = IF p \in gone THEN "WITHDRAWN" ELSE reg[p]
    OBVIOUS
  <2> QED  BY <1>1, <1>2, <2>1, <2>2 DEF EntriesInv, FeesFollowPlaces
<1>9. NoOverbooking'
  <2>1. Cardinality(Live') <= Cardinality(Live) /\ Cardinality(Live') \in Nat
    BY <1>4, LiveCount, FS_Subset, FS_CardinalityType
  <2>2. size \in Int
    BY AmountsAssumption DEF EntriesInv, EntriesTables, TypeOK
  <2> QED  BY <1>1, <2>1, <2>2, LiveCount DEF EntriesInv, NoOverbooking
<1> QED  BY <1>2, <1>3, <1>4, <1>5, <1>6, <1>7, <1>8, <1>9
LEMMA WithdrawStep ==
  ASSUME EntriesInv, NEW p \in Players, Withdraw(p) PROVE EntriesInv'
<1> DEFINE K  == Refundable({<<p, attempt[p]>>} \cap Charges)
           K0 == Refundable(Charges) \ K
<1>1. /\ reg' = [reg EXCEPT ![p] = "WITHDRAWN"] /\ status # "GONE" /\ status' = status
      /\ Refund(K) /\ (K # {} => ~WalletLocked(p)) /\ Undisturbed
      /\ UNCHANGED <<fee, size, settled, drawn, attempt, charged, prized, debt>>
      /\ UNCHANGED <<pc, seen, pending, marked, form, practice>> /\ Careful' = Careful
  BY DEF Withdraw, Removable, tableVars, callVars, Careful
<1>2. TypeOK /\ EntriesTables
  BY DEF EntriesInv, EntriesTables
<1>3. K \subseteq Refundable(Charges) /\ \A k \in K : k = <<p, attempt[p]>>
  BY DEF Refundable
<1>4. /\ balance' \in [Players -> Int] /\ refunded' \in [Players -> SUBSET Attempts]
      /\ reg' \in [Players -> {"NONE", "REGISTERED", "WITHDRAWN", "DISQUALIFIED"}]
      /\ \A q \in Players : Numbered(q)'
      /\ Accounted' /\ LivePlaceIsPaid' /\ FeesFollowPlaces' /\ NoOverbooking'
      /\ Live' = Live \ {p} /\ Charges' = Charges /\ Refundable(Charges)' = K0
  <2>1. reg' = [q \in Players |-> IF q \in {p} THEN "WITHDRAWN" ELSE reg[q]]
    BY <1>1, <1>2 DEF TypeOK
  <2>2. \A q \in Live \ {p} : <<q, attempt[q]>> \notin K
    BY <1>3
  <2>3. Careful => K0 = {} \/ (status' # "CANCELLED" /\ \A k \in K0 : k[1] \notin {p})
    <3>1. ASSUME Careful, NEW k \in K0 PROVE status # "CANCELLED" /\ k[1] # p
      <4>1. k \in Refundable(Charges) /\ k \in Charges /\ k = <<k[1], k[2]>> /\ k \notin K
        BY DEF Refundable, Charges
      <4>2. k[2] = attempt[k[1]] /\ status # "CANCELLED"
        BY <1>1, <3>1, <4>1 DEF EntriesInv, FeesFollowPlaces
      <4> QED  BY <4>1, <4>2 DEF Refundable
    <3> QED  BY <1>1, <3>1
  <2>4. status' \in TournamentStatus
    BY <1>1, <1>2 DEF TypeOK
  <2> DEFINE gone == {p}
  <2>5. gone \subseteq Players
    OBVIOUS
  <2>6. Live \ {p} = Live \ gone
    OBVIOUS
  <2>7. \A q \in Live \ gone : <<q, attempt[q]>> \notin K
    BY <2>2
  <2>8. reg' = [q \in Players |-> IF q \in gone THEN "WITHDRAWN" ELSE reg[q]]
    BY <2>1
  <2>9. Careful => K0 = {} \/ (status' # "CANCELLED" /\ \A k \in K0 : k[1] \notin gone)
    BY <2>3
  <2> HIDE DEF K, gone
  <2> QED  BY <1>1, <1>3, <2>4, <2>5, <2>6, <2>7, <2>8, <2>9, RefundStep
<1>5. EntriesTables'
  BY <1>1, <1>2, <1>4 DEF EntriesTables, TypeOK
<1>6. ASSUME NEW a \in Admins PROVE CancelFits(a)'
  <2>1. pending[a] \cap K = {}
    <3>1. SUFFICES ASSUME NEW k \in pending[a], k \in K PROVE FALSE
      OBVIOUS
    <3>2. k[1] = p
      BY <1>3, <3>1
    <3>3. WalletLocked(p)
      BY <3>2 DEF WalletLocked, Reserved
    <3> QED  BY <1>1, <3>1, <3>3
  <2>2. CancelFits(a)
    BY DEF EntriesInv
  <2> HIDE DEF K
  <2> QED  BY <1>1, <1>4, <2>1, <2>2 DEF CancelFits
<1>7. RefundsApart'
  BY <1>1 DEF EntriesInv, RefundsApart
<1>8. Careful => OneAtATime' /\ \A a \in Admins : ReadStillHolds(a)'
  BY <1>1 DEF OneAtATime, ReadStillHolds, Undisturbed
<1> QED  BY <1>1, <1>4, <1>5, <1>6, <1>7, <1>8 DEF EntriesInv

LEMMA CancelCommitStep ==
  ASSUME EntriesInv, NEW a \in Admins, CancelCommit(a) PROVE EntriesInv'
<1> DEFINE K  == pending[a]
           K0 == Refundable(Charges) \ K
<1>1. /\ reg' = [p \in Players |-> IF p \in marked[a] THEN "WITHDRAWN" ELSE reg[p]]
      /\ pc[a] = "marked" /\ status # "GONE" /\ status' = "CANCELLED" /\ Refund(K)
      /\ UNCHANGED <<fee, size, settled, drawn, attempt, charged, prized, debt, practice>>
      /\ Careful' = Careful /\ form' = form
      /\ pc' = [pc EXCEPT ![a] = "idle"] /\ seen' = [seen EXCEPT ![a] = {}]
      /\ pending' = [pending EXCEPT ![a] = {}] /\ marked' = [marked EXCEPT ![a] = {}]
  BY DEF CancelCommit, EndCancel, Careful
<1>2. TypeOK /\ EntriesTables
  BY DEF EntriesInv, EntriesTables
<1>3. K \subseteq Refundable(Charges) /\ \A p \in Live : <<p, attempt[p]>> \in K => p \in marked[a]
  BY DEF EntriesInv, CancelFits
<1>4. /\ balance' \in [Players -> Int] /\ refunded' \in [Players -> SUBSET Attempts]
      /\ reg' \in [Players -> {"NONE", "REGISTERED", "WITHDRAWN", "DISQUALIFIED"}]
      /\ \A p \in Players : Numbered(p)'
      /\ Accounted' /\ LivePlaceIsPaid' /\ FeesFollowPlaces' /\ NoOverbooking'
      /\ Live' = Live \ marked[a] /\ Charges' = Charges /\ Refundable(Charges)' = K0
  <2>1. marked[a] \subseteq Players /\ status' \in TournamentStatus
    BY <1>1, <1>2 DEF TypeOK, TournamentStatus
  <2>2. Careful => K0 = {}
    BY <1>1 DEF EntriesInv, ReadStillHolds
  <2> DEFINE gone == marked[a]
  <2>3. reg' = [p \in Players |-> IF p \in gone THEN "WITHDRAWN" ELSE reg[p]]
    BY <1>1
  <2>4. \A p \in Live \ gone : <<p, attempt[p]>> \notin K
    BY <1>3
  <2>5. gone \subseteq Players /\ Live \ marked[a] = Live \ gone
    BY <2>1
  <2> HIDE DEF K, gone
  <2> QED  BY <1>1, <1>3, <2>1, <2>2, <2>3, <2>4, <2>5, RefundStep
<1>5. EntriesTables'
  BY <1>1, <1>2, <1>4 DEF EntriesTables, TypeOK, TournamentStatus
<1>6. ASSUME NEW b \in Admins PROVE CancelFits(b)'
  <2>1. b # a => pending[b] \cap K = {}
    BY DEF EntriesInv, RefundsApart
  <2> QED  BY <1>1, <1>2, <1>4, <2>1 DEF EntriesInv, CancelFits, TypeOK
<1>7. RefundsApart'
  BY <1>1, <1>2 DEF EntriesInv, RefundsApart, TypeOK
<1>8. ASSUME Careful PROVE OneAtATime' /\ \A b \in Admins : ReadStillHolds(b)'
  <2>1. OneAtATime'
    BY <1>1, <1>2, <1>8 DEF EntriesInv, OneAtATime, TypeOK
  <2>2. \A b \in Admins : pc'[b] = "idle"
    BY <1>1, <1>2, <1>8 DEF EntriesInv, OneAtATime, TypeOK
  <2> QED  BY <2>1, <2>2 DEF ReadStillHolds
<1> QED  BY <1>1, <1>4, <1>5, <1>6, <1>7, <1>8 DEF EntriesInv

LEMMA UnstartableStep ==
  ASSUME EntriesInv, NEW a \in Admins, StartUnstartable(a) PROVE EntriesInv'
<1> DEFINE K == Refundable(Charges)
<1>1. /\ reg' = [p \in Players |-> IF p \in Live THEN "WITHDRAWN" ELSE reg[p]]
      /\ pc[a] = "start" /\ status = "REGISTERING" /\ status' = "CANCELLED" /\ Refund(K)
      /\ UNCHANGED <<fee, size, settled, drawn, attempt, charged, prized, debt, practice>>
      /\ UNCHANGED <<seen, pending, marked, form>>
      /\ Careful' = Careful /\ pc' = [pc EXCEPT ![a] = "idle"]
      /\ \A k \in K : ~WalletLocked(k[1])
  BY DEF StartUnstartable, Startable, Careful
<1>2. TypeOK /\ EntriesTables
  BY DEF EntriesInv, EntriesTables
<1>3. /\ balance' \in [Players -> Int] /\ refunded' \in [Players -> SUBSET Attempts]
      /\ reg' \in [Players -> {"NONE", "REGISTERED", "WITHDRAWN", "DISQUALIFIED"}]
      /\ \A p \in Players : Numbered(p)'
      /\ Accounted' /\ LivePlaceIsPaid' /\ FeesFollowPlaces' /\ NoOverbooking'
      /\ Live' = {} /\ Charges' = Charges /\ Refundable(Charges)' = {}
  <2>1. Live \subseteq Players /\ status' \in TournamentStatus /\ K \subseteq Refundable(Charges)
        /\ {} = Refundable(Charges) \ K
    BY <1>1 DEF TournamentStatus, Live
  <2> DEFINE gone == Live
  <2>2. Live \ gone = {} /\ gone = Live
    OBVIOUS
  <2> HIDE DEF K, gone
  <2> QED  BY <1>1, <2>1, <2>2, RefundStep
<1>4. EntriesTables'
  BY <1>1, <1>2, <1>3 DEF EntriesTables, TypeOK, TournamentStatus
<1>5. ASSUME NEW b \in Admins PROVE CancelFits(b)'
  <2>1. pending[b] = {}
    BY <1>1 DEF EntriesInv, CancelFits, WalletLocked, Reserved
  <2> QED  BY <1>1, <1>2, <1>3, <2>1 DEF EntriesInv, CancelFits, TypeOK
<1>6. RefundsApart'
  BY <1>1 DEF EntriesInv, RefundsApart
<1>7. ASSUME Careful PROVE OneAtATime' /\ \A b \in Admins : ReadStillHolds(b)'
  <2>1. OneAtATime'
    BY <1>1, <1>2, <1>7 DEF EntriesInv, OneAtATime, TypeOK
  <2>2. \A b \in Admins : pc'[b] = "idle"
    BY <1>1, <1>2, <1>7 DEF EntriesInv, OneAtATime, TypeOK
  <2> QED  BY <2>1, <2>2 DEF ReadStillHolds
<1> QED  BY <1>1, <1>3, <1>4, <1>5, <1>6, <1>7 DEF EntriesInv

LEMMA RemoveStep == ASSUME EntriesInv, Remove PROVE EntriesInv'
<1>1. /\ status' = "GONE" /\ drawn' = {} /\ reg' = [p \in Players |-> "NONE"]
      /\ attempt' = [p \in Players |-> 0] /\ Undisturbed /\ Careful' = Careful
      /\ UNCHANGED <<fee, size, settled, charged, refunded, balance, debt, prized>>
      /\ UNCHANGED <<pc, seen, pending, marked, form, practice>>
  BY DEF Remove, moneyVars, callVars, Careful
<1>2. EntriesTables'
  <2>1. attempt' \in [Players -> 0 .. MaxAttempts]
    BY <1>1, AttemptsAssumption
  <2> QED  BY <1>1, <2>1 DEF EntriesInv, EntriesTables, TypeOK
<1>3. (\A p \in Players : Numbered(p)') /\ Accounted'
  BY <1>1 DEF Numbered, EntriesInv, Accounted, Held, FeesKept
<1>4. Live' = {} /\ Charges' = Charges /\ Refundable(Charges)' = Refundable(Charges)
  BY <1>1 DEF Live, Charges, Refundable
<1>5. (\A a \in Admins : CancelFits(a)') /\ RefundsApart'
  BY <1>1, <1>4 DEF EntriesInv, CancelFits, RefundsApart
<1>6. Careful => OneAtATime' /\ \A a \in Admins : ReadStillHolds(a)'
  BY <1>1 DEF OneAtATime, ReadStillHolds, Undisturbed
<1>7. LivePlaceIsPaid' /\ FeesFollowPlaces'
  BY <1>1, <1>4 DEF LivePlaceIsPaid, FeesFollowPlaces
<1>8. NoOverbooking'
  <2>1. Cardinality(Live') = 0 /\ size' \in Nat
    BY <1>2, <1>4, FS_EmptySet, AmountsAssumption DEF EntriesTables, TypeOK
  <2> QED  BY <2>1 DEF NoOverbooking
<1> QED  BY <1>1, <1>2, <1>3, <1>5, <1>6, <1>7, <1>8 DEF EntriesInv

LEMMA EntriesStep ==
  ASSUME EntriesInv, EntriesNext \/ \E p \in Players : Disqualify(p) PROVE EntriesInv'
BY RegisterStep, WithdrawStep, ChargebackStep, CancelReadStep, CancelRefundStep, CancelCommitStep,
   CancelAbortStep, EditReadStep, EditWriteStep, EditAbortStep, StartStep, UnstartableStep, SettleStep,
   RemoveStep, DisqualifyStep
DEF EntriesNext

LEMMA EntriesRest == ASSUME EntriesInv, UNCHANGED vars PROVE EntriesInv'
<1>1. /\ UNCHANGED <<status, fee, size, settled, drawn, reg, attempt, charged, refunded, balance, debt, prized>>
      /\ UNCHANGED <<pc, seen, pending, marked, form, practice>>
  BY DEF vars, tableVars, regVars, moneyVars, callVars
<1>2. Live' = Live /\ Charges' = Charges /\ Refundable(Charges)' = Refundable(Charges) /\ Careful' = Careful
  BY <1>1 DEF Live, Charges, Refundable, Careful
<1>3. EntriesTables' /\ (\A p \in Players : Numbered(p)') /\ Accounted' /\ LivePlaceIsPaid'
  BY <1>1, <1>2 DEF EntriesInv, EntriesTables, TypeOK, Numbered, Accounted, Held, FeesKept, LivePlaceIsPaid
<1>4. /\ (\A a \in Admins : CancelFits(a)') /\ RefundsApart' /\ FeesFollowPlaces' /\ NoOverbooking'
      /\ Careful => OneAtATime' /\ \A a \in Admins : ReadStillHolds(a)'
  BY <1>1, <1>2
  DEF EntriesInv, CancelFits, RefundsApart, FeesFollowPlaces, NoOverbooking, OneAtATime, ReadStillHolds
<1> QED  BY <1>2, <1>3, <1>4 DEF EntriesInv
-----------------------------------------------------------------------------
(* Prizes.                                                                   *)
LEMMA SheetIs ==
  ASSUME NEW R \in SUBSET Players, NEW r \in Sheets(R)
  PROVE  /\ DOMAIN r \subseteq R /\ r = [p \in DOMAIN r |-> r[p]]
         /\ \A p \in DOMAIN r : r[p] \in Line(Cardinality(Players))
         /\ \A p \in DOMAIN r : r[p].place \in 1 .. Cardinality(Players) /\ r[p].prize \in 0 .. Pool
         /\ \A p, q \in DOMAIN r : r[p].place = r[q].place => p = q
         /\ Total(r) <= Pool
         /\ Prizes(r) \in [DOMAIN r -> Nat]
         /\ r \in Sheets(Players)
<1>1. PICK S \in SUBSET R : S # {} /\ r \in [S -> Line(Cardinality(S))]
  BY DEF Sheets
<1>2. Cardinality(S) \in Nat /\ Cardinality(S) <= Cardinality(Players)
  BY Finite, FS_Subset, FS_CardinalityType
<1>3. Line(Cardinality(S)) \subseteq Line(Cardinality(Players))
  BY <1>2, Finite DEF Line
<1>4. DOMAIN r \subseteq R /\ r = [p \in DOMAIN r |-> r[p]] /\ \A p \in DOMAIN r : r[p] \in Line(Cardinality(Players))
  BY <1>1, <1>3
<1>5. \A p \in DOMAIN r : r[p].place \in 1 .. Cardinality(Players) /\ r[p].prize \in 0 .. Pool
  BY <1>4 DEF Line
<1>6. Prizes(r) \in [DOMAIN r -> Nat]
  BY <1>5, PoolAssumption DEF Prizes
<1>7. (\A p, q \in DOMAIN r : r[p].place = r[q].place => p = q) /\ Total(r) <= Pool
  BY DEF Sheets
<1>8. r \in Sheets(Players)
  <2>1. S \in (SUBSET Players) \ {{}}
    BY <1>1
  <2>2. r \in UNION {[T -> Line(Cardinality(T))] : T \in (SUBSET Players) \ {{}}}
    BY <1>1, <2>1
  <2> QED  BY <1>7, <2>2 DEF Sheets
<1> QED  BY <1>4, <1>5, <1>6, <1>7, <1>8

(* A dispute is not the absence of one.                                      *)
LEMMA SomeCase ==
  ASSUME NEW p \in Players PROVE <<p, "OPEN">> # Nothing /\ <<p, "CLEARED">> # Nothing
<1> DEFINE verdicts == Players \X {"OPEN", "CLEARED", "DISQUALIFIED"}
<1>1. <<p, "OPEN">> \in verdicts /\ <<p, "CLEARED">> \in verdicts
  OBVIOUS
<1>2. Nothing \notin verdicts
  BY NothingAssumption
<1> HIDE DEF verdicts
<1> QED  BY <1>1, <1>2

(* Prizes put into wallets are counted in prized.                            *)
LEMMA PrizesAccounted ==
  ASSUME TypeOK, Accounted, NEW paid \in SUBSET Players, NEW g, \A p \in paid : g[p] \in Nat,
         balance' = [p \in Players |-> IF p \in paid THEN balance[p] + g[p] ELSE balance[p]],
         prized' = prized + SumOver(g, paid), UNCHANGED <<charged, refunded, debt>>
  PROVE  balance' \in [Players -> Int] /\ prized' \in Nat /\ Accounted'
<1> DEFINE h == [p \in Players |-> IF p \in paid THEN g[p] ELSE 0]
<1>1. h \in [Players -> Nat] /\ h \in [Players -> Int]
  OBVIOUS
<1>2. (\A p \in paid : h[p] = g[p]) /\ \A p \in Players \ paid : h[p] = 0
  OBVIOUS
<1>3. balance' \in [Players -> Int] /\ \A p \in Players : balance'[p] = balance[p] + h[p]
  BY DEF TypeOK
<1>4. \A p \in Players : FeesKept(p)' = FeesKept(p)
  BY DEF FeesKept
<1>5. \A p \in Players : Held'[p] = Held[p] + h[p]
  BY <1>1, <1>3, <1>4, FeesAre DEF Held, TypeOK
<1>6. Held' \in [Players -> Int]
  BY <1>3, <1>4, FeesAre DEF Held
<1> HIDE DEF h
<1>7. SumOver(h, Players) = SumOver(g, paid)
  BY <1>1, <1>2, Finite, SumWithin
<1>8. SumOver(h, Players) \in Nat
  BY <1>1, Finite, SumIsNat
<1>9. SumOver(Held', Players) = SumOver(Held, Players) + SumOver(h, Players)
  BY <1>1, <1>5, <1>6, HeldIs, Finite, SumPlus
<1>10. Cardinality(Players) * Opening \in Int /\ prized \in Nat /\ debt \in Int
  BY Finite, AmountsAssumption DEF TypeOK
<1> QED  BY <1>3, <1>7, <1>8, <1>9, <1>10, HeldIs DEF Accounted

LEMMA EntriesPaid ==
  ASSUME EntriesInv, NEW paid \in SUBSET Players, NEW g, \A p \in paid : g[p] \in Nat,
         balance' = [p \in Players |-> IF p \in paid THEN balance[p] + g[p] ELSE balance[p]],
         prized' = prized + SumOver(g, paid),
         UNCHANGED <<reg, attempt, charged, refunded, debt, fee, size, drawn>>,
         UNCHANGED <<seen, pending, marked, form, practice>>,
         settled' \in BOOLEAN,
         \/ status' = status /\ pc' = pc
         \/ /\ status = "IN_PROGRESS" /\ status' = "COMPLETED"
            /\ \E a \in Admins : pc[a] = "results" /\ pc' = [pc EXCEPT ![a] = "idle"]
  PROVE  EntriesInv'
<1>1. TypeOK /\ Careful' = Careful /\ Accounted
  BY DEF EntriesInv, EntriesTables, Careful
<1>2. balance' \in [Players -> Int] /\ prized' \in Nat /\ Accounted'
  BY <1>1, PrizesAccounted
<1>3. EntriesTables'
  BY <1>2 DEF EntriesInv, EntriesTables, TypeOK, TournamentStatus
<1>4. Live' = Live /\ Charges' = Charges /\ Refundable(Charges)' = Refundable(Charges)
  BY DEF Live, Charges, Refundable
<1>5. (\A p \in Players : Numbered(p)') /\ LivePlaceIsPaid'
  BY <1>4 DEF EntriesInv, Numbered, LivePlaceIsPaid
<1>6. (\A b \in Admins : CancelFits(b)') /\ RefundsApart'
  BY <1>1, <1>4 DEF EntriesInv, CancelFits, RefundsApart, TypeOK
<1>7. ASSUME Careful PROVE OneAtATime' /\ \A b \in Admins : ReadStillHolds(b)'
  <2>1. CASE pc' = pc /\ status' = status
    BY <1>4, <1>7, <2>1 DEF EntriesInv, OneAtATime, ReadStillHolds
  <2>2. CASE \E a \in Admins : pc[a] = "results" /\ pc' = [pc EXCEPT ![a] = "idle"]
    <3>1. \A b \in Admins : pc[b] \in {"idle", "results"} /\ pc'[b] \in {"idle", "results"}
      BY <1>1, <1>7, <2>2 DEF EntriesInv, OneAtATime, TypeOK
    <3> QED  BY <3>1 DEF OneAtATime, ReadStillHolds
  <2> QED  BY <2>1, <2>2
<1>8. FeesFollowPlaces' /\ NoOverbooking'
  BY <1>1, <1>4 DEF EntriesInv, FeesFollowPlaces, NoOverbooking
<1> QED  BY <1>1, <1>2, <1>3, <1>5, <1>6, <1>7, <1>8 DEF EntriesInv

Credited == {p \in Players : award[p] = "CREDITED"}

LEMMA CreditsGrow ==
  ASSUME prize \in [Players -> 0 .. Pool], prize' \in [Players -> 0 .. Pool],
         NEW paid \in SUBSET Players, NEW g, \A p \in paid : prize'[p] = g[p],
         Credited' = Credited \cup paid, Credited \cap paid = {},
         \A p \in Credited : prize'[p] = prize[p]
  PROVE  SumOver(prize', Credited') = SumOver(prize, Credited) + SumOver(g, paid)
<1> DEFINE C == Credited
           f == prize'
<1>1. f \in [Players -> Int] /\ C \in SUBSET Players
  BY PoolAssumption DEF Credited
<1>2. IsFiniteSet(C) /\ IsFiniteSet(paid)
  BY <1>1, Finite, FS_Subset
<1>3. C \cap paid = {} /\ Credited' = C \cup paid
  OBVIOUS
<1>4. SumOver(f, C) = SumOver(prize, C)
  <2>1. \A p \in C : f[p] = prize[p]
    OBVIOUS
  <2> HIDE DEF C, f
  <2> QED  BY <1>2, <2>1, SumSame
<1>5. SumOver(f, paid) = SumOver(g, paid)
  <2>1. \A p \in paid : f[p] = g[p]
    OBVIOUS
  <2> HIDE DEF f
  <2> QED  BY <1>2, <2>1, SumSame
<1>6. SumOver(f, C \cup paid) = SumOver(f, C) + SumOver(f, paid)
  <2> HIDE DEF C, f
  <2> QED  BY <1>1, <1>3, Finite, SumSplit
<1> QED  BY <1>3, <1>4, <1>5, <1>6
-----------------------------------------------------------------------------
(* What the other handlers do to a tournament with results.  In careful      *)
(* hands a completed tournament stays so, and with it who took part.         *)
LEMMA CompletedStays ==
  ASSUME EntriesInv, Careful, EntriesNext \/ \E p \in Players : Disqualify(p), status = "COMPLETED"
  PROVE  /\ status' = "COMPLETED" \/ (status' = "GONE" /\ ~settled)
         /\ status' = "COMPLETED" =>
              /\ refunded' = refunded /\ attempt' = attempt
              /\ \A p \in Players : reg[p] \in {"REGISTERED", "DISQUALIFIED"}
                                    => reg'[p] \in {"REGISTERED", "DISQUALIFIED"}
<1>1. ASSUME NEW p \in Players PROVE ~Register(p) /\ ~Withdraw(p)
  BY DEF Register, Registrable, Withdraw, Removable
<1>2. ~Settle
  BY DEF Settle
<1>3. ASSUME NEW a \in Admins
      PROVE  ~CancelCommit(a) /\ ~StartBracket(a) /\ ~StartUnstartable(a)
  BY DEF EntriesInv, ReadStillHolds, CancelCommit, StartBracket, StartUnstartable, Startable
<1>4. ASSUME NEW a \in Admins, EditWrite(a)
      PROVE  status' = "COMPLETED" /\ refunded' = refunded /\ attempt' = attempt /\ reg' = reg
  BY <1>4 DEF EditWrite, EntriesInv, ReadStillHolds, regVars, moneyVars
<1>5. ASSUME NEW a \in Admins, CancelReadFees(a) \/ CancelRefundFees(a) \/ CancelAbort(a) \/ EditRead(a) \/ EditAbort(a)
      PROVE  status' = "COMPLETED" /\ refunded' = refunded /\ attempt' = attempt /\ reg' = reg
  BY <1>5 DEF CancelReadFees, CancelRefundFees, CancelAbort, EditRead, EditAbort, tableVars, regVars, moneyVars
<1>6. ASSUME NEW p \in Players, Chargeback(p)
      PROVE  status' = "COMPLETED" /\ refunded' = refunded /\ attempt' = attempt /\ reg' = reg
  BY <1>6 DEF Chargeback, tableVars, regVars
<1>7. ASSUME NEW p \in Players, Disqualify(p)
      PROVE  /\ status' = "COMPLETED" /\ refunded' = refunded /\ attempt' = attempt
             /\ reg' = [reg EXCEPT ![p] = "DISQUALIFIED"]
  BY <1>7 DEF Disqualify, tableVars, moneyVars
<1>8. Remove => status' = "GONE" /\ ~settled
  BY DEF Remove
<1>9. reg \in [Players -> {"NONE", "REGISTERED", "WITHDRAWN", "DISQUALIFIED"}]
  BY DEF EntriesInv, EntriesTables, TypeOK
<1> QED  BY <1>1, <1>2, <1>3, <1>4, <1>5, <1>6, <1>7, <1>8, <1>9 DEF EntriesNext

(* Nobody else acts beside a call that submits results, and no other handler *)
(* begins or ends one.                                                       *)
LEMMA ResultsAlone ==
  ASSUME EntriesInv, Careful, EntriesNext \/ \E p \in Players : Disqualify(p), NEW a \in Admins
  PROVE  pc[a] # "results" /\ pc'[a] # "results"
<1>1. pc \in [Admins -> {"idle", "read", "marked", "form", "start", "results"}]
  BY DEF EntriesInv, EntriesTables, TypeOK
<1>2. pc[a] = "results" => \A b \in Admins : pc[b] \in {"idle", "results"}
  BY <1>1 DEF EntriesInv, OneAtATime
<1>3. (\E p \in Players : Register(p) \/ Withdraw(p) \/ Chargeback(p) \/ Disqualify(p)) \/ Settle \/ Remove
      => pc' = pc /\ pc[a] = "idle"
  BY DEF Register, Withdraw, Chargeback, Disqualify, Settle, Remove, Undisturbed, callVars
<1>4. ASSUME NEW b \in Admins, CancelReadFees(b) \/ EditRead(b)
      PROVE  pc[a] # "results" /\ pc'[a] # "results"
  BY <1>1, <1>4 DEF CancelReadFees, EditRead, Alone
<1>5. ASSUME NEW b \in Admins,
             \/ CancelRefundFees(b) \/ CancelCommit(b) \/ CancelAbort(b)
             \/ EditWrite(b) \/ EditAbort(b) \/ StartBracket(b) \/ StartUnstartable(b)
      PROVE  pc[a] # "results" /\ pc'[a] # "results"
  <2>1. /\ pc[b] \in {"read", "marked", "form", "start"}
        /\ \E to \in {"marked", "idle", "start"} : pc' = [pc EXCEPT ![b] = to]
    BY <1>5
    DEF CancelRefundFees, CancelCommit, CancelAbort, EndCancel, EditWrite, EditAbort, StartBracket,
        StartUnstartable
  <2> QED  BY <1>1, <1>2, <2>1
<1> QED  BY <1>3, <1>4, <1>5 DEF EntriesNext

LEMMA SettledStays ==
  ASSUME EntriesInv, EntriesNext \/ \E p \in Players : Disqualify(p)
  PROVE  (settled => settled') /\ prized' = prized
<1>1. settled' = settled \/ settled' = TRUE
  BY DEF EntriesNext, Register, Withdraw, Chargeback, Disqualify, Settle, Remove, CancelReadFees, CancelRefundFees,
     CancelCommit, CancelAbort, EditRead, EditWrite, EditAbort, StartBracket, StartUnstartable, tableVars
<1>2. prized' = prized
  BY DEF EntriesNext, Register, Withdraw, Chargeback, Disqualify, Settle, Remove, CancelReadFees, CancelRefundFees,
     CancelCommit, CancelAbort, EditRead, EditWrite, EditAbort, StartBracket, StartUnstartable, moneyVars
<1>3. settled \in BOOLEAN
  BY DEF EntriesInv, EntriesTables, TypeOK
<1> QED  BY <1>1, <1>2, <1>3

(* EntriesNext and Disqualify beside results: awards keep their amounts and  *)
(* are reversed at most, placements go with the registrations.               *)
LEMMA BesideResults ==
  ASSUME ResultsInv, EntriesNext \/ \E p \in Players : Disqualify(p),
         sheet' = sheet, prize' = prize,
         award' \in [Players -> {"NONE", "HELD", "CREDITED", "REVERSED"}],
         \A p \in Players : award'[p] = award[p] \/ (award[p] = "HELD" /\ award'[p] = "REVERSED"),
         placement' = placement \/ placement' = [p \in Players |-> 0],
         status' = "GONE" => placement' = [p \in Players |-> 0] \/ status = "GONE"
  PROVE  /\ EntriesInv' /\ OneSheetDecides' /\ (Awarded' # {} => settled')
         /\ Careful' => NothingAwarded' /\ \A a \in Admins : SheetFits(a)'
         /\ Credited' = Credited /\ prized' = prized
         /\ \A a \in Admins : pc'[a] = "results" => pc[a] = "results"
<1>1. EntriesInv' /\ EntriesInv
  BY EntriesStep DEF ResultsInv
<1>2. Awarded' = Awarded /\ Credited' = Credited
  BY DEF Awarded, Credited, ResultsInv, ResultsTables
<1>3. (settled => settled') /\ prized' = prized
  BY <1>1, SettledStays
<1>4. Careful' = Careful
  BY DEF EntriesNext, Register, Withdraw, Chargeback, Disqualify, Settle, Remove, CancelReadFees, CancelRefundFees,
     CancelCommit, CancelAbort, EndCancel, EditRead, EditWrite, EditAbort, StartBracket, StartUnstartable, Careful
<1>5. ASSUME Careful PROVE NothingAwarded'
  <2>1. status = "COMPLETED" => status' = "COMPLETED" \/ (status' = "GONE" /\ ~settled)
    BY <1>1, <1>5, CompletedStays
  <2>2. CASE status # "COMPLETED"
    BY <1>5, <2>2 DEF ResultsInv, ResultsTables, NothingAwarded
  <2>3. CASE status' = "GONE" /\ ~settled /\ status = "COMPLETED"
    <3>1. \A p \in Players : award[p] = "NONE"
      BY <2>3 DEF ResultsInv, Awarded
    <3> QED  BY <2>3, <3>1 DEF NothingAwarded
  <2> QED  BY <2>1, <2>2, <2>3 DEF NothingAwarded
<1>6. ASSUME Careful PROVE \A a \in Admins : SheetFits(a)'
  BY <1>1, <1>6, ResultsAlone DEF SheetFits
<1>7. ASSUME Careful PROVE OneSheetDecides'
  <2>1. OneSheetDecides
    BY DEF ResultsInv
  <2>2. \A p, q \in Players : placement'[p] = placement'[q] /\ placement'[p] # 0 => p = q
    BY <1>7, <2>1 DEF OneSheetDecides
  <2>3. SumOver(prize', Awarded') <= Pool
    BY <1>2, <1>7, <2>1 DEF OneSheetDecides
  <2>4. ASSUME NEW p \in Awarded
        PROVE  status' = "COMPLETED" /\ reg'[p] \in {"REGISTERED", "DISQUALIFIED"} /\ attempt'[p] \notin refunded'[p]
    <3>1. /\ status = "COMPLETED" /\ reg[p] \in {"REGISTERED", "DISQUALIFIED"} /\ attempt[p] \notin refunded[p]
          /\ p \in Players /\ settled
      BY <1>7, <2>1, <2>4 DEF OneSheetDecides, Awarded, ResultsInv
    <3> QED  BY <1>1, <1>7, <3>1, CompletedStays
  <2> QED  BY <1>2, <2>2, <2>3, <2>4 DEF OneSheetDecides
<1>8. \A a \in Admins : pc'[a] = "results" => pc[a] = "results"
  <2>1. pc \in [Admins -> {"idle", "read", "marked", "form", "start", "results"}]
    BY <1>1 DEF EntriesInv, EntriesTables, TypeOK
  <2>2. \/ pc' = pc
        \/ \E b \in Admins : \E to \in {"read", "marked", "idle", "form", "start"} : pc' = [pc EXCEPT ![b] = to]
    BY DEF EntriesNext, Register, Withdraw, Chargeback, Disqualify, Settle, Remove, CancelReadFees, CancelRefundFees,
     CancelCommit, CancelAbort, EndCancel, EditRead, EditWrite, EditAbort, StartBracket, StartUnstartable, callVars
  <2> QED  BY <2>1, <2>2
<1> QED  BY <1>1, <1>2, <1>3, <1>4, <1>5, <1>6, <1>7, <1>8 DEF OneSheetDecides, ResultsInv
-----------------------------------------------------------------------------
(* The steps of module Results.                                              *)
LEMMA HandlersStep ==
  ASSUME ResultsInv, EntriesNext /\ KeepPlaces /\ UNCHANGED <<sheet, award, prize, case>>
  PROVE  ResultsInv'
<1>1. /\ \/ placement' = placement /\ prizeWon' = prizeWon
         \/ placement' = [p \in Players |-> 0] /\ prizeWon' = [p \in Players |-> 0]
      /\ status' = "GONE" => placement' = [p \in Players |-> 0] \/ status = "GONE"
  BY DEF KeepPlaces, Present
<1>2. /\ EntriesInv' /\ OneSheetDecides' /\ (Awarded' # {} => settled')
      /\ Careful' => NothingAwarded' /\ \A a \in Admins : SheetFits(a)'
      /\ Credited' = Credited /\ prized' = prized
      /\ \A a \in Admins : pc'[a] = "results" => pc[a] = "results"
  <2>1. award' \in [Players -> {"NONE", "HELD", "CREDITED", "REVERSED"}]
    BY DEF ResultsInv, ResultsTables
  <2> QED  BY <1>1, <2>1, BesideResults
<1>3. ResultsTables'
  <2>1. 0 \in 0 .. Cardinality(Players) /\ 0 \in 0 .. Pool
    BY Finite, PoolAssumption
  <2> QED  BY <1>1, <1>2, <2>1 DEF ResultsInv, ResultsTables
<1>4. AwardsTellTheWallets'
  BY <1>1, <1>2 DEF ResultsInv, AwardsTellTheWallets, Credited
<1>5. HeldForACase'
  BY DEF ResultsInv, HeldForACase
<1> QED  BY <1>2, <1>3, <1>4, <1>5 DEF ResultsInv

(* disqualifyPlayer.                                                         *)
LEMMA TakeStep ==
  ASSUME ResultsInv, NEW p \in Players, Disqualify(p), TakeAwards(p) PROVE ResultsInv'
<1>1. /\ award' = [award EXCEPT ![p] = IF @ = "HELD" THEN "REVERSED" ELSE @]
      /\ prizeWon' = [prizeWon EXCEPT ![p] = 0] /\ UNCHANGED <<sheet, placement, prize>>
      /\ status' = status /\ status # "GONE"
      /\ \/ case' = case
         \/ \E c \in Cases \ Elsewhere : case[c] = <<p, "OPEN">> /\ case' = [case EXCEPT ![c][2] = "DISQUALIFIED"]
  BY DEF TakeAwards, Disqualify, tableVars
<1>2. /\ award \in [Players -> {"NONE", "HELD", "CREDITED", "REVERSED"}]
      /\ case \in [Cases -> {Nothing} \cup (Players \X {"OPEN", "CLEARED", "DISQUALIFIED"})]
  BY DEF ResultsInv, ResultsTables
<1>3. /\ award' \in [Players -> {"NONE", "HELD", "CREDITED", "REVERSED"}] /\ award'[p] # "HELD"
      /\ \A q \in Players : award'[q] = award[q] \/ (award[q] = "HELD" /\ award'[q] = "REVERSED")
      /\ \A q \in Players \ {p} : award'[q] = award[q]
  BY <1>1, <1>2
<1>4. /\ EntriesInv' /\ OneSheetDecides' /\ (Awarded' # {} => settled')
      /\ Careful' => NothingAwarded' /\ \A a \in Admins : SheetFits(a)'
      /\ Credited' = Credited /\ prized' = prized
      /\ \A a \in Admins : pc'[a] = "results" => pc[a] = "results"
  BY <1>1, <1>3, BesideResults
<1>5. ASSUME NEW c \in Cases
      PROVE  /\ case'[c] = case[c] \/ (case[c] = <<p, "OPEN">> /\ c \notin Elsewhere /\ case'[c] = <<p, "DISQUALIFIED">>)
             /\ case'[c] \in {Nothing} \cup (Players \X {"OPEN", "CLEARED", "DISQUALIFIED"})
  BY <1>1, <1>2
<1>6. ResultsTables'
  <2>1. case' \in [Cases -> {Nothing} \cup (Players \X {"OPEN", "CLEARED", "DISQUALIFIED"})]
    <3>1. case' = [c \in Cases |-> case'[c]]
      BY <1>1, <1>2
    <3> QED  BY <1>5, <3>1
  <2>2. prizeWon' \in [Players -> 0 .. Pool]
    BY <1>1, PoolAssumption DEF ResultsInv, ResultsTables
  <2> QED  BY <1>1, <1>3, <1>4, <2>1, <2>2 DEF ResultsInv, ResultsTables
<1>7. AwardsTellTheWallets'
  <2>1. prized' = SumOver(prize', Credited')
    BY <1>1, <1>4 DEF ResultsInv, AwardsTellTheWallets, Credited
  <2>2. ASSUME NEW q \in Players, prizeWon'[q] # 0
        PROVE  award'[q] \in {"HELD", "CREDITED"} /\ prizeWon'[q] = prize'[q]
    <3>1. q # p /\ prizeWon'[q] = prizeWon[q]
      BY <1>1, <2>2 DEF ResultsInv, ResultsTables
    <3> QED  BY <1>1, <1>3, <2>2, <3>1 DEF ResultsInv, AwardsTellTheWallets
  <2> QED  BY <2>1, <2>2 DEF AwardsTellTheWallets, Credited
<1>8. HeldForACase'
  <2>1. ASSUME NEW q \in Players, award'[q] = "HELD"
        PROVE  \E c \in Cases : /\ case'[c] # Nothing /\ case'[c][1] = q
                                /\ case'[c][2] = "OPEN" \/ c \in Elsewhere
    <3>1. q # p /\ award[q] = "HELD"
      BY <1>3, <2>1
    <3>2. PICK c \in Cases : /\ case[c] # Nothing /\ case[c][1] = q
                             /\ case[c][2] = "OPEN" \/ c \in Elsewhere
      BY <3>1 DEF ResultsInv, HeldForACase
    <3>3. case'[c] = case[c]
      BY <1>5, <3>1, <3>2
    <3> QED  BY <3>2, <3>3
  <2> QED  BY <2>1 DEF HeldForACase
<1> QED  BY <1>4, <1>6, <1>7, <1>8 DEF ResultsInv

LEMMA FileCaseStep ==
  ASSUME ResultsInv, NEW c \in Cases, NEW p \in Players, FileCase(c, p) PROVE ResultsInv'
<1>1. /\ case' = [case EXCEPT ![c] = <<p, "OPEN">>] /\ case[c] = Nothing
      /\ UNCHANGED vars /\ UNCHANGED <<sheet, placement, prizeWon, award, prize>>
  BY DEF FileCase
<1>2. /\ UNCHANGED <<status, settled, reg, attempt, refunded, prized, pc, practice>>
  BY <1>1 DEF vars, tableVars, regVars, moneyVars, callVars
<1>3. EntriesInv'
  BY <1>1, EntriesRest DEF ResultsInv
<1>4. ResultsTables'
  BY <1>1, <1>2 DEF ResultsInv, ResultsTables
<1>5. HeldForACase'
  <2>1. \A d \in Cases : case[d] # Nothing => case'[d] = case[d]
    BY <1>1 DEF ResultsInv, ResultsTables
  <2> QED  BY <1>1, <2>1 DEF ResultsInv, HeldForACase
<1>6. AwardsTellTheWallets' /\ OneSheetDecides' /\ Awarded' = Awarded
  BY <1>1, <1>2 DEF ResultsInv, AwardsTellTheWallets, OneSheetDecides, Awarded, Careful
<1>7. Careful' => NothingAwarded' /\ \A a \in Admins : SheetFits(a)'
  BY <1>1, <1>2 DEF ResultsInv, NothingAwarded, SheetFits, Careful
<1> QED  BY <1>2, <1>3, <1>4, <1>5, <1>6, <1>7 DEF ResultsInv
LEMMA ReadResultsStep ==
  ASSUME ResultsInv, NEW a \in Admins, ReadResults(a) PROVE ResultsInv'
<1>1. /\ UNCHANGED <<tableVars, regVars, moneyVars, seen, pending, marked, form, practice>>
      /\ UNCHANGED <<placement, prizeWon, award, prize, case>>
      /\ pc[a] = "idle" /\ pc' = [pc EXCEPT ![a] = "results"]
      /\ Careful => \A b \in Admins : pc[b] \in {"idle", "results"}
  BY DEF ReadResults
<1>2. PICK r \in Sheets(Live) : sheet' = [sheet EXCEPT ![a] = r]
  BY DEF ReadResults
<1>3. UNCHANGED <<status, settled, reg, attempt, refunded, prized, practice>>
  BY <1>1 DEF tableVars, regVars, moneyVars
<1>4. EntriesInv'
  BY <1>1, CallMoves DEF ResultsInv
<1>5. r \in Sheets(Players) /\ DOMAIN r \subseteq Live
  BY SheetIs DEF Live
<1>6. pc \in [Admins -> {"idle", "read", "marked", "form", "start", "results"}]
  BY DEF ResultsInv, EntriesInv, EntriesTables, TypeOK
<1>7. ResultsTables'
  BY <1>1, <1>2, <1>5, <1>6 DEF ResultsInv, ResultsTables
<1>8. HeldForACase' /\ AwardsTellTheWallets' /\ OneSheetDecides' /\ Awarded' = Awarded
  BY <1>1, <1>3 DEF ResultsInv, HeldForACase, AwardsTellTheWallets, OneSheetDecides, Awarded, Careful
<1>9. Careful' => NothingAwarded' /\ \A b \in Admins : SheetFits(b)'
  <2>1. Careful' => NothingAwarded'
    BY <1>1, <1>3 DEF ResultsInv, NothingAwarded, Careful
  <2>2. ASSUME Careful, NEW b \in Admins PROVE SheetFits(b)'
    <3>1. CASE b = a
      <4>1. sheet'[a] = r /\ reg' = reg
        BY <1>2, <1>3 DEF ResultsInv, ResultsTables
      <4> QED  BY <1>5, <3>1, <4>1 DEF SheetFits, Live
    <3>2. CASE b # a
      BY <1>1, <1>2, <1>3, <1>6, <2>2, <3>2 DEF ResultsInv, ResultsTables, SheetFits
    <3> QED  BY <3>1, <3>2
  <2> QED  BY <1>3, <2>1, <2>2 DEF Careful
<1> QED  BY <1>3, <1>4, <1>7, <1>8, <1>9 DEF ResultsInv

LEMMA AbortResultsStep ==
  ASSUME ResultsInv, NEW a \in Admins, AbortResults(a) PROVE ResultsInv'
<1>1. /\ UNCHANGED <<tableVars, regVars, moneyVars, seen, pending, marked, form, practice>>
      /\ UNCHANGED <<placement, prizeWon, award, prize, case>>
      /\ pc[a] = "results" /\ pc' = [pc EXCEPT ![a] = "idle"] /\ sheet' = [sheet EXCEPT ![a] = Nothing]
  BY DEF AbortResults, EndSubmit
<1>2. UNCHANGED <<status, settled, reg, attempt, refunded, prized, practice>>
  BY <1>1 DEF tableVars, regVars, moneyVars
<1>3. EntriesInv'
  BY <1>1, CallMoves DEF ResultsInv
<1>4. pc \in [Admins -> {"idle", "read", "marked", "form", "start", "results"}]
  BY DEF ResultsInv, EntriesInv, EntriesTables, TypeOK
<1>5. ResultsTables'
  BY <1>1, <1>4 DEF ResultsInv, ResultsTables
<1>6. HeldForACase' /\ AwardsTellTheWallets' /\ OneSheetDecides' /\ Awarded' = Awarded
  BY <1>1, <1>2 DEF ResultsInv, HeldForACase, AwardsTellTheWallets, OneSheetDecides, Awarded, Careful
<1>7. Careful' => NothingAwarded' /\ \A b \in Admins : SheetFits(b)'
  BY <1>1, <1>2, <1>4 DEF ResultsInv, ResultsTables, NothingAwarded, SheetFits, Careful
<1> QED  BY <1>2, <1>3, <1>5, <1>6, <1>7 DEF ResultsInv

(* A sheet is applied: prizes go to wallets or are held, and the tournament  *)
(* is over.                                                                  *)
LEMMA SubmitStep ==
  ASSUME ResultsInv, NEW a \in Admins, SubmitResults(a) PROVE ResultsInv'
<1> DEFINE r       == sheet[a]
           winners == {p \in DOMAIN r : r[p].prize > 0}
           held    == {p \in winners : Accused(p)}
           paid    == winners \ held
           g       == Prizes(r)
<1>1. /\ pc[a] = "results" /\ status = "IN_PROGRESS" /\ status' = "COMPLETED"
      /\ pc' = [pc EXCEPT ![a] = "idle"] /\ sheet' = [sheet EXCEPT ![a] = Nothing]
      /\ UNCHANGED <<seen, pending, marked, form, practice>>
      /\ UNCHANGED <<fee, size, drawn, reg, attempt, charged, refunded, debt, case>>
  BY DEF SubmitResults, EndSubmit, StillInProgress, regVars
<1>2. /\ \A p \in winners : award[p] = "NONE"
      /\ placement' = [p \in Players |-> IF p \in DOMAIN r THEN [q \in DOMAIN r |-> r[q].place][p] ELSE placement[p]]
      /\ prizeWon' = [p \in Players |-> IF p \in DOMAIN r THEN [q \in DOMAIN r |-> r[q].prize][p] ELSE prizeWon[p]]
      /\ award' = [p \in Players |-> IF p \in held THEN "HELD" ELSE IF p \in paid THEN "CREDITED" ELSE award[p]]
      /\ prize' = [p \in Players |-> IF p \in winners THEN r[p].prize ELSE prize[p]]
      /\ balance' = [p \in Players |-> IF p \in paid THEN balance[p] + r[p].prize ELSE balance[p]]
      /\ prized' = prized + SumOver(Prizes(r), paid)
      /\ settled' = (settled \/ winners # {})
  BY DEF SubmitResults
<1>3. /\ r \in Sheets(Players) /\ DOMAIN r \subseteq Players
      /\ \A p \in DOMAIN r : r[p].place \in 1 .. Cardinality(Players) /\ r[p].prize \in 0 .. Pool
      /\ \A p, q \in DOMAIN r : r[p].place = r[q].place => p = q
      /\ Total(r) <= Pool /\ g \in [DOMAIN r -> Nat] /\ \A p \in DOMAIN r : g[p] = r[p].prize
  <2>1. r \in Sheets(Players)
    BY <1>1 DEF ResultsInv, ResultsTables
  <2> HIDE DEF r
  <2> QED  BY <2>1, SheetIs DEF Prizes
<1>4. /\ placement \in [Players -> 0 .. Cardinality(Players)]
      /\ prizeWon  \in [Players -> 0 .. Pool]
      /\ award     \in [Players -> {"NONE", "HELD", "CREDITED", "REVERSED"}]
      /\ prize     \in [Players -> 0 .. Pool]
      /\ case      \in [Cases -> {Nothing} \cup (Players \X {"OPEN", "CLEARED", "DISQUALIFIED"})]
      /\ sheet \in [Admins -> {Nothing} \cup Sheets(Players)]
      /\ pc \in [Admins -> {"idle", "read", "marked", "form", "start", "results"}]
      /\ settled \in BOOLEAN /\ EntriesInv /\ Careful' = Careful
  BY <1>1 DEF ResultsInv, ResultsTables, EntriesInv, EntriesTables, TypeOK, Careful
<1>5. winners \subseteq DOMAIN r /\ held \subseteq winners /\ paid \subseteq winners /\ held \cap paid = {}
      /\ winners = held \cup paid /\ (\A p \in DOMAIN r \ winners : r[p].prize = 0)
  BY <1>3, PoolAssumption
<1>6. (\A p \in held : Accused(p))
  OBVIOUS
<1> HIDE DEF winners, held, paid, r, g
<1>7. /\ \A p \in DOMAIN r : placement'[p] = r[p].place /\ prizeWon'[p] = r[p].prize
      /\ \A p \in Players \ DOMAIN r : placement'[p] = placement[p] /\ prizeWon'[p] = prizeWon[p]
      /\ \A p \in winners : prize'[p] = r[p].prize
      /\ \A p \in Players \ winners : prize'[p] = prize[p] /\ award'[p] = award[p]
      /\ \A p \in held : award'[p] = "HELD"
      /\ \A p \in paid : award'[p] = "CREDITED"
  BY <1>2, <1>3, <1>4, <1>5
<1>8. EntriesInv'
  <2>1. paid \in SUBSET Players /\ (\A p \in paid : g[p] \in Nat)
    BY <1>3, <1>5
  <2>2. balance' = [p \in Players |-> IF p \in paid THEN balance[p] + g[p] ELSE balance[p]]
    BY <1>2, <1>3, <1>5
  <2>3. prized' = prized + SumOver(g, paid)
    BY <1>2 DEF g
  <2>4. settled' \in BOOLEAN
    BY <1>2
  <2> QED  BY <1>1, <1>4, <2>1, <2>2, <2>3, <2>4, EntriesPaid
<1>9. ResultsTables'
  <2>1. placement' \in [Players -> 0 .. Cardinality(Players)]
    <3>1. placement' = [p \in Players |-> placement'[p]]
      BY <1>2
    <3>2. ASSUME NEW p \in Players PROVE placement'[p] \in 0 .. Cardinality(Players)
      BY <1>3, <1>4, <1>7, Finite
    <3> QED  BY <3>1, <3>2
  <2>2. prizeWon' \in [Players -> 0 .. Pool]
    <3>1. prizeWon' = [p \in Players |-> prizeWon'[p]]
      BY <1>2
    <3>2. ASSUME NEW p \in Players PROVE prizeWon'[p] \in 0 .. Pool
      BY <1>3, <1>4, <1>7
    <3> QED  BY <3>1, <3>2
  <2>3. prize' \in [Players -> 0 .. Pool]
    BY <1>2, <1>3, <1>4, <1>5
  <2>4. award' \in [Players -> {"NONE", "HELD", "CREDITED", "REVERSED"}]
    BY <1>2, <1>4
  <2> QED  BY <1>1, <1>4, <2>1, <2>2, <2>3, <2>4 DEF ResultsInv, ResultsTables
<1>10. AwardsTellTheWallets'
  <2>1. Credited' = Credited \cup paid /\ Credited \cap paid = {}
    BY <1>2, <1>3, <1>4, <1>5, <1>7 DEF Credited
  <2>2. (\A p \in paid : prize'[p] = g[p]) /\ (\A p \in Credited : prize'[p] = prize[p])
    BY <1>2, <1>3, <1>5, <1>7 DEF Credited
  <2>3. SumOver(prize', Credited') = SumOver(prize, Credited) + SumOver(g, paid)
    BY <1>3, <1>4, <1>5, <1>9, <2>1, <2>2, CreditsGrow DEF ResultsTables
  <2>4. prized' = SumOver(prize', Credited')
    BY <1>2, <2>3 DEF ResultsInv, AwardsTellTheWallets, Credited, g
  <2>5. ASSUME NEW p \in Players, prizeWon'[p] # 0
        PROVE  award'[p] \in {"HELD", "CREDITED"} /\ prizeWon'[p] = prize'[p]
    <3>1. CASE p \in DOMAIN r
      <4>1. p \in winners
        BY <1>5, <1>7, <2>5, <3>1
      <4> QED  BY <1>5, <1>7, <3>1, <4>1
    <3>2. CASE p \notin DOMAIN r
      BY <1>5, <1>7, <2>5, <3>2 DEF ResultsInv, AwardsTellTheWallets
    <3> QED  BY <3>1, <3>2
  <2> QED  BY <2>4, <2>5 DEF AwardsTellTheWallets, Credited
<1>11. HeldForACase'
  <2>1. ASSUME NEW p \in Players, award'[p] = "HELD"
        PROVE  \E c \in Cases : /\ case[c] # Nothing /\ case[c][1] = p
                                /\ case[c][2] = "OPEN" \/ c \in Elsewhere
    <3>1. CASE p \in held
      <4>1. PICK c \in Cases : case[c] = <<p, "OPEN">>
        BY <1>6, <3>1 DEF Accused
      <4>2. <<p, "OPEN">> # Nothing
        BY SomeCase
      <4>3. case[c] # Nothing /\ case[c][1] = p /\ case[c][2] = "OPEN"
        BY <4>1, <4>2
      <4> QED  BY <4>3
    <3>2. CASE p \notin held
      <4>1. award[p] = "HELD"
        BY <1>5, <1>7, <2>1, <3>2
      <4> QED  BY <4>1 DEF ResultsInv, HeldForACase
    <3> QED  BY <3>1, <3>2
  <2> QED  BY <1>1, <2>1 DEF HeldForACase
<1>12. Careful' => NothingAwarded' /\ \A b \in Admins : SheetFits(b)'
  BY <1>1, <1>4 DEF ResultsInv, NothingAwarded, SheetFits
<1>13. Awarded' # {} => settled'
  <2>1. Awarded' # {} => Awarded # {} \/ winners # {}
    BY <1>5, <1>7 DEF Awarded
  <2> QED  BY <1>2, <1>4, <2>1 DEF ResultsInv
<1>14. OneSheetDecides'
  <2>1. SUFFICES ASSUME Careful PROVE OneSheetDecides'
    BY <1>4 DEF OneSheetDecides
  <2>2. \A p \in Players : placement[p] = 0 /\ award[p] = "NONE"
    BY <1>1, <2>1 DEF ResultsInv, NothingAwarded
  <2>3. \A p, q \in Players : placement'[p] = placement'[q] /\ placement'[p] # 0 => p = q
    BY <1>3, <1>7, <2>2
  <2>4. Awarded' = winners
    BY <1>3, <1>5, <1>7, <2>2 DEF Awarded
  <2>5. SumOver(prize', winners) <= Pool
    <3>1. IsFiniteSet(DOMAIN r) /\ IsFiniteSet(winners)
      BY <1>3, <1>5, Finite, FS_Subset
    <3>2. \A p \in winners : prize'[p] = g[p]
      BY <1>3, <1>5, <1>7
    <3>3. SumOver(prize', winners) = SumOver(g, winners)
      BY <3>1, <3>2, SumSame
    <3>4. SumOver(g, winners) <= SumOver(g, DOMAIN r)
      BY <1>3, <1>5, <3>1, SumGrows
    <3>5. SumOver(g, DOMAIN r) \in Nat /\ SumOver(g, winners) \in Nat
      BY <1>3, <1>5, <3>1, SumIsNat
    <3>6. SumOver(g, DOMAIN r) <= Pool
      BY <1>3 DEF Total, g
    <3> QED  BY <3>3, <3>4, <3>5, <3>6, PoolAssumption
  <2>6. ASSUME NEW p \in winners
        PROVE  status' = "COMPLETED" /\ reg'[p] \in {"REGISTERED", "DISQUALIFIED"} /\ attempt'[p] \notin refunded'[p]
    <3>1. reg[p] = "REGISTERED" /\ p \in Players
      BY <1>1, <1>3, <1>5, <2>1, <2>6 DEF ResultsInv, SheetFits, r
    <3> QED  BY <1>1, <1>4, <3>1 DEF EntriesInv, LivePlaceIsPaid, Live
  <2> QED  BY <2>3, <2>4, <2>5, <2>6 DEF OneSheetDecides
<1> QED  BY <1>8, <1>9, <1>10, <1>11, <1>12, <1>13, <1>14 DEF ResultsInv
(* A verdict for the player: what is held for him is paid, unless another    *)
(* dispute of the tournament is open.                                        *)
LEMMA ClearStep ==
  ASSUME ResultsInv, NEW c \in Cases, Clear(c) PROVE ResultsInv'
<1> DEFINE p       == case[c][1]
           release == c \notin Elsewhere /\ ~StillOpen(c) /\ award[p] = "HELD"
<1>1. /\ Undisturbed /\ case[c] # Nothing /\ case[c][2] = "OPEN"
      /\ case' = [case EXCEPT ![c][2] = "CLEARED"]
      /\ UNCHANGED <<status, fee, size, settled, drawn, reg, attempt, charged, refunded, debt>>
      /\ UNCHANGED <<pc, seen, pending, marked, form, practice, sheet, placement, prize>>
      /\ Careful' = Careful
  BY DEF Clear, tableVars, regVars, callVars, Careful
<1>2. \/ /\ release /\ award' = [award EXCEPT ![p] = "CREDITED"]
         /\ balance' = [balance EXCEPT ![p] = @ + prize[p]] /\ prized' = prized + prize[p]
         /\ prizeWon' = [prizeWon EXCEPT ![p] = prize[p]]
      \/ ~release /\ UNCHANGED <<award, balance, prized, prizeWon>>
  BY DEF Clear
<1>3. /\ prizeWon \in [Players -> 0 .. Pool] /\ prize \in [Players -> 0 .. Pool]
      /\ award \in [Players -> {"NONE", "HELD", "CREDITED", "REVERSED"}]
      /\ case  \in [Cases -> {Nothing} \cup (Players \X {"OPEN", "CLEARED", "DISQUALIFIED"})]
      /\ TypeOK /\ EntriesInv
  BY DEF ResultsInv, ResultsTables, EntriesInv, EntriesTables
<1>4. p \in Players /\ case[c] = <<p, "OPEN">> /\ case'[c] = <<p, "CLEARED">>
      /\ \A d \in Cases \ {c} : case'[d] = case[d]
  BY <1>1, <1>3
<1>5. (release => ~ \E d \in Cases \ (Elsewhere \cup {c}) : case[d] = <<p, "OPEN">>)
      /\ (award[p] = "HELD" /\ ~release /\ c \notin Elsewhere
          => \E d \in Cases \ (Elsewhere \cup {c}) : case[d] = <<p, "OPEN">>)
  BY <1>4 DEF StillOpen
<1> HIDE DEF p, release
<1>6. EntriesInv'
  <2>1. CASE release
    <3> DEFINE paid == {p}
    <3>1. SumOver(prize, paid) = prize[p]
      <4>1. prize \in [Players -> Int] /\ prize[p] \in Int
        BY <1>3, <1>4, PoolAssumption
      <4>2. paid \in SUBSET Players /\ p \in paid /\ paid \ {p} = {}
        BY <1>4
      <4> HIDE DEF paid
      <4>3. SumOver(prize, paid) = prize[p] + SumOver(prize, paid \ {p})
        BY <4>1, <4>2, Finite, SumTake
      <4>4. SumOver(prize, {}) = 0
        BY SumEmpty, Zenon
      <4>5. SumOver(prize, paid \ {p}) = 0
        BY <4>2, <4>4, Zenon
      <4> QED  BY <4>1, <4>3, <4>5
    <3>2. paid \in SUBSET Players /\ (\A q \in paid : prize[q] \in Nat)
      BY <1>3, <1>4, PoolAssumption
    <3>3. balance' = [q \in Players |-> IF q \in paid THEN balance[q] + prize[q] ELSE balance[q]]
      BY <1>2, <1>3, <2>1 DEF TypeOK
    <3>4. prized' = prized + SumOver(prize, paid)
      BY <1>2, <2>1, <3>1
    <3>5. settled' \in BOOLEAN
      BY <1>1, <1>3 DEF TypeOK
    <3> HIDE DEF paid
    <3> QED  BY <1>1, <1>3, <3>2, <3>3, <3>4, <3>5, EntriesPaid
  <2>2. CASE ~release
    <3>1. UNCHANGED vars
      BY <1>1, <1>2, <2>2 DEF vars, tableVars, regVars, moneyVars, callVars
    <3> QED  BY <1>3, <3>1, EntriesRest
  <2> QED  BY <2>1, <2>2
<1>7. ResultsTables'
  <2>1. case' \in [Cases -> {Nothing} \cup (Players \X {"OPEN", "CLEARED", "DISQUALIFIED"})]
    <3>1. case' = [d \in Cases |-> case'[d]]
      BY <1>1, <1>3
    <3>2. ASSUME NEW d \in Cases PROVE case'[d] \in {Nothing} \cup (Players \X {"OPEN", "CLEARED", "DISQUALIFIED"})
      BY <1>3, <1>4
    <3> QED  BY <3>1, <3>2
  <2>2. prizeWon' \in [Players -> 0 .. Pool] /\ award' \in [Players -> {"NONE", "HELD", "CREDITED", "REVERSED"}]
    BY <1>2, <1>3, <1>4
  <2> QED  BY <1>1, <1>3, <2>1, <2>2 DEF ResultsInv, ResultsTables
<1>8. Awarded' = Awarded
  BY <1>2, <1>3, <1>4 DEF Awarded, release
<1>9. AwardsTellTheWallets'
  <2>1. CASE release
    <3> DEFINE paid == {p}
    <3>1. Credited' = Credited \cup paid /\ Credited \cap paid = {} /\ paid \in SUBSET Players
      BY <1>2, <1>3, <1>4, <2>1 DEF Credited, release
    <3>2. (\A q \in paid : prize'[q] = prize[q]) /\ (\A q \in Credited : prize'[q] = prize[q])
      BY <1>1
    <3>3. prize' \in [Players -> 0 .. Pool]
      BY <1>1, <1>3
    <3>4. SumOver(prize, paid) = prize[p]
      <4>1. prize \in [Players -> Int] /\ prize[p] \in Int
        BY <1>3, <1>4, PoolAssumption
      <4>2. p \in paid /\ paid \ {p} = {}
        OBVIOUS
      <4> HIDE DEF paid
      <4>3. SumOver(prize, paid) = prize[p] + SumOver(prize, paid \ {p})
        BY <3>1, <4>1, <4>2, Finite, SumTake
      <4>4. SumOver(prize, {}) = 0
        BY SumEmpty, Zenon
      <4>5. SumOver(prize, paid \ {p}) = 0
        BY <4>2, <4>4, Zenon
      <4> QED  BY <4>1, <4>3, <4>5
    <3> HIDE DEF paid
    <3>5. SumOver(prize', Credited') = SumOver(prize, Credited) + SumOver(prize, paid)
      BY <1>3, <3>1, <3>2, <3>3, CreditsGrow
    <3>6. prized' = SumOver(prize', Credited')
      BY <1>2, <2>1, <3>4, <3>5 DEF ResultsInv, AwardsTellTheWallets, Credited
    <3>7. ASSUME NEW q \in Players, prizeWon'[q] # 0
          PROVE  award'[q] \in {"HELD", "CREDITED"} /\ prizeWon'[q] = prize'[q]
      BY <1>1, <1>2, <1>3, <1>4, <2>1, <3>7 DEF ResultsInv, AwardsTellTheWallets
    <3> QED  BY <3>6, <3>7 DEF AwardsTellTheWallets, Credited
  <2>2. CASE ~release
    BY <1>1, <1>2, <2>2 DEF ResultsInv, AwardsTellTheWallets
  <2> QED  BY <2>1, <2>2
<1>10. HeldForACase'
  <2>1. ASSUME NEW q \in Players, award'[q] = "HELD"
        PROVE  \E d \in Cases : /\ case'[d] # Nothing /\ case'[d][1] = q
                                /\ case'[d][2] = "OPEN" \/ d \in Elsewhere
    <3>1. award[q] = "HELD" /\ (q = p => ~release)
      BY <1>2, <1>3, <1>4, <2>1
    <3>2. PICK d \in Cases : /\ case[d] # Nothing /\ case[d][1] = q
                             /\ case[d][2] = "OPEN" \/ d \in Elsewhere
      BY <3>1 DEF ResultsInv, HeldForACase
    <3>3. <<p, "CLEARED">> # Nothing /\ <<p, "OPEN">> # Nothing
      BY <1>4, SomeCase
    <3>4. CASE d # c
      BY <1>4, <3>2, <3>4
    <3>5. CASE d = c /\ c \in Elsewhere
      <4>1. q = p
        BY <1>4, <3>2, <3>5
      <4>2. case'[c] # Nothing /\ case'[c][1] = q
        BY <1>4, <3>3, <4>1
      <4> QED  BY <3>5, <4>2
    <3>6. CASE d = c /\ c \notin Elsewhere
      <4>1. q = p
        BY <1>4, <3>2, <3>6
      <4>2. PICK e \in Cases \ (Elsewhere \cup {c}) : case[e] = <<p, "OPEN">>
        BY <1>5, <3>1, <3>6, <4>1
      <4>3. case'[e] = <<p, "OPEN">>
        BY <1>4, <4>2
      <4>4. case'[e] # Nothing /\ case'[e][1] = q /\ case'[e][2] = "OPEN"
        BY <3>3, <4>1, <4>3
      <4> QED  BY <4>2, <4>4
    <3> QED  BY <3>4, <3>5, <3>6
  <2> QED  BY <2>1 DEF HeldForACase
<1>11. OneSheetDecides' /\ (Awarded' # {} => settled')
  BY <1>1, <1>8 DEF ResultsInv, OneSheetDecides
<1>12. Careful' => NothingAwarded' /\ \A b \in Admins : SheetFits(b)'
  BY <1>1, <1>2, <1>3, <1>4 DEF ResultsInv, NothingAwarded, SheetFits, release
<1> QED  BY <1>6, <1>7, <1>9, <1>10, <1>11, <1>12 DEF ResultsInv

LEMMA ResultsStep == ResultsInv /\ [ResultsNext]_<<vars, resultVars>> => ResultsInv'
<1> SUFFICES ASSUME ResultsInv, [ResultsNext]_<<vars, resultVars>> PROVE ResultsInv'
  OBVIOUS
<1>1. CASE UNCHANGED <<vars, resultVars>>
  <2>1. UNCHANGED <<sheet, placement, prizeWon, award, prize, case>> /\ UNCHANGED vars
    BY <1>1 DEF resultVars
  <2>2. UNCHANGED <<status, settled, reg, attempt, refunded, prized, pc, practice>>
    BY <2>1 DEF vars, tableVars, regVars, moneyVars, callVars
  <2>3. EntriesInv'
    BY <2>1, EntriesRest DEF ResultsInv
  <2>4. ResultsTables' /\ HeldForACase' /\ AwardsTellTheWallets' /\ OneSheetDecides' /\ Awarded' = Awarded
    BY <2>1, <2>2
    DEF ResultsInv, ResultsTables, HeldForACase, AwardsTellTheWallets, OneSheetDecides, Awarded, Careful
  <2>5. Careful' => NothingAwarded' /\ \A b \in Admins : SheetFits(b)'
    BY <2>1, <2>2 DEF ResultsInv, NothingAwarded, SheetFits, Careful
  <2> QED  BY <2>2, <2>3, <2>4, <2>5 DEF ResultsInv
<1>2. CASE ResultsNext
  BY <1>2, HandlersStep, TakeStep, ReadResultsStep, SubmitStep, AbortResultsStep, ClearStep, FileCaseStep
  DEF ResultsNext
<1> QED  BY <1>1, <1>2

LEMMA ResultsInitially == ResultsInit /\ (Init \/ ByHandInit) => ResultsInv
<1> SUFFICES ASSUME ResultsInit, Init \/ ByHandInit PROVE ResultsInv
  OBVIOUS
<1>1. EntriesInv
  BY EntriesInitially
<1>2. prized = 0 /\ pc = [a \in Admins |-> "idle"]
  BY DEF Init, ByHandInit
<1>3. /\ ResultsTables
      /\ \A p \in Players : placement[p] = 0 /\ award[p] = "NONE" /\ prizeWon[p] = 0
  BY <1>2, Finite, PoolAssumption DEF ResultsInit, ResultsTables
<1>4. Awarded = {} /\ Credited = {}
  BY <1>3 DEF Awarded, Credited
<1>5. SumOver(prize, {}) = 0
  BY SumEmpty, Zenon
<1>6. AwardsTellTheWallets
  BY <1>2, <1>3, <1>4, <1>5 DEF AwardsTellTheWallets, Credited
<1>7. OneSheetDecides
  <2>1. SumOver(prize, Awarded) <= Pool
    BY <1>4, <1>5, PoolAssumption
  <2> QED  BY <1>3, <1>4, <2>1 DEF OneSheetDecides
<1>8. HeldForACase /\ NothingAwarded /\ \A a \in Admins : SheetFits(a)
  BY <1>2, <1>3 DEF HeldForACase, NothingAwarded, SheetFits
<1> QED  BY <1>1, <1>3, <1>4, <1>6, <1>7, <1>8 DEF ResultsInv

(* The results are in order in every state.                                  *)
THEOREM ResultsInvariance == ResultsSpec => []ResultsInv
<1>1. ResultsInit /\ (Init \/ ByHandInit) => ResultsInv
  BY ResultsInitially
<1> QED  BY <1>1, ResultsStep, PTL DEF ResultsSpec

(* Fees, refunds, places and size agree, whatever calls overlap, also where  *)
(* results are submitted by hand.                                            *)
THEOREM EntriesAlwaysBacked == ResultsSpec => []EntriesAreBacked
<1>1. ResultsInv => EntriesAreBacked
  <2> SUFFICES ASSUME ResultsInv PROVE EntriesAreBacked
    OBVIOUS
  <2>1. TypeOK /\ Accounted /\ LivePlaceIsPaid /\ FeesFollowPlaces /\ NoOverbooking
    BY DEF ResultsInv, EntriesInv, EntriesTables
  <2> DEFINE kept == [p \in Players |-> FeesKept(p)]
  <2>2. kept \in [Players -> Int] /\ balance \in [Players -> Int] /\ Held \in [Players -> Int]
    BY <2>1, FeesAre, HeldIs DEF TypeOK
  <2>3. \A p \in Players : Held[p] = balance[p] + kept[p]
    BY DEF Held
  <2> HIDE DEF kept
  <2>4. SumOver(Held, Players) = SumOver(balance, Players) + SumOver(kept, Players)
    BY <2>2, <2>3, Finite, SumPlus
  <2>5. SumOver(balance, Players) \in Int /\ SumOver(kept, Players) \in Int
    BY <2>2, Finite, SumIsInt
  <2>6. Cardinality(Players) * Opening \in Int /\ prized \in Int /\ debt \in Int
    BY <2>1, Finite, AmountsAssumption DEF TypeOK
  <2>7. SumOver(balance, Players)
          = Cardinality(Players) * Opening + prized - debt - SumOver(kept, Players)
    BY <2>1, <2>4, <2>5, <2>6 DEF Accounted
  <2>8. RefundsAreWhatWasTaken
    BY <2>7 DEF RefundsAreWhatWasTaken, kept
  <2> QED  BY <2>1, <2>8 DEF EntriesAreBacked
<1> QED  BY <1>1, ResultsInvariance, PTL

(* Places, prizes and awards of results submitted by hand are those of the   *)
(* wallets, a held prize has its dispute, and one sheet decides.             *)
THEOREM ResultsAlwaysStand == ResultsSpec => []ResultsStand
<1>1. ResultsInv => ResultsStand
  <2> SUFFICES ASSUME ResultsInv PROVE ResultsStand
    OBVIOUS
  <2>1. ASSUME NEW a \in Admins, sheet[a] # Nothing
        PROVE  DOMAIN sheet[a] \subseteq Players /\ Range(sheet[a]) \subseteq Line(Cardinality(Players))
    <3>1. sheet[a] \in Sheets(Players)
      BY <2>1 DEF ResultsInv, ResultsTables
    <3> DEFINE r == sheet[a]
    <3>2. r \in Sheets(Players)
      BY <3>1
    <3> HIDE DEF r
    <3>3. DOMAIN r \subseteq Players /\ \A p \in DOMAIN r : r[p] \in Line(Cardinality(Players))
      BY <3>2, SheetIs
    <3> QED  BY <3>3 DEF Range, r
  <2>2. ResultsTypeOK
    BY <2>1 DEF ResultsInv, ResultsTables, ResultsTypeOK
  <2> QED  BY <2>2 DEF ResultsInv, ResultsStand
<1> QED  BY <1>1, ResultsInvariance, PTL

(* A bracket is drawn once.                                                  *)
THEOREM AlwaysDrawnOnce == ResultsSpec => DrawnOnce
<1>1. [ResultsNext]_<<vars, resultVars>>
      => [drawn # {} => drawn' \in {drawn, {}} /\ (drawn' = {} => status' = "GONE")]_vars
  <2> SUFFICES ASSUME [ResultsNext]_<<vars, resultVars>>, drawn # {}
               PROVE  (drawn' \in {drawn, {}} /\ (drawn' = {} => status' = "GONE")) \/ vars' = vars
    OBVIOUS
  <2>1. CASE EntriesNext
    BY <2>1 DEF EntriesNext, Register, Withdraw, Chargeback, Settle, Remove, CancelReadFees, CancelRefundFees,
       CancelCommit, CancelAbort, EditRead, EditWrite, EditAbort, StartBracket, Startable, StartUnstartable, tableVars
  <2>2. CASE ResultsNext /\ ~EntriesNext
    BY <2>2 DEF ResultsNext, Disqualify, ReadResults, SubmitResults, AbortResults, Clear, FileCase, tableVars, vars
  <2> QED  BY <2>1, <2>2
<1> QED  BY <1>1, PTL DEF ResultsSpec, DrawnOnce
=============================================================================
