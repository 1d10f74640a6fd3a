-------------------------- MODULE Tournament_proofs --------------------------
(***************************************************************************)
(* Proofs about a tournament from its draw to its prizes (Bracket), for    *)
(* any draw, prize pool, cases, corrections and concurrent verdicts.       *)
(***************************************************************************)
EXTENDS Bracket, Sums_proofs

(* The draw: a game is over when it has a winner, who was one of its two     *)
(* teams; it begins when the two it draws on are over; in a round no team    *)
(* wins twice; and while the tournament runs its final is not over.          *)
Decided(s) == winner[s] # NoTeam

DrawHolds ==
    /\ \A s \in Slots : match[s] = "OVER" <=> Decided(s)
    /\ \A s \in Slots : Decided(s) => winner[s] \in Contenders(s)
    /\ \A s \in Slots : match[s] # "NONE" /\ s[1] > 1 => \A q \in Sources(s) : Decided(q)
    /\ \A s \in Slots : match[s] = "NONE" => s[1] > 1 /\ \E q \in Sources(s) : ~Decided(q)
    /\ \A s, u \in Slots : Decided(s) /\ s[1] = u[1] /\ winner[s] = winner[u] => s = u
    /\ status = "IN_PROGRESS" => ~Decided(Final)

(* Settlements: none before the end; then one, unless an administrator ended *)
(* the tournament before its final, and one more for every correction.       *)
SettledInOrder ==
    /\ status # "COMPLETED" => version = 0 /\ corrected = {}
    /\ corrected \subseteq Requests
    /\ version <= Cardinality(corrected) + 1
    /\ Decided(Final) => version # 0

(* Only the prizes of the current settlement are held or paid, they are      *)
(* within the pool, and the wallets hold those that are paid.                *)
OnlyCurrent == \A v \in Versions \ {version}, p \in Players : award[v][p] \in {"NONE", "REVERSED"}
WithinPool  == version # 0 => SumOver(amount[version], Players) <= Pool
PaidNow(p)  == IF Paid(p) THEN amount[version][p] ELSE 0
WalletsHold == \A p \in Players : balance[p] = PaidNow(p) - debt[p]

(* When verdicts are carried out at once: one call at most is between a      *)
(* verdict and what it means, and a verdict it holds is recorded.            *)
Pending(c) == \E a \in Admins : pc[a] = c
VerdictsFit ==
    /\ \A a \in Admins : pc[a] # NoCase => case[pc[a]] \in {"CLEARED", "DISQUALIFIED"}
    /\ prompt => \A a, b \in Admins : pc[a] # NoCase /\ pc[b] # NoCase => a = b
    /\ \A c \in early : case[c] # "NONE"

Reason(c) == case[c] = OpenCase \/ Pending(c) \/ (c \in AboutMatch /\ case[c] # "NONE")
HeldForReason ==
    prompt => \A p \in Players : HeldOf(p) # {} => \E c \in Cases : Accused[c] = p /\ Reason(c)

(* What became of a player over whom a case of this tournament was filed in  *)
(* time: disqualified before the end his team carries it, and so gets        *)
(* nothing unless it wins the final; after it, what he was to get was held.  *)
Over(c) == case[c] = "DISQUALIFIED" /\ ~Pending(c)
InTime == early \ AboutMatch
Lost(c) == Decided(Final) /\ winner[Final] # TeamOf(Accused[c])
VerdictsCount ==
    prompt => \A c \in InTime : LET p == Accused[c] IN
        /\ status = "IN_PROGRESS" /\ Over(c) => team[TeamOf(p)] = "DISQUALIFIED"
        /\ Lost(c) /\ award[1][p] = "CREDITED" => case[c] = "CLEARED"
        /\ Lost(c) /\ Over(c) => award[1][p] # "HELD"

(* The invariant: what became of the draw and of the prizes, and why.        *)
Money      == OnlyCurrent /\ WithinPool /\ WalletsHold /\ PrizeShownIsPaid
PrizesInv  == TypeOK /\ DrawHolds /\ SettledInOrder /\ Money /\ SettledMeansDecided
ReasonsInv == VerdictsFit /\ HeldForReason /\ VerdictsCount
BracketInv == PrizesInv /\ ReasonsInv
-----------------------------------------------------------------------------
(* Powers of two.                                                            *)

LEMMA TwoToExists ==
  \E f : f = [n \in 0 .. Rounds |-> IF n = 0 THEN 1 ELSE 2 * f[n - 1]]
<1> DEFINE Is(m, f) == f = [n \in 0 .. m |-> IF n = 0 THEN 1 ELSE 2 * f[n - 1]]
           bad == {m \in Nat : ~ \E f : Is(m, f)}
<1>1. Rounds \in Nat
  BY DrawAssumption
<1>2. ASSUME bad # {} PROVE FALSE
  <2>1. PICK m \in bad : \A k \in bad : m <= k
    <3>1. bad \in SUBSET Nat
      OBVIOUS
    <3> HIDE DEF bad
    <3> QED  BY <3>1, <1>2, SmallestNumber
  <2>2. Is(0, [n \in 0 .. 0 |-> 1])
    OBVIOUS
  <2>3. m # 0
    BY <2>1, <2>2
  <2>4. m - 1 \in Nat /\ m - 1 \notin bad
    <3>1. m \in Nat
      BY <2>1
    <3> HIDE DEF bad
    <3> QED  BY <3>1, <2>1, <2>3
  <2>5. PICK f : Is(m - 1, f)
    BY <2>4
  <2> DEFINE g == [n \in 0 .. m |-> IF n = m THEN 2 * f[m - 1] ELSE f[n]]
  <2>6. ASSUME NEW n \in 0 .. m PROVE g[n] = IF n = 0 THEN 1 ELSE 2 * g[n - 1]
    <3>1. \A k \in 0 .. m - 1 : f[k] = IF k = 0 THEN 1 ELSE 2 * f[k - 1]
      BY <2>5
    <3>2. CASE n = m
      BY <3>2, <2>1, <2>3
    <3>3. CASE n # m
      <4>1. n \in 0 .. m - 1 /\ (n # 0 => n - 1 \in 0 .. m /\ n - 1 # m)
        BY <3>3, <2>1
      <4> QED  BY <3>1, <4>1, <3>3
    <3> QED  BY <3>2, <3>3
  <2>7. Is(m, g)
    <3> HIDE DEF g
    <3>1. g = [n \in 0 .. m |-> g[n]]
      BY DEF g
    <3> QED  BY <2>6, <3>1
  <2> HIDE DEF Is, g
  <2> QED  BY <2>7, <2>1
<1>3. \E f : Is(Rounds, f)
  BY <1>1, <1>2
<1> QED  BY <1>3

LEMMA TwoToIs ==
  ASSUME NEW n \in 0 .. Rounds
  PROVE  TwoTo[n] = IF n = 0 THEN 1 ELSE 2 * TwoTo[n - 1]
<1>1. TwoTo = [k \in 0 .. Rounds |-> IF k = 0 THEN 1 ELSE 2 * TwoTo[k - 1]]
  BY TwoToExists, Zenon DEF TwoTo
<1> QED  BY <1>1

(* A power of two is positive, and twice the one before.                     *)
LEMMA TwoToGrows ==
  \A n \in 0 .. Rounds : TwoTo[n] \in Nat \ {0} /\ \A k \in 0 .. n : TwoTo[k] <= TwoTo[n]
<1> DEFINE Fine(n) == TwoTo[n] \in Nat \ {0} /\ \A k \in 0 .. n : TwoTo[k] <= TwoTo[n]
           bad == {n \in 0 .. Rounds : ~ Fine(n)}
<1>1. SUFFICES ASSUME bad # {} PROVE FALSE
  OBVIOUS
<1>2. Rounds \in Nat
  BY DrawAssumption
<1>3. PICK n \in bad : \A k \in bad : n <= k
  <2>1. bad \in SUBSET Nat
    BY <1>2
  <2> HIDE DEF bad
  <2> QED  BY <2>1, <1>1, SmallestNumber
<1>4. n \in 0 .. Rounds /\ ~ Fine(n)
  BY <1>3
<1>5. n # 0
  <2>1. TwoTo[0] = 1
    BY TwoToIs, <1>2
  <2> QED  BY <1>4, <2>1
<1>6. n - 1 \in 0 .. Rounds /\ n - 1 \notin bad
  <2> HIDE DEF bad, Fine
  <2> QED  BY <1>2, <1>3, <1>4, <1>5
<1>7. Fine(n - 1)
  BY <1>6
<1>8. TwoTo[n] = 2 * TwoTo[n - 1]
  BY <1>4, <1>5, TwoToIs
<1>9. \A k \in 0 .. n : k = n \/ k \in 0 .. n - 1
  BY <1>4
<1>10. \A k \in 0 .. n - 1 : TwoTo[k] \in Int /\ TwoTo[k] <= TwoTo[n - 1]
  <2>1. \A k \in 0 .. n - 1 : k \in 0 .. Rounds /\ k \notin bad
    <3> HIDE DEF bad, Fine
    <3> QED  BY <1>2, <1>3, <1>4
  <2>2. \A k \in 0 .. n - 1 : Fine(k)
    BY <2>1
  <2> QED  BY <1>7, <2>2
<1>11. Fine(n)
  BY <1>7, <1>8, <1>9, <1>10
<1> QED  BY <1>4, <1>11
-----------------------------------------------------------------------------
(* The slots of the draw.                                                    *)

LEMMA SlotIs ==
  ASSUME NEW s \in Slots
  PROVE  /\ s[1] \in 1 .. Rounds /\ Rounds - s[1] \in 0 .. Rounds
         /\ s[2] \in 0 .. TwoTo[Rounds - s[1]] - 1 /\ s = <<s[1], s[2]>>
<1>1. PICK r \in 1 .. Rounds : s \in {<<r, k>> : k \in 0 .. TwoTo[Rounds - r] - 1}
  BY DEF Slots
<1>2. PICK k \in 0 .. TwoTo[Rounds - r] - 1 : s = <<r, k>>
  BY <1>1
<1> QED  BY <1>2, DrawAssumption

LEMMA SameSlot ==
  ASSUME NEW s \in Slots, NEW u \in Slots, s[1] = u[1], s[2] = u[2]
  PROVE  s = u
<1>1. PICK r \in 1 .. Rounds : s \in {<<r, k>> : k \in 0 .. TwoTo[Rounds - r] - 1}
  BY DEF Slots
<1>2. PICK k \in 0 .. TwoTo[Rounds - r] - 1 : s = <<r, k>>
  BY <1>1
<1>3. PICK q \in 1 .. Rounds : u \in {<<q, k2>> : k2 \in 0 .. TwoTo[Rounds - q] - 1}
  BY DEF Slots
<1>4. PICK m \in 0 .. TwoTo[Rounds - q] - 1 : u = <<q, m>>
  BY <1>3
<1> QED  BY <1>2, <1>4

LEMMA IsSlot ==
  ASSUME NEW r \in 1 .. Rounds, NEW k \in 0 .. TwoTo[Rounds - r] - 1
  PROVE  <<r, k>> \in Slots
BY DEF Slots

LEMMA FinalIsLast ==
  /\ Final \in Slots /\ Final[1] = Rounds
  /\ \A s \in Slots : s[1] = Rounds <=> s = Final
<1>1. TwoTo[0] = 1 /\ Rounds \in Nat \ {0}
  BY TwoToIs, DrawAssumption
<1>2. Final \in Slots /\ Final[1] = Rounds
  <2>1. Rounds \in 1 .. Rounds /\ Rounds - Rounds = 0 /\ 0 \in 0 .. 1 - 1
    BY <1>1
  <2> QED  BY <2>1, <1>1, IsSlot DEF Final
<1>3. ASSUME NEW s \in Slots, s[1] = Rounds PROVE s = Final
  <2>1. Rounds - s[1] = 0
    BY <1>1, <1>3
  <2>2. s[2] \in 0 .. TwoTo[Rounds - s[1]] - 1 /\ s = <<s[1], s[2]>>
    BY SlotIs
  <2>3. s[2] = 0
    BY <1>1, <2>1, <2>2
  <2> QED  BY <2>2, <2>3, <1>3 DEF Final
<1> QED  BY <1>2, <1>3

(* A game after the first round draws on two games of the round before.      *)
LEMMA SourcesAreSlots ==
  ASSUME NEW s \in Slots, s[1] > 1
  PROVE  /\ \A q \in Sources(s) : q \in Slots /\ q[1] = s[1] - 1 /\ q[2] \div 2 = s[2]
         /\ \E q, r \in Sources(s) : q # r /\ Sources(s) = {q, r}
<1>1. /\ s[1] \in 1 .. Rounds /\ Rounds - s[1] \in 0 .. Rounds
      /\ s[2] \in 0 .. TwoTo[Rounds - s[1]] - 1 /\ Rounds \in Nat
  BY SlotIs, DrawAssumption
<1> DEFINE n == Rounds - s[1]
<1>2. n \in 0 .. Rounds /\ n + 1 \in 0 .. Rounds /\ Rounds - (s[1] - 1) = n + 1 /\ s[1] - 1 \in 1 .. Rounds
  BY <1>1
<1>3. TwoTo[n + 1] = 2 * TwoTo[n] /\ TwoTo[n] \in Nat
  <2>1. TwoTo[n + 1] = 2 * TwoTo[(n + 1) - 1]
    BY <1>2, TwoToIs
  <2>2. (n + 1) - 1 = n
    BY <1>2
  <2> QED  BY <2>1, <2>2, <1>2, TwoToGrows
<1>4. 2 * s[2] \in 0 .. TwoTo[n + 1] - 1 /\ 2 * s[2] + 1 \in 0 .. TwoTo[n + 1] - 1
  BY <1>1, <1>3
<1> DEFINE q == <<s[1] - 1, 2 * s[2]>>
           r == <<s[1] - 1, 2 * s[2] + 1>>
<1>5. q \in Slots /\ r \in Slots
  BY <1>2, <1>4, IsSlot
<1>6. Sources(s) = {q, r}
  BY DEF Sources
<1>7. s[2] \in Int /\ (2 * s[2]) \div 2 = s[2] /\ (2 * s[2] + 1) \div 2 = s[2]
  BY <1>1
<1>8. q[1] = s[1] - 1 /\ r[1] = s[1] - 1 /\ q[2] \div 2 = s[2] /\ r[2] \div 2 = s[2] /\ q # r
  BY <1>7
<1> HIDE DEF q, r
<1> QED  BY <1>5, <1>6, <1>8

LEMMA SourcesApart ==
  ASSUME NEW s \in Slots, NEW u \in Slots, s[1] > 1, u[1] > 1,
         NEW q \in Sources(s), q \in Sources(u)
  PROVE  s = u
<1>1. q[1] = s[1] - 1 /\ q[1] = u[1] - 1 /\ q[2] \div 2 = s[2] /\ q[2] \div 2 = u[2]
  BY SourcesAreSlots
<1>2. s[1] = u[1]
  BY <1>1, SlotIs
<1> QED  BY <1>1, <1>2, SameSlot

(* A game before the final leads to one of the next round that draws on it.  *)
LEMMA NextIsSlot ==
  ASSUME NEW s \in Slots, s # Final
  PROVE  /\ NextSlot(s) \in Slots /\ NextSlot(s)[1] > 1 /\ s \in Sources(NextSlot(s))
<1>1. /\ s[1] \in 1 .. Rounds /\ Rounds - s[1] \in 0 .. Rounds
      /\ s[2] \in 0 .. TwoTo[Rounds - s[1]] - 1 /\ Rounds \in Nat /\ s = <<s[1], s[2]>>
  BY SlotIs, DrawAssumption
<1>2. s[1] < Rounds
  BY <1>1, FinalIsLast
<1> DEFINE n == Rounds - s[1]
<1>3. n \in 1 .. Rounds /\ n - 1 \in 0 .. Rounds /\ Rounds - (s[1] + 1) = n - 1 /\ s[1] + 1 \in 1 .. Rounds
  BY <1>1, <1>2
<1>4. TwoTo[n] = 2 * TwoTo[n - 1] /\ TwoTo[n - 1] \in Nat
  BY <1>3, TwoToIs, TwoToGrows
<1>5. s[2] \div 2 \in 0 .. TwoTo[n - 1] - 1
  BY <1>1, <1>4
<1>6. NextSlot(s) \in Slots
  BY <1>3, <1>5, IsSlot DEF NextSlot
<1>7. s[2] = 2 * (s[2] \div 2) \/ s[2] = 2 * (s[2] \div 2) + 1
  BY <1>1
<1>8. NextSlot(s)[1] = s[1] + 1 /\ NextSlot(s)[2] = s[2] \div 2 /\ (s[1] + 1) - 1 = s[1] /\ s[1] + 1 > 1
  BY <1>1 DEF NextSlot
<1>9. s \in Sources(NextSlot(s))
  BY <1>1, <1>7, <1>8 DEF Sources
<1> QED  BY <1>6, <1>8, <1>9
-----------------------------------------------------------------------------
(* Teams and their players.                                                  *)

LEMMA PlayersPlay ==
  /\ \A t \in Teams : PlayersOf(t) \subseteq Players /\ \A p \in PlayersOf(t) : TeamOf(p) = t
  /\ \A p \in Players : TeamOf(p) \in Teams /\ p \in PlayersOf(TeamOf(p))
<1>1. ASSUME NEW t \in Teams, NEW p \in PlayersOf(t) PROVE TeamOf(p) = t /\ p \in Players
  <2>1. \A u \in Teams : p \in PlayersOf(u) => u = t
    BY <1>1, DrawAssumption
  <2> QED  BY <1>1, <2>1 DEF TeamOf, Players
<1>2. ASSUME NEW p \in Players PROVE TeamOf(p) \in Teams /\ p \in PlayersOf(TeamOf(p))
  BY DEF TeamOf, Players
<1> QED  BY <1>1, <1>2

LEMMA Finite ==
  IsFiniteSet(Players) /\ IsFiniteSet(Versions)
<1>1. IsFiniteSet(Teams)
  <2>1. IsFiniteSet(1 .. TwoTo[Rounds])
    BY TwoToGrows, DrawAssumption, FS_Interval
  <2>2. Seed \in Surjection(1 .. TwoTo[Rounds], Teams)
    BY DrawAssumption DEF Range, Surjection
  <2> QED  BY <2>1, <2>2, FS_Surjection
<1> DEFINE One == [t \in Teams |-> Members[t][1]]
           Two == [t \in Teams |-> Members[t][2]]
<1>2. IsFiniteSet({Members[t][1] : t \in Teams}) /\ IsFiniteSet({Members[t][2] : t \in Teams})
  <2>1. /\ One \in Surjection(Teams, {Members[t][1] : t \in Teams})
        /\ Two \in Surjection(Teams, {Members[t][2] : t \in Teams})
    BY DEF Surjection
  <2> HIDE DEF One, Two
  <2> QED  BY <1>1, <2>1, FS_Surjection
<1>3. Players \subseteq {Members[t][1] : t \in Teams} \cup {Members[t][2] : t \in Teams}
  BY DEF Players, PlayersOf
<1>4. IsFiniteSet({Members[t][1] : t \in Teams} \cup {Members[t][2] : t \in Teams})
  BY <1>2, FS_Union
<1>5. Cardinality(Requests) \in Nat
  BY AmountsAssumption, FS_CardinalityType
<1>6. IsFiniteSet(Versions)
  BY <1>5, FS_Interval DEF Versions
<1> QED  BY <1>3, <1>4, <1>6, FS_Subset

(* Who plays in a game that has begun.                                       *)
LEMMA TwoContend ==
  ASSUME TypeOK, DrawHolds, NEW s \in Slots, match[s] # "NONE"
  PROVE  \E x, y \in Teams : x # y /\ Contenders(s) = {x, y}
<1>1. CASE s[1] = 1
  <2>1. /\ s[2] \in 0 .. TwoTo[Rounds - 1] - 1 /\ Rounds - 1 \in 0 .. Rounds /\ Rounds \in 0 .. Rounds
        /\ Rounds # 0
    BY <1>1, SlotIs, DrawAssumption
  <2>2. TwoTo[Rounds] = 2 * TwoTo[Rounds - 1] /\ TwoTo[Rounds - 1] \in Nat
    BY <2>1, TwoToIs, TwoToGrows
  <2> DEFINE i == 2 * s[2] + 1
             j == 2 * s[2] + 2
  <2>3. i \in 1 .. TwoTo[Rounds] /\ j \in 1 .. TwoTo[Rounds] /\ i # j
    BY <2>1, <2>2
  <2>4. Contenders(s) = {Seed[i], Seed[j]}
    BY <1>1 DEF Contenders
  <2> HIDE DEF i, j
  <2>5. Seed[i] \in Teams /\ Seed[j] \in Teams /\ Seed[i] # Seed[j]
    BY <2>3, DrawAssumption DEF IsInjective
  <2> QED  BY <2>4, <2>5
<1>2. CASE s[1] > 1
  <2>1. PICK q, r \in Sources(s) : q # r /\ Sources(s) = {q, r}
    BY <1>2, SourcesAreSlots
  <2>2. q \in Slots /\ r \in Slots /\ q[1] = r[1]
    BY <1>2, SourcesAreSlots
  <2>3. Decided(q) /\ Decided(r)
    BY <1>2 DEF DrawHolds
  <2>4. winner[q] # winner[r] /\ winner[q] \in Teams /\ winner[r] \in Teams
    BY <2>1, <2>2, <2>3 DEF DrawHolds, Decided, TypeOK
  <2>5. Contenders(s) = {winner[q], winner[r]}
    BY <2>1, <1>2, SlotIs DEF Contenders
  <2> QED  BY <2>4, <2>5
<1> QED  BY <1>1, <1>2, SlotIs

LEMMA LoserIs ==
  ASSUME TypeOK, DrawHolds, NEW s \in Slots, match[s] # "NONE", NEW w \in Contenders(s)
  PROVE  /\ w \in Teams /\ LoserOf(s, w) \in Teams /\ LoserOf(s, w) # w
         /\ Contenders(s) = {w, LoserOf(s, w)}
<1>1. PICK x, y \in Teams : x # y /\ Contenders(s) = {x, y}
  BY TwoContend
<1>2. LoserOf(s, w) \in Contenders(s) /\ LoserOf(s, w) # w
  BY <1>1 DEF LoserOf
<1> QED  BY <1>1, <1>2

(* Nobody plays twice in a round.                                            *)
LEMMA ContendersApart ==
  ASSUME TypeOK, DrawHolds, NEW s \in Slots, NEW u \in Slots, s[1] = u[1], s # u,
         match[s] # "NONE", match[u] # "NONE"
  PROVE  Contenders(s) \cap Contenders(u) = {}
<1>1. CASE s[1] = 1
  <2>1. /\ s[2] \in 0 .. TwoTo[Rounds - 1] - 1 /\ u[2] \in 0 .. TwoTo[Rounds - 1] - 1
        /\ Rounds - 1 \in 0 .. Rounds /\ Rounds \in 0 .. Rounds /\ Rounds # 0 /\ s[2] # u[2]
    <3>1. s[2] # u[2]
      BY SameSlot
    <3>2. s[2] \in 0 .. TwoTo[Rounds - s[1]] - 1 /\ u[2] \in 0 .. TwoTo[Rounds - u[1]] - 1
      BY SlotIs
    <3>3. s[1] = 1 /\ u[1] = 1
      BY <1>1
    <3>4. Rounds - 1 \in 0 .. Rounds /\ Rounds \in 0 .. Rounds /\ Rounds # 0
      BY DrawAssumption
    <3> QED  BY <3>1, <3>2, <3>3, <3>4
  <2>2. TwoTo[Rounds] = 2 * TwoTo[Rounds - 1] /\ TwoTo[Rounds - 1] \in Nat
    BY <2>1, TwoToIs, TwoToGrows
  <2> DEFINE i == 2 * s[2] + 1
             j == 2 * s[2] + 2
             k == 2 * u[2] + 1
             l == 2 * u[2] + 2
  <2>3. /\ i \in 1 .. TwoTo[Rounds] /\ j \in 1 .. TwoTo[Rounds]
        /\ k \in 1 .. TwoTo[Rounds] /\ l \in 1 .. TwoTo[Rounds]
        /\ i # k /\ i # l /\ j # k /\ j # l
    <3> DEFINE n == TwoTo[Rounds - 1]
               a == s[2]
               b == u[2]
    <3>1. a \in 0 .. n - 1 /\ b \in 0 .. n - 1 /\ a # b /\ n \in Nat /\ TwoTo[Rounds] = 2 * n
      BY <2>1, <2>2
    <3> HIDE DEF n, a, b
    <3>2. 2 * a + 1 \in 1 .. 2 * n /\ 2 * a + 2 \in 1 .. 2 * n
      BY <3>1
    <3>3. 2 * b + 1 \in 1 .. 2 * n /\ 2 * b + 2 \in 1 .. 2 * n
      BY <3>1
    <3>4. /\ 2 * a + 1 # 2 * b + 1 /\ 2 * a + 1 # 2 * b + 2
          /\ 2 * a + 2 # 2 * b + 1 /\ 2 * a + 2 # 2 * b + 2
      BY <3>1
    <3> QED  BY <3>1, <3>2, <3>3, <3>4 DEF a, b
  <2>4. Contenders(s) = {Seed[i], Seed[j]} /\ Contenders(u) = {Seed[k], Seed[l]}
    BY <1>1 DEF Contenders
  <2> HIDE DEF i, j, k, l
  <2>5. Seed[i] # Seed[k] /\ Seed[i] # Seed[l] /\ Seed[j] # Seed[k] /\ Seed[j] # Seed[l]
    BY <2>3, DrawAssumption DEF IsInjective
  <2> QED  BY <2>4, <2>5
<1>2. CASE s[1] > 1
  <2>1. SUFFICES ASSUME NEW q \in Sources(s), NEW r \in Sources(u), winner[q] = winner[r] PROVE FALSE
    BY <1>2, SlotIs DEF Contenders
  <2>2. q \in Slots /\ r \in Slots /\ q[1] = r[1] /\ u[1] > 1
    BY <1>2, SourcesAreSlots
  <2>3. Decided(q) /\ Decided(r)
    BY <1>2, <2>2 DEF DrawHolds
  <2>4. q = r
    BY <2>1, <2>2, <2>3 DEF DrawHolds
  <2> QED  BY <1>2, <2>2, <2>4, SourcesApart
<1> QED  BY <1>1, <1>2, SlotIs
-----------------------------------------------------------------------------
(* Prizes.                                                                   *)

LEMMA PoolsAre ==
  /\ TeamPool(1) \in 0 .. Pool /\ TeamPool(2) \in 0 .. Pool /\ TeamPool(1) + TeamPool(2) = Pool
BY AmountsAssumption DEF TeamPool, ChampionPool

LEMMA SharesAre ==
  ASSUME NEW t \in Teams, NEW place \in 1 .. 2
  PROVE  /\ \A p \in PlayersOf(t) : Share(place, p) \in 0 .. Pool
         /\ Share(place, Members[t][1]) + Share(place, Members[t][2]) = TeamPool(place)
<1>1. TeamPool(place) \in 0 .. Pool /\ Pool \in Nat
  BY PoolsAre, AmountsAssumption
<1>2. TeamOf(Members[t][1]) = t /\ TeamOf(Members[t][2]) = t /\ Members[t][1] # Members[t][2]
  BY PlayersPlay, DrawAssumption DEF PlayersOf
<1> DEFINE half == TeamPool(place) \div 2
<1>3. half \in 0 .. TeamPool(place) /\ TeamPool(place) - half \in 0 .. TeamPool(place)
  BY <1>1
<1>4. Share(place, Members[t][1]) = half /\ Share(place, Members[t][2]) = TeamPool(place) - half
  BY <1>2 DEF Share
<1> HIDE DEF half
<1> QED  BY <1>1, <1>3, <1>4 DEF PlayersOf

(* A settlement's places, and what it gives to each player.                  *)
IsPlaces(places) ==
  \E c, u \in Teams : /\ c # u
                      /\ places = [t \in DOMAIN places |-> IF t = c THEN 1 ELSE 2]
                      /\ DOMAIN places \subseteq {c, u}
Given(places) == [p \in Players |-> IF p \in Winning(places) THEN Share(places[TeamOf(p)], p) ELSE 0]

LEMMA GivenWithinPool ==
  ASSUME NEW places, IsPlaces(places)
  PROVE  /\ Winning(places) \subseteq Players
         /\ \A p \in Winning(places) : TeamOf(p) \in DOMAIN places
         /\ Given(places) \in [Players -> 0 .. Pool]
         /\ SumOver(Given(places), Players) <= Pool
<1>1. PICK c, u \in Teams : /\ c # u /\ places = [t \in DOMAIN places |-> IF t = c THEN 1 ELSE 2]
                            /\ DOMAIN places \subseteq {c, u}
  BY DEF IsPlaces
<1>2. Winning(places) \subseteq Players /\ \A p \in Winning(places) : TeamOf(p) \in DOMAIN places
  BY <1>1, PlayersPlay DEF Winning
<1> DEFINE P(p) == places[TeamOf(p)]
           Full == [p \in Players |-> IF p \in PlayersOf(c) THEN Share(1, p)
                                      ELSE IF p \in PlayersOf(u) THEN Share(2, p) ELSE 0]
           Rest == [p \in Players |-> Full[p] - Given(places)[p]]
<1>3. PlayersOf(c) \cap PlayersOf(u) = {} /\ PlayersOf(c) \subseteq Players /\ PlayersOf(u) \subseteq Players
  BY <1>1, PlayersPlay, DrawAssumption
<1>4. ASSUME NEW p \in Players PROVE Full[p] \in 0 .. Pool /\ Given(places)[p] \in {0, Full[p]}
  <2>1. Full[p] \in 0 .. Pool
    BY SharesAre, AmountsAssumption, <1>3
  <2>2. CASE p \in Winning(places)
    <3>1. TeamOf(p) \in DOMAIN places /\ p \in PlayersOf(TeamOf(p))
      BY <1>2, <2>2, PlayersPlay
    <3>2. places[TeamOf(p)] = IF TeamOf(p) = c THEN 1 ELSE 2
      BY <3>1, <1>1
    <3>3. Given(places)[p] = Full[p]
      BY <3>1, <3>2, <2>2, <1>1, <1>3 DEF Given
    <3> QED  BY <3>3, <2>1
  <2>3. CASE p \notin Winning(places)
    BY <2>1, <2>3 DEF Given
  <2> QED  BY <2>1, <2>2, <2>3
<1>5. SumOver(Full, Players) = Pool
  <2> DEFINE A == PlayersOf(c)
             B == PlayersOf(u)
             a1 == Members[c][1]
             a2 == Members[c][2]
             b1 == Members[u][1]
             b2 == Members[u][2]
  <2>1. /\ A = ({} \cup {a1}) \cup {a2} /\ B = ({} \cup {b1}) \cup {b2} /\ a1 # a2 /\ b1 # b2
        /\ {a1, a2, b1, b2} \subseteq Players
    BY <1>3, DrawAssumption DEF PlayersOf
  <2>2. Full \in [Players -> Int] /\ IsFiniteSet(Players)
    BY <1>4, Finite, AmountsAssumption
  <2>3. /\ Full[a1] = Share(1, a1) /\ Full[a2] = Share(1, a2)
        /\ Full[b1] = Share(2, b1) /\ Full[b2] = Share(2, b2)
    BY <2>1, <1>3
  <2>4. \A p \in Players \ (A \cup B) : Full[p] = 0
    OBVIOUS
  <2>5. Full[a1] + Full[a2] = TeamPool(1) /\ Full[b1] + Full[b2] = TeamPool(2)
    BY <2>3, SharesAre
  <2>6. /\ Full[a1] \in Int /\ Full[a2] \in Int /\ Full[b1] \in Int /\ Full[b2] \in Int
        /\ TeamPool(1) + TeamPool(2) = Pool
    BY <2>1, <2>2, PoolsAre
  <2>7. A \in SUBSET Players /\ B \in SUBSET Players /\ A \cap B = {}
    BY <1>3
  <2> HIDE DEF A, B, a1, a2, b1, b2, Full
  <2>8. SumOver(Full, A) = Full[a1] + Full[a2]
    <3> DEFINE O == {} \cup {a1}
    <3>5. {} \in SUBSET Players /\ a1 \in Players \ {} /\ O \in SUBSET Players /\ a2 \in Players \ O
      BY <2>1
    <3>1. SumOver(Full, O) = SumOver(Full, {}) + Full[a1]
      BY <3>5, <2>2, SumPut
    <3> HIDE DEF O
    <3>2. SumOver(Full, O \cup {a2}) = SumOver(Full, O) + Full[a2]
      BY <3>5, <2>2, SumPut
    <3>3. SumOver(Full, {}) = 0
      BY SumEmpty, Zenon
    <3>4. A = O \cup {a2}
      BY <2>1 DEF O
    <3> QED  BY <3>1, <3>2, <3>3, <3>4, <2>6
  <2>9. SumOver(Full, B) = Full[b1] + Full[b2]
    <3> DEFINE O == {} \cup {b1}
    <3>5. {} \in SUBSET Players /\ b1 \in Players \ {} /\ O \in SUBSET Players /\ b2 \in Players \ O
      BY <2>1
    <3>1. SumOver(Full, O) = SumOver(Full, {}) + Full[b1]
      BY <3>5, <2>2, SumPut
    <3> HIDE DEF O
    <3>2. SumOver(Full, O \cup {b2}) = SumOver(Full, O) + Full[b2]
      BY <3>5, <2>2, SumPut
    <3>3. SumOver(Full, {}) = 0
      BY SumEmpty, Zenon
    <3>4. B = O \cup {b2}
      BY <2>1 DEF O
    <3> QED  BY <3>1, <3>2, <3>3, <3>4, <2>6
  <2>10. SumOver(Full, A \cup B) = SumOver(Full, A) + SumOver(Full, B)
    BY <2>2, <2>7, SumSplit
  <2>11. SumOver(Full, Players) = SumOver(Full, A \cup B)
    <3> DEFINE AB == A \cup B
    <3>1. AB \in SUBSET Players /\ (\A x \in AB : Full[x] = Full[x]) /\ (\A x \in Players \ AB : Full[x] = 0)
      BY <2>7, <2>4
    <3> HIDE DEF AB
    <3>2. SumOver(Full, Players) = SumOver(Full, AB)
      BY <3>1, <2>2, SumWithin
    <3> QED  BY <3>2 DEF AB
  <2> QED  BY <2>5, <2>6, <2>8, <2>9, <2>10, <2>11
<1>6. Given(places) \in [Players -> 0 .. Pool]
  <2> HIDE DEF Full
  <2> QED  BY <1>4, AmountsAssumption DEF Given
<1>7. SumOver(Given(places), Players) <= Pool
  <2>1. Given(places) \in [Players -> Int] /\ Full \in [Players -> Int] /\ Rest \in [Players -> Nat]
    BY <1>4, <1>6, AmountsAssumption
  <2>2. \A p \in Players : Full[p] = Given(places)[p] + Rest[p]
    BY <1>4, AmountsAssumption
  <2> HIDE DEF Full, Rest
  <2>3. Rest \in [Players -> Int] /\ Players \in SUBSET Players /\ IsFiniteSet(Players)
    BY <2>1, Finite
  <2>4. SumOver(Full, Players) = SumOver(Given(places), Players) + SumOver(Rest, Players)
    BY <2>1, <2>2, <2>3, SumPlus
  <2>5. SumOver(Rest, Players) \in Nat
    BY <2>1, <2>3, SumIsNat
  <2>6. SumOver(Given(places), Players) \in Int
    BY <2>1, <2>3, SumIsInt
  <2> QED  BY <1>5, <2>4, <2>5, <2>6, AmountsAssumption
<1> QED  BY <1>2, <1>6, <1>7
-----------------------------------------------------------------------------
(* The draw goes on.                                                         *)

LEMMA DrawAdvances ==
  ASSUME TypeOK, DrawHolds, NEW s \in Slots, NEW w \in Contenders(s), match[s] = "PLAYING",
         match' = Advanced([match EXCEPT ![s] = "OVER"], s),
         winner' = [winner EXCEPT ![s] = w],
         status' = "IN_PROGRESS" => status = "IN_PROGRESS" /\ s # Final
  PROVE  /\ match' \in [Slots -> {"NONE", "PLAYING", "OVER"}]
         /\ winner' \in [Slots -> Teams \cup {NoTeam}]
         /\ DrawHolds'
<1> DEFINE ended == [match EXCEPT ![s] = "OVER"]
           n == NextSlot(s)
           starts == s # Final /\ \A q \in Sources(n) : ended[q] = "OVER"
<1>1. w \in Teams /\ w # NoTeam
  BY LoserIs, NobodyAssumption
<1>2. /\ match \in [Slots -> {"NONE", "PLAYING", "OVER"}] /\ winner \in [Slots -> Teams \cup {NoTeam}]
      /\ \A x \in Slots : x[1] \in Int
  BY SlotIs DEF TypeOK
<1>3. ~Decided(s) /\ \A x \in Slots : (match[x] = "OVER") <=> Decided(x)
  BY DEF DrawHolds
<1>4. ASSUME s # Final PROVE n \in Slots /\ n[1] > 1 /\ s \in Sources(n) /\ n # s /\ match[n] = "NONE"
  <2>1. n \in Slots /\ n[1] > 1 /\ s \in Sources(n)
    BY <1>4, NextIsSlot
  <2>2. n # s
    BY <2>1, <1>2, SourcesAreSlots
  <2>3. match[n] = "NONE"
    BY <2>1, <1>3 DEF DrawHolds
  <2> QED  BY <2>1, <2>2, <2>3
<1>5. ASSUME NEW x \in Slots, x[1] > 1, s \in Sources(x) PROVE s # Final /\ x = n
  <2>1. s[1] = x[1] - 1 /\ x[1] \in 1 .. Rounds
    BY <1>5, SourcesAreSlots, SlotIs
  <2>2. s # Final
    BY <2>1, FinalIsLast, DrawAssumption
  <2> QED  BY <2>2, <1>4, <1>5, SourcesApart
<1>6. match' = IF starts THEN [ended EXCEPT ![n] = "PLAYING"] ELSE ended
  BY Zenon DEF Advanced
<1>7. ended \in [Slots -> {"NONE", "PLAYING", "OVER"}] /\ ended[s] = "OVER"
      /\ \A x \in Slots : x # s => ended[x] = match[x]
  BY <1>2
<1>8. /\ match' \in [Slots -> {"NONE", "PLAYING", "OVER"}] /\ match'[s] = "OVER"
      /\ starts => match'[n] = "PLAYING" /\ match[n] = "NONE" /\ n \in Slots
      /\ \A x \in Slots : x # s /\ ~(starts /\ x = n) => match'[x] = match[x]
  <2> HIDE DEF ended, n
  <2> QED  BY <1>4, <1>6, <1>7
<1>9. /\ winner' \in [Slots -> Teams \cup {NoTeam}] /\ winner'[s] = w
      /\ \A x \in Slots : x # s => winner'[x] = winner[x]
  BY <1>1, <1>2
<1>10. Decided(s)' /\ \A x \in Slots : x # s => (Decided(x)' <=> Decided(x))
  BY <1>1, <1>9 DEF Decided
<1>11. ASSUME NEW x \in Slots, x # s \/ x[1] = 1 \/ s \notin Sources(x), x[1] = 1 \/ s \notin Sources(x)
       PROVE  Contenders(x)' = Contenders(x)
  <2>1. CASE x[1] = 1
    BY <2>1 DEF Contenders
  <2>2. CASE x[1] # 1
    <3>1. x[1] > 1
      BY <2>2, SlotIs
    <3>2. \A q \in Sources(x) : q \in Slots /\ q # s
      BY <3>1, <1>11, SourcesAreSlots
    <3>3. \A q \in Sources(x) : winner'[q] = winner[q]
      BY <3>2, <1>9
    <3>4. Sources(x)' = Sources(x)
      BY DEF Sources
    <3> QED  BY <2>2, <3>3, <3>4 DEF Contenders
  <2> QED  BY <2>1, <2>2
<1>12. \A x \in Slots : Decided(x) \/ x = s => x[1] = 1 \/ s \notin Sources(x)
  <2>1. ASSUME NEW x \in Slots, x[1] > 1, s \in Sources(x) PROVE ~Decided(x) /\ x # s
    <3>1. x = n /\ s # Final
      BY <2>1, <1>5
    <3>2. match[x] = "NONE" /\ x # s
      BY <3>1, <1>4
    <3> QED  BY <3>2, <1>3
  <2> QED  BY <2>1, SlotIs
<1> HIDE DEF ended, n, starts
<1>13. \A x \in Slots : match'[x] = "OVER" <=> Decided(x)'
  BY <1>3, <1>8, <1>10
<1>14. \A x \in Slots : Decided(x)' => winner'[x] \in Contenders(x)'
  <2>1. ASSUME NEW x \in Slots, Decided(x)' PROVE winner'[x] \in Contenders(x)'
    <3>1. Contenders(x)' = Contenders(x)
      BY <2>1, <1>10, <1>11, <1>12
    <3>2. winner'[x] \in Contenders(x)
      <4>1. CASE x = s
        BY <4>1, <1>9
      <4>2. CASE x # s
        BY <4>2, <2>1, <1>9, <1>10 DEF DrawHolds
      <4> QED  BY <4>1, <4>2
    <3> QED  BY <3>1, <3>2
  <2> QED  BY <2>1
<1>15. \A x \in Slots : match'[x] # "NONE" /\ x[1] > 1 => \A q \in Sources(x) : Decided(q)'
  <2>1. ASSUME NEW x \in Slots, match'[x] # "NONE", x[1] > 1, NEW q \in Sources(x), q # s PROVE Decided(q)'
    <3>1. q \in Slots
      BY <2>1, SourcesAreSlots
    <3>2. CASE starts /\ x = n
      <4>1. ended[q] = "OVER"
        BY <3>2, <2>1 DEF starts
      <4> QED  BY <4>1, <3>1, <2>1, <1>3, <1>7, <1>10
    <3>3. CASE ~(starts /\ x = n)
      <4>1. match[x] # "NONE"
        BY <3>3, <2>1, <1>8
      <4> QED  BY <4>1, <2>1, <3>1, <1>10 DEF DrawHolds
    <3> QED  BY <3>2, <3>3
  <2> QED  BY <2>1, <1>10
<1>16. \A x \in Slots : match'[x] = "NONE" => x[1] > 1 /\ \E q \in Sources(x) : ~Decided(q)'
  <2>1. ASSUME NEW x \in Slots, match'[x] = "NONE" PROVE x[1] > 1 /\ \E q \in Sources(x) : ~Decided(q)'
    <3>1. x # s /\ match[x] = "NONE"
      BY <2>1, <1>8
    <3>2. x[1] > 1 /\ \E q \in Sources(x) : ~Decided(q)
      BY <3>1 DEF DrawHolds
    <3>3. PICK q \in Sources(x) : ~Decided(q)
      BY <3>2
    <3>4. \A r \in Sources(x) : r \in Slots
      BY <3>2, SourcesAreSlots
    <3>5. CASE q # s
      BY <3>5, <3>2, <3>3, <3>4, <1>10
    <3>6. CASE q = s
      <4>1. s # Final /\ x = n
        BY <3>2, <3>3, <3>6, <1>5
      <4>2. ~starts
        BY <4>1, <2>1, <1>8
      <4>3. PICK r \in Sources(x) : ended[r] # "OVER"
        BY <4>1, <4>2 DEF starts
      <4>4. r \in Slots /\ r # s
        BY <4>3, <3>4, <1>7
      <4>5. ~Decided(r)
        BY <4>3, <4>4, <1>3, <1>7
      <4> QED  BY <3>2, <4>4, <4>5, <1>10
    <3> QED  BY <3>5, <3>6
  <2> QED  BY <2>1
<1>17. \A x, y \in Slots : Decided(x)' /\ x[1] = y[1] /\ winner'[x] = winner'[y] => x = y
  <2>1. ASSUME NEW x \in Slots, NEW y \in Slots, Decided(x)', x[1] = y[1], winner'[x] = winner'[y], x # y PROVE FALSE
    <3>1. CASE x # s /\ y # s
      BY <3>1, <2>1, <1>9, <1>10 DEF DrawHolds
    <3>2. ASSUME NEW z \in Slots, z # s, z[1] = s[1], winner[z] = w PROVE FALSE
      <4>1. Decided(z) /\ match[z] = "OVER"
        BY <3>2, <1>1, <1>3 DEF Decided
      <4>2. w \in Contenders(z)
        BY <4>1, <3>2 DEF DrawHolds
      <4> QED  BY <4>1, <4>2, <3>2, ContendersApart
    <3> QED  BY <3>1, <3>2, <2>1, <1>9
  <2> QED  BY <2>1
<1>18. status' = "IN_PROGRESS" => ~Decided(Final)'
  BY <1>10, FinalIsLast DEF DrawHolds
<1>19. DrawHolds'
  <2>1. \A x \in Slots : Sources(x)' = Sources(x)
    BY DEF Sources
  <2>2. Slots' = Slots /\ Final' = Final
    BY DEF Slots, Final
  <2> QED  BY <1>13, <1>14, <1>15, <1>16, <1>17, <1>18 DEF DrawHolds
<1> QED  BY <1>8, <1>9, <1>19

LEMMA DrawStays ==
  ASSUME DrawHolds, UNCHANGED <<match, winner>>, status' = "IN_PROGRESS" => status = "IN_PROGRESS"
  PROVE  DrawHolds'
<1>1. \A x \in Slots : Sources(x)' = Sources(x) /\ Contenders(x)' = Contenders(x) /\ (Decided(x)' <=> Decided(x))
  BY DEF Sources, Contenders, Decided
<1>2. Final \in Slots
  BY FinalIsLast
<1> QED  BY <1>1, <1>2 DEF DrawHolds, Decided

(* The earliest round with a game that is not over has one that is played.   *)
LEMMA SomeGameIsPlayed ==
  ASSUME TypeOK, DrawHolds, status = "IN_PROGRESS"
  PROVE  \E s \in Slots : match[s] = "PLAYING"
<1> DEFINE left == {s[1] : s \in {u \in Slots : ~Decided(u)}}
<1>1. left \in SUBSET Nat /\ left # {}
  BY SlotIs, FinalIsLast DEF DrawHolds
<1>2. PICK r \in left : \A k \in left : r <= k
  <2> HIDE DEF left
  <2> QED  BY <1>1, SmallestNumber
<1>3. PICK s \in Slots : ~Decided(s) /\ s[1] = r
  BY <1>2
<1>4. match[s] # "OVER" /\ match[s] \in {"NONE", "PLAYING", "OVER"}
  BY <1>3 DEF DrawHolds, TypeOK
<1>5. ASSUME match[s] = "NONE" PROVE FALSE
  <2>1. s[1] > 1 /\ \E q \in Sources(s) : ~Decided(q)
    BY <1>5 DEF DrawHolds
  <2>2. PICK q \in Sources(s) : ~Decided(q)
    BY <2>1
  <2>3. q \in Slots /\ q[1] = s[1] - 1
    BY <2>1, SourcesAreSlots
  <2>4. q[1] \in left
    BY <2>2, <2>3
  <2> HIDE DEF left
  <2> QED  BY <2>3, <2>4, <1>2, <1>3, SlotIs
<1> QED  BY <1>4, <1>5
-----------------------------------------------------------------------------
(* What a settlement leaves behind.                                          *)

LEMMA AwardsMade ==
  ASSUME TypeOK, version + 1 \in Versions,
         NEW before \in [Versions -> [Players -> AwardStatus]],
         \A v \in Versions, p \in Players : before[v][p] \in {"NONE", "REVERSED"},
         NEW places, IsPlaces(places),
         NEW bal \in [Players -> Int], \A p \in Players : bal[p] = -debt[p],
         NEW C, Awards(before, places, bal, C), debt' = debt
  PROVE  /\ version' = version + 1
         /\ settled' \in BOOLEAN /\ award' \in [Versions -> [Players -> AwardStatus]]
         /\ amount' \in [Versions -> [Players -> 0 .. Pool]] /\ prizeWon' \in [Players -> 0 .. Pool]
         /\ balance' \in [Players -> Int]
         /\ OnlyCurrent' /\ WithinPool' /\ WalletsHold' /\ PrizeShownIsPaid'
         /\ settled' <=> NoneHeld(award')
         /\ \A p \in Players : HeldOf(p)' # {} => OpenFor(p, C)
         /\ \A v \in Versions : v # version + 1 => award'[v] = before[v]
         /\ \A p \in Players : /\ award'[version + 1][p] # "NONE" => p \in Winning(places)
                               /\ award'[version + 1][p] = "CREDITED" => ~OpenFor(p, C)
<1> DEFINE W == Winning(places)
           Held == {p \in W : OpenFor(p, C)}
           v == version + 1
           status1 == [p \in Players |-> IF p \in Held THEN "HELD" ELSE IF p \in W THEN "CREDITED" ELSE "NONE"]
           G == Given(places)
<1>1. /\ award' = [before EXCEPT ![v] = status1]
      /\ amount' = [amount EXCEPT ![v] = G]
      /\ balance' = [p \in Players |-> IF p \in W \ Held THEN bal[p] + G[p] ELSE bal[p]]
      /\ prizeWon' = [p \in Players |-> IF p \in W \ Held THEN G[p] ELSE 0]
      /\ version' = v
      /\ settled' = (Held = {})
  <2>1. /\ award' = [before EXCEPT ![v] = status1]
        /\ amount' = [amount EXCEPT ![v] = G]
        /\ version' = v
        /\ settled' = (Held = {})
    BY DEF Awards, Given
  <2>2. balance' = [p \in Players |-> IF p \in W \ Held THEN bal[p] + Share(places[TeamOf(p)], p) ELSE bal[p]]
    BY DEF Awards
  <2>3. prizeWon' = [p \in Players |-> Shown(p, p \in W \ Held, IF p \in W THEN Share(places[TeamOf(p)], p) ELSE 0)]
    BY DEF Awards
  <2>4. \A p \in Players : p \in W => G[p] = Share(places[TeamOf(p)], p)
    BY DEF Given
  <2> HIDE DEF W, G, Held, v, status1
  <2>5. balance' = [p \in Players |-> IF p \in W \ Held THEN bal[p] + G[p] ELSE bal[p]]
    BY <2>2, <2>4
  <2>6. prizeWon' = [p \in Players |-> IF p \in W \ Held THEN G[p] ELSE 0]
    BY <2>3, <2>4 DEF Shown
  <2> QED  BY <2>1, <2>5, <2>6
<1>2. W \subseteq Players /\ G \in [Players -> 0 .. Pool] /\ SumOver(G, Players) <= Pool
  BY GivenWithinPool
<1>3. Held \subseteq W /\ \A p \in Players : p \in Held <=> p \in W /\ OpenFor(p, C)
  OBVIOUS
<1>4. /\ status1 \in [Players -> AwardStatus]
      /\ \A p \in Players : /\ (status1[p] = "HELD") <=> p \in Held
                            /\ (status1[p] = "CREDITED") <=> p \in W \ Held
                            /\ status1[p] # "NONE" => p \in W
  BY <1>3 DEF AwardStatus
<1>5. v \in Versions /\ v # 0 /\ v \in Int /\ Pool \in Nat
  BY AmountsAssumption DEF Versions
<1> HIDE DEF W, Held, v, status1, G
<1>6. award'[v] = status1 /\ amount'[v] = G /\ \A u \in Versions : u # v => award'[u] = before[u]
  BY <1>1, <1>5 DEF TypeOK
<1>7. /\ settled' \in BOOLEAN /\ award' \in [Versions -> [Players -> AwardStatus]]
      /\ amount' \in [Versions -> [Players -> 0 .. Pool]] /\ prizeWon' \in [Players -> 0 .. Pool]
      /\ balance' \in [Players -> Int]
  <2>1. amount \in [Versions -> [Players -> 0 .. Pool]]
    BY DEF TypeOK
  <2>2. settled' \in BOOLEAN
    BY <1>1
  <2>3. award' \in [Versions -> [Players -> AwardStatus]]
    BY <1>1, <1>4, <1>5
  <2>4. amount' \in [Versions -> [Players -> 0 .. Pool]]
    BY <1>1, <1>2, <1>5, <2>1
  <2>5. prizeWon' \in [Players -> 0 .. Pool] /\ balance' \in [Players -> Int]
    BY <1>1, <1>2, <1>5
  <2> QED  BY <2>2, <2>3, <2>4, <2>5
<1>8. OnlyCurrent'
  <2>1. \A u \in Versions, p \in Players : u # version' => award'[u][p] \in {"NONE", "REVERSED"}
    BY <1>1, <1>6
  <2>2. Versions' = Versions /\ Players' = Players
    BY DEF Versions, Players
  <2> QED  BY <2>1, <2>2 DEF OnlyCurrent
<1>9. WithinPool'
  <2>1. amount'[version'] = G
    BY <1>1, <1>6
  <2> QED  BY <2>1, <1>2, Zenon DEF WithinPool
<1>10. \A p \in Players : (Paid(p)' <=> p \in W \ Held) /\ amount'[version'][p] = G[p]
  BY <1>1, <1>4, <1>5, <1>6 DEF Paid
<1>11. WalletsHold'
  <2>1. \A p \in Players : balance'[p] = PaidNow(p)' - debt'[p]
    <3> SUFFICES ASSUME NEW p \in Players PROVE balance'[p] = PaidNow(p)' - debt'[p]
      OBVIOUS
    <3>1. debt[p] \in Int /\ G[p] \in Int /\ bal[p] = -debt[p]
      BY <1>2, <1>5, AmountsAssumption DEF TypeOK
    <3>2. PaidNow(p)' = IF p \in W \ Held THEN G[p] ELSE 0
      BY <1>10 DEF PaidNow
    <3> QED  BY <3>1, <3>2, <1>1
  <2> QED  BY <2>1 DEF WalletsHold
<1>12. PrizeShownIsPaid'
  <2>1. \A p \in Players : prizeWon'[p] # 0 => Paid(p)' /\ amount'[version'][p] = prizeWon'[p]
    BY <1>1, <1>10
  <2> QED  BY <2>1 DEF PrizeShownIsPaid, Paid
<1>13. \A p \in Players : HeldOf(p)' # {} => p \in Held
  <2> SUFFICES ASSUME NEW p \in Players, NEW u \in HeldOf(p)' PROVE p \in Held
    OBVIOUS
  <2>1. u \in Versions /\ award'[u][p] = "HELD"
    BY DEF HeldOf
  <2>2. u = v
    BY <2>1, <1>6
  <2> QED  BY <2>1, <2>2, <1>4, <1>6
<1>14. settled' <=> NoneHeld(award')
  <2>1. ASSUME NEW p \in Held PROVE ~NoneHeld(award')
    <3>1. p \in Players /\ award'[v][p] = "HELD"
      BY <2>1, <1>2, <1>3, <1>4, <1>6
    <3> QED  BY <3>1, <1>5 DEF NoneHeld
  <2>2. ASSUME ~NoneHeld(award') PROVE Held # {}
    <3>1. PICK u \in Versions, p \in Players : award'[u][p] = "HELD"
      BY <2>2 DEF NoneHeld
    <3>2. u \in HeldOf(p)'
      BY <3>1 DEF HeldOf
    <3> QED  BY <3>2, <1>13
  <2> QED  BY <2>1, <2>2, <1>1
<1> QED
  <2>1. \A p \in Players : HeldOf(p)' # {} => OpenFor(p, C)
    BY <1>3, <1>13
  <2>2. \A p \in Players : /\ award'[v][p] # "NONE" => p \in W
                           /\ award'[v][p] = "CREDITED" => ~OpenFor(p, C)
    BY <1>3, <1>4, <1>6
  <2>3. \A u \in Versions : u # v => award'[u] = before[u]
    BY <1>6
  <2> QED  BY <2>1, <2>2, <2>3, <1>1, <1>7, <1>8, <1>9, <1>11, <1>12, <1>14 DEF v, W

LEMMA MoneyStays ==
  ASSUME Money, UNCHANGED <<version, award, amount, prizeWon, balance, debt>>
  PROVE  Money'
<1>1. \A p \in Players : (Paid(p)' <=> Paid(p)) /\ PaidNow(p)' = PaidNow(p)
  BY DEF Paid, PaidNow
<1>2. OnlyCurrent' /\ WithinPool' /\ WalletsHold'
  BY <1>1 DEF Money, OnlyCurrent, WithinPool, WalletsHold
<1>3. PrizeShownIsPaid'
  BY DEF Money, PrizeShownIsPaid
<1> QED  BY <1>2, <1>3 DEF Money

LEMMA RequestsAreCounted ==
  ASSUME NEW R \in SUBSET Requests
  PROVE  /\ Cardinality(R) \in Nat
         /\ \A r \in Requests \ R : /\ Cardinality(R \cup {r}) = Cardinality(R) + 1
                                    /\ Cardinality(R) + 1 <= Cardinality(Requests)
<1>1. IsFiniteSet(Requests) /\ IsFiniteSet(R)
  BY AmountsAssumption, FS_Subset
<1>2. ASSUME NEW r \in Requests \ R
      PROVE  Cardinality(R \cup {r}) = Cardinality(R) + 1 /\ Cardinality(R \cup {r}) <= Cardinality(Requests)
  <2>1. Cardinality(R \cup {r}) = Cardinality(R) + 1
    BY <1>1, FS_AddElement
  <2>2. R \cup {r} \in SUBSET Requests
    OBVIOUS
  <2>3. Cardinality(R \cup {r}) <= Cardinality(Requests)
    BY <1>1, <2>2, FS_Subset
  <2> QED  BY <2>1, <2>3
<1> QED  BY <1>1, <1>2, FS_CardinalityType

(* The end of a game: it advances the draw, and the final settles.           *)
LEMMA MatchApplied ==
  ASSUME PrizesInv, NEW s \in Slots, NEW w \in Contenders(s), match[s] = "PLAYING",
         NEW now, now \in [Teams -> TeamStatus],
         ApplyCompletedMatch(s, w, now), UNCHANGED <<debt, corrected>>
  PROVE  /\ status = "IN_PROGRESS" /\ version = 0
         /\ status' \in {"IN_PROGRESS", "COMPLETED"} /\ version' \in {0} \cup Versions
         /\ settled' \in BOOLEAN /\ award' \in [Versions -> [Players -> AwardStatus]]
         /\ amount' \in [Versions -> [Players -> 0 .. Pool]] /\ prizeWon' \in [Players -> 0 .. Pool]
         /\ balance' \in [Players -> Int] /\ match' \in [Slots -> {"NONE", "PLAYING", "OVER"}]
         /\ winner' \in [Slots -> Teams \cup {NoTeam}] /\ team' \in [Teams -> TeamStatus]
         /\ placement' \in [Teams -> 0 .. TwoTo[Rounds]]
         /\ DrawHolds' /\ SettledInOrder' /\ Money' /\ SettledMeansDecided'
         /\ \A t \in Teams : now[t] = "DISQUALIFIED" => team'[t] = "DISQUALIFIED" \/ (s = Final /\ t = w)
         /\ s # Final => UNCHANGED <<status, prizeVars>> /\ winner'[Final] = winner[Final]
         /\ s = Final => /\ status' = "COMPLETED" /\ version' = 1 /\ winner'[Final] = w
                         /\ \A p \in Players : HeldOf(p)' # {} => OpenFor(p, Cases)
                         /\ \A p \in Players : award'[1][p] # "NONE" =>
                              TeamOf(p) = w \/ now[TeamOf(p)] # "DISQUALIFIED"
                         /\ \A p \in Players : award'[1][p] = "CREDITED" => ~OpenFor(p, Cases)
<1> DEFINE l == LoserOf(s, w)
           teams == [now EXCEPT ![l] = LoserStatus(@, s), ![w] = IF s = Final THEN "CHAMPION" ELSE @]
<1>1. TypeOK /\ DrawHolds /\ SettledInOrder /\ Money
  BY DEF PrizesInv
<1>2. /\ w \in Teams /\ l \in Teams /\ l # w
  BY <1>1, LoserIs
<1>3. /\ status = "IN_PROGRESS"
      /\ match' = Advanced([match EXCEPT ![s] = "OVER"], s)
      /\ winner' = [winner EXCEPT ![s] = w]
      /\ team' = teams
      /\ placement' = [placement EXCEPT ![l] = TwoTo[Rounds - s[1]] + 1, ![w] = IF s = Final THEN 1 ELSE @]
      /\ \/ s # Final /\ UNCHANGED <<status, prizeVars>>
         \/ s = Final /\ status' = "COMPLETED" /\ Awards(award, Places(teams, w, l), balance, Cases)
  BY Zenon DEF ApplyCompletedMatch
<1>4. version = 0 /\ corrected = {}
  BY <1>1, <1>3 DEF SettledInOrder
<1>5. LoserStatus(now[l], s) \in TeamStatus
  BY <1>2 DEF LoserStatus, TeamStatus
<1>6. teams \in [Teams -> TeamStatus]
  BY <1>2, <1>5 DEF TeamStatus
<1>7. /\ teams[l] = LoserStatus(now[l], s) /\ teams[w] = IF s = Final THEN "CHAMPION" ELSE now[w]
      /\ \A t \in Teams \ {l, w} : teams[t] = now[t]
  BY <1>2
<1>8. \A t \in Teams : now[t] = "DISQUALIFIED" => teams[t] = "DISQUALIFIED" \/ (s = Final /\ t = w)
  BY <1>2, <1>7 DEF LoserStatus
<1> HIDE DEF teams, l
<1>9. placement' \in [Teams -> 0 .. TwoTo[Rounds]]
  <2>1. Rounds - s[1] \in 0 .. Rounds - 1 /\ Rounds - 1 \in 0 .. Rounds /\ Rounds \in 0 .. Rounds /\ Rounds # 0
    BY SlotIs, DrawAssumption
  <2>2. TwoTo[Rounds] = 2 * TwoTo[Rounds - 1]
    BY <2>1, TwoToIs
  <2>3. TwoTo[Rounds - s[1]] <= TwoTo[Rounds - 1] /\ TwoTo[Rounds - 1] \in Nat \ {0} /\ TwoTo[Rounds - s[1]] \in Nat
    <3>1. Rounds - s[1] \in 0 .. Rounds
      BY SlotIs
    <3> QED  BY <2>1, <3>1, TwoToGrows
  <2>4. TwoTo[Rounds - s[1]] + 1 \in 0 .. TwoTo[Rounds] /\ 1 \in 0 .. TwoTo[Rounds]
    BY <2>2, <2>3
  <2>5. placement \in [Teams -> 0 .. TwoTo[Rounds]]
    BY <1>1 DEF TypeOK
  <2> QED  BY <2>4, <2>5, <1>2, <1>3
<1>10. /\ match' \in [Slots -> {"NONE", "PLAYING", "OVER"}]
       /\ winner' \in [Slots -> Teams \cup {NoTeam}]
       /\ DrawHolds'
  <2>1. status' = "IN_PROGRESS" => status = "IN_PROGRESS" /\ s # Final
    BY <1>3
  <2> QED  BY <1>1, <1>3, <2>1, DrawAdvances
<1>11. \A x \in Slots : winner'[x] = IF x = s THEN w ELSE winner[x]
  BY <1>1, <1>3 DEF TypeOK
<1>12. CASE s # Final
  <2>1. UNCHANGED <<status, version, settled, award, amount, prizeWon, balance, debt, corrected>>
    BY <1>3, <1>12 DEF prizeVars
  <2>2. Money'
    BY <2>1, <1>1, MoneyStays
  <2>3. SettledInOrder'
    <3>1. ~Decided(Final)'
      BY <1>1, <1>3, <1>11, <1>12, FinalIsLast DEF DrawHolds, Decided
    <3> QED  BY <2>1, <3>1, <1>1 DEF SettledInOrder
  <2>4. SettledMeansDecided'
    BY <2>1, <1>3 DEF SettledMeansDecided
  <2>5. winner'[Final] = winner[Final]
    BY <1>11, <1>12, FinalIsLast
  <2> QED  BY <1>1, <1>3, <1>4, <1>6, <1>8, <1>9, <1>10, <1>12, <2>1, <2>2, <2>3, <2>4, <2>5 DEF TypeOK, prizeVars
<1>13. CASE s = Final
  <2> DEFINE places == Places(teams, w, l)
  <2>1. status' = "COMPLETED" /\ Awards(award, places, balance, Cases)
    BY <1>3, <1>13
  <2>2. version + 1 \in Versions /\ version + 1 = 1 /\ version \notin Versions
    BY <1>4, AmountsAssumption, FS_CardinalityType DEF Versions
  <2>3. IsPlaces(places)
    <3>1. DOMAIN places \subseteq {w, l}
      BY DEF Places
    <3>2. places = [t \in DOMAIN places |-> IF t = w THEN 1 ELSE 2]
      BY DEF Places
    <3> HIDE DEF places
    <3> QED  BY <3>1, <3>2, <1>2 DEF IsPlaces
  <2>4. award \in [Versions -> [Players -> AwardStatus]] /\ balance \in [Players -> Int]
    BY <1>1 DEF TypeOK
  <2>5. \A v \in Versions, p \in Players : award[v][p] \in {"NONE", "REVERSED"}
    BY <1>1, <2>2 DEF Money, OnlyCurrent
  <2>6. \A p \in Players : balance[p] = -debt[p]
    <3>1. \A p \in Players : PaidNow(p) = 0 /\ debt[p] \in Int
      BY <1>1, <1>4, AmountsAssumption DEF PaidNow, Paid, TypeOK
    <3> QED  BY <3>1, <1>1 DEF Money, WalletsHold
  <2>7. \A p \in Winning(places) : TeamOf(p) = w \/ teams[TeamOf(p)] # "DISQUALIFIED"
    <3>1. \A p \in Winning(places) : TeamOf(p) \in DOMAIN places
      BY <2>3, GivenWithinPool
    <3> QED  BY <3>1 DEF Places
  <2> HIDE DEF places
  <2>8. /\ version' = version + 1
        /\ settled' \in BOOLEAN /\ award' \in [Versions -> [Players -> AwardStatus]]
        /\ amount' \in [Versions -> [Players -> 0 .. Pool]] /\ prizeWon' \in [Players -> 0 .. Pool]
        /\ balance' \in [Players -> Int]
        /\ OnlyCurrent' /\ WithinPool' /\ WalletsHold' /\ PrizeShownIsPaid'
        /\ settled' <=> NoneHeld(award')
        /\ \A p \in Players : HeldOf(p)' # {} => OpenFor(p, Cases)
        /\ \A p \in Players : /\ award'[version + 1][p] # "NONE" => p \in Winning(places)
                              /\ award'[version + 1][p] = "CREDITED" => ~OpenFor(p, Cases)
    BY <1>1, <2>1, <2>2, <2>3, <2>4, <2>5, <2>6, AwardsMade
  <2>9. SettledInOrder'
    <3>1. Cardinality({}) = 0
      BY FS_EmptySet
    <3> QED  BY <3>1, <2>1, <2>2, <2>8, <1>4 DEF SettledInOrder
  <2>10. SettledMeansDecided'
    BY <2>8 DEF SettledMeansDecided
  <2>11. \A p \in Players : /\ award'[1][p] # "NONE" => TeamOf(p) = w \/ now[TeamOf(p)] # "DISQUALIFIED"
                            /\ award'[1][p] = "CREDITED" => ~OpenFor(p, Cases)
    BY <2>2, <2>7, <2>8, <1>8, PlayersPlay
  <2>12. version' = 1 /\ 1 \in Versions /\ winner'[Final] = w
    BY <2>2, <2>8, <1>11, <1>13, FinalIsLast
  <2> QED  BY <1>3, <1>4, <1>6, <1>8, <1>9, <1>10, <1>13, <2>1, <2>8, <2>9, <2>10, <2>11, <2>12 DEF Money
<1> QED  BY <1>12, <1>13
-----------------------------------------------------------------------------
(* Every step keeps the draw and the prizes.                                 *)

LEMMA OneOf ==
  ASSUME NEW S, IsFiniteSet(S), NEW f \in [S -> Int], NEW x \in S
  PROVE  SumOver(f, {x}) = f[x]
<1> DEFINE none == {}
<1>1. none \in SUBSET S /\ x \in S \ none
  OBVIOUS
<1>2. SumOver(f, none) = 0
  BY SumEmpty, Zenon
<1> HIDE DEF none
<1>3. SumOver(f, none \cup {x}) = SumOver(f, none) + f[x]
  BY <1>1, SumPut
<1>4. none \cup {x} = {x}
  BY DEF none
<1>5. SumOver(f, {x}) = SumOver(f, none \cup {x})
  BY <1>4, Zenon
<1>6. f[x] \in Int
  OBVIOUS
<1> QED  BY <1>2, <1>3, <1>5, <1>6

LEMMA PrizesStay ==
  ASSUME PrizesInv, UNCHANGED <<match, winner, version, settled, award, amount, prizeWon, balance, debt, corrected>>,
         status' = status, out \subseteq out', TypeOK'
  PROVE  PrizesInv'
<1>1. DrawHolds'
  BY DrawStays DEF PrizesInv
<1>2. Money'
  BY MoneyStays DEF PrizesInv
<1>3. SettledInOrder' /\ SettledMeansDecided'
  BY DEF PrizesInv, SettledInOrder, Decided, SettledMeansDecided, NoneHeld
<1> QED  BY <1>1, <1>2, <1>3 DEF PrizesInv

LEMMA EndMatchKeepsPrizes ==
  ASSUME PrizesInv, NEW s \in Slots, NEW w \in Teams, EndMatch(s, w)
  PROVE  PrizesInv'
<1>1. /\ match[s] = "PLAYING" /\ w \in Contenders(s) /\ ApplyCompletedMatch(s, w, team)
      /\ UNCHANGED <<debt, corrected>> /\ UNCHANGED <<out, debt, caseVars, corrected, prompt>>
  BY DEF EndMatch
<1>2. TypeOK /\ team \in [Teams -> TeamStatus]
  BY DEF PrizesInv, TypeOK
<1>3. /\ status' \in {"IN_PROGRESS", "COMPLETED"} /\ version' \in {0} \cup Versions
      /\ settled' \in BOOLEAN /\ award' \in [Versions -> [Players -> AwardStatus]]
      /\ amount' \in [Versions -> [Players -> 0 .. Pool]] /\ prizeWon' \in [Players -> 0 .. Pool]
      /\ balance' \in [Players -> Int] /\ match' \in [Slots -> {"NONE", "PLAYING", "OVER"}]
      /\ winner' \in [Slots -> Teams \cup {NoTeam}] /\ team' \in [Teams -> TeamStatus]
      /\ placement' \in [Teams -> 0 .. TwoTo[Rounds]]
      /\ DrawHolds' /\ SettledInOrder' /\ Money' /\ SettledMeansDecided'
  BY <1>1, <1>2, MatchApplied
<1>4. TypeOK'
  BY <1>1, <1>2, <1>3 DEF TypeOK, caseVars
<1> QED  BY <1>3, <1>4 DEF PrizesInv

LEMMA ChargebackKeepsPrizes ==
  ASSUME PrizesInv, NEW p \in Spenders, Chargeback(p)
  PROVE  PrizesInv'
<1>1. p \in Players /\ MaxDebt \in Nat
  BY CasesAssumption, AmountsAssumption
<1>2. /\ SumOver(debt, Players) < MaxDebt
      /\ balance' = [balance EXCEPT ![p] = @ - 1] /\ debt' = [debt EXCEPT ![p] = @ + 1]
      /\ UNCHANGED <<status, match, winner, team, placement, version, settled, award, amount, prizeWon,
                     out, case, early, pc, corrected, prompt>>
  BY DEF Chargeback, bracketVars, caseVars
<1>3. TypeOK /\ debt \in [Players -> 0 .. MaxDebt] /\ balance \in [Players -> Int]
  BY DEF PrizesInv, TypeOK
<1>4. debt[p] < MaxDebt
  <2>1. debt \in [Players -> Nat] /\ debt \in [Players -> Int] /\ IsFiniteSet(Players)
    BY <1>1, <1>3, Finite
  <2>2. SumOver(debt, {p}) <= SumOver(debt, Players)
    BY <1>1, <2>1, SumGrows
  <2>3. SumOver(debt, {p}) = debt[p]
    BY <1>1, <2>1, OneOf
  <2>4. SumOver(debt, Players) \in Int
    BY <2>1, SumIsInt
  <2> QED  BY <1>1, <1>2, <1>3, <2>2, <2>3, <2>4
<1>5. debt' \in [Players -> 0 .. MaxDebt] /\ balance' \in [Players -> Int]
  BY <1>1, <1>2, <1>3, <1>4
<1>6. TypeOK'
  BY <1>2, <1>3, <1>5 DEF TypeOK
<1>7. DrawHolds'
  BY <1>2, DrawStays DEF PrizesInv
<1>8. Money'
  <2>1. \A q \in Players : (Paid(q)' <=> Paid(q)) /\ PaidNow(q)' = PaidNow(q)
    BY <1>2 DEF Paid, PaidNow
  <2>2. OnlyCurrent' /\ WithinPool' /\ PrizeShownIsPaid'
    BY <1>2 DEF PrizesInv, Money, OnlyCurrent, WithinPool, PrizeShownIsPaid
  <2>3. \A q \in Players : PaidNow(q) \in Int
    BY <1>3, AmountsAssumption DEF PaidNow, Paid, TypeOK
  <2>4. \A q \in Players : balance[q] = PaidNow(q) - debt[q]
    BY DEF PrizesInv, Money, WalletsHold
  <2>5. \A q \in Players : balance'[q] = PaidNow(q) - debt'[q]
    BY <1>1, <1>2, <1>3, <2>3, <2>4
  <2> QED  BY <2>1, <2>2, <2>5 DEF Money, WalletsHold
<1>9. SettledInOrder' /\ SettledMeansDecided'
  BY <1>2 DEF PrizesInv, SettledInOrder, Decided, SettledMeansDecided, NoneHeld
<1> QED  BY <1>6, <1>7, <1>8, <1>9 DEF PrizesInv

LEMMA EditStatusKeepsPrizes ==
  ASSUME PrizesInv, NEW to \in {"COMPLETED", "CANCELLED"}, EditStatus(to)
  PROVE  PrizesInv'
<1>1. /\ status = "IN_PROGRESS" /\ status' = to
      /\ UNCHANGED <<match, winner, team, placement, version, settled, award, amount, prizeWon, balance,
                     out, debt, case, early, pc, corrected, prompt>>
  BY DEF EditStatus, bracketVars, prizeVars, caseVars
<1>2. TypeOK'
  BY <1>1 DEF PrizesInv, TypeOK
<1>3. DrawHolds'
  BY <1>1, DrawStays DEF PrizesInv
<1>4. Money'
  BY <1>1, MoneyStays DEF PrizesInv
<1>5. version = 0
  BY <1>1 DEF PrizesInv, SettledInOrder
<1>6. SettledInOrder' /\ SettledMeansDecided'
  BY <1>1, <1>5 DEF PrizesInv, SettledInOrder, DrawHolds, Decided, SettledMeansDecided
<1> QED  BY <1>2, <1>3, <1>4, <1>6 DEF PrizesInv

LEMMA CasesKeepPrizes ==
  ASSUME PrizesInv,
         \/ \E c \in Cases : FileCase(c)
         \/ \E a \in Admins, c \in Cases, v \in {"CLEARED", "DISQUALIFIED"} : Resolve(a, c, v)
         \/ \E a \in Admins : ReconcileNothing(a) \/ GiveUp(a)
  PROVE  PrizesInv'
<1>1. /\ UNCHANGED <<status, match, winner, team, placement, version, settled, award, amount, prizeWon, balance,
                     out, debt, corrected, prompt>>
      /\ case' \in [Cases -> {"NONE", OpenCase, "CLEARED", "DISQUALIFIED"}]
      /\ early' \subseteq Cases /\ pc' \in [Admins -> Cases \cup {NoCase}]
  <2>1. /\ case \in [Cases -> {"NONE", OpenCase, "CLEARED", "DISQUALIFIED"}]
        /\ early \subseteq Cases /\ pc \in [Admins -> Cases \cup {NoCase}]
    BY DEF PrizesInv, TypeOK
  <2>2. CASE \E c \in Cases : FileCase(c)
    BY <2>1, <2>2 DEF FileCase, bracketVars, prizeVars
  <2>3. CASE \E a \in Admins, c \in Cases, v \in {"CLEARED", "DISQUALIFIED"} : Resolve(a, c, v)
    BY <2>1, <2>3 DEF Resolve, bracketVars, prizeVars
  <2>4. CASE \E a \in Admins : ReconcileNothing(a)
    BY <2>1, <2>4 DEF ReconcileNothing, Returns, bracketVars, prizeVars
  <2>5. CASE \E a \in Admins : GiveUp(a)
    BY <2>1, <2>5 DEF GiveUp, Returns, bracketVars, prizeVars
  <2> QED  BY <2>2, <2>3, <2>4, <2>5
<1>2. TypeOK'
  BY <1>1 DEF PrizesInv, TypeOK
<1> QED  BY <1>1, <1>2, PrizesStay

LEMMA RelabelledIs ==
  ASSUME TypeOK, NEW p \in Players, NEW to \in AwardStatus
  PROVE  /\ Relabelled(p, to) \in [Versions -> [Players -> AwardStatus]]
         /\ \A v \in Versions, q \in Players :
              Relabelled(p, to)[v][q] = IF q = p /\ award[v][p] = "HELD" THEN to ELSE award[v][q]
BY DEF Relabelled, HeldOf, TypeOK

LEMMA HeldIsCurrent ==
  ASSUME TypeOK, OnlyCurrent, NEW p \in Players, HeldOf(p) # {}
  PROVE  version \in Versions /\ HeldOf(p) = {version} /\ award[version][p] = "HELD"
<1>1. \A v \in HeldOf(p) : v \in Versions /\ award[v][p] = "HELD"
  BY DEF HeldOf
<1>2. \A v \in HeldOf(p) : v = version
  BY <1>1 DEF OnlyCurrent
<1> QED  BY <1>1, <1>2

LEMMA ReleaseKeepsPrizes ==
  ASSUME PrizesInv, NEW a \in Admins, ReleaseHeldAwards(a)
  PROVE  PrizesInv'
<1> DEFINE p == Accused[pc[a]]
<1>1. /\ Carrying(a, "CLEARED") /\ pc[a] \in ByTournament /\ Returns(a)
      /\ UNCHANGED <<status, match, winner, team, placement, version, amount, out, debt, case, early, corrected, prompt>>
      /\ \/ OpenFor(p, ByTournament) /\ UNCHANGED <<settled, award, prizeWon, balance>>
         \/ /\ balance'  = [balance EXCEPT ![p] = @ + SumOver([v \in Versions |-> amount[v][p]], HeldOf(p))]
            /\ award'    = Relabelled(p, "CREDITED")
            /\ prizeWon' = [prizeWon EXCEPT ![p] = IF HeldOf(p) = {} THEN @ ELSE amount[version][p]]
            /\ settled'  = IF NoneHeld(award') THEN TRUE ELSE settled
  BY DEF ReleaseHeldAwards, bracketVars
<1>2. TypeOK /\ p \in Players
  BY <1>1, CasesAssumption DEF PrizesInv, ByTournament
<1>3. pc' \in [Admins -> Cases \cup {NoCase}]
  BY <1>1, <1>2 DEF Returns, TypeOK
<1> HIDE DEF p
<1>4. CASE UNCHANGED <<settled, award, prizeWon, balance>>
  <2>1. TypeOK'
    BY <1>1, <1>2, <1>3, <1>4 DEF TypeOK
  <2> QED  BY <1>1, <1>4, <2>1, PrizesStay
<1>5. CASE /\ balance'  = [balance EXCEPT ![p] = @ + SumOver([v \in Versions |-> amount[v][p]], HeldOf(p))]
           /\ award'    = Relabelled(p, "CREDITED")
           /\ prizeWon' = [prizeWon EXCEPT ![p] = IF HeldOf(p) = {} THEN @ ELSE amount[version][p]]
           /\ settled'  = IF NoneHeld(award') THEN TRUE ELSE settled
  <2> DEFINE f == [v \in Versions |-> amount[v][p]]
             more == IF HeldOf(p) = {} THEN 0 ELSE amount[version][p]
  <2>1. /\ award' \in [Versions -> [Players -> AwardStatus]]
        /\ \A v \in Versions, q \in Players :
             award'[v][q] = IF q = p /\ award[v][p] = "HELD" THEN "CREDITED" ELSE award[v][q]
    BY <1>2, <1>5, RelabelledIs DEF AwardStatus
  <2>2. OnlyCurrent /\ HeldOf(p) \subseteq Versions
    BY DEF PrizesInv, Money, HeldOf
  <2>3. f \in [Versions -> Int] /\ \A v \in Versions : f[v] = amount[v][p] /\ f[v] \in 0 .. Pool
    BY <1>2, AmountsAssumption DEF TypeOK
  <2>4. SumOver(f, HeldOf(p)) = more /\ more \in Int
    <3>1. CASE HeldOf(p) = {}
      <4>1. SumOver(f, {}) = 0
        BY SumEmpty, Zenon
      <4> QED  BY <3>1, <4>1
    <3>2. CASE HeldOf(p) # {}
      <4>1. version \in Versions /\ HeldOf(p) = {version}
        BY <1>2, <2>2, <3>2, HeldIsCurrent
      <4> HIDE DEF f
      <4>2. SumOver(f, {version}) = f[version]
        BY <4>1, <2>3, Finite, OneOf
      <4> QED  BY <4>1, <4>2, <2>3, <3>2, AmountsAssumption
    <3> QED  BY <3>1, <3>2
  <2>5. \A q \in Players : balance'[q] = IF q = p THEN balance[q] + more ELSE balance[q]
    <3> HIDE DEF more
    <3> QED  BY <1>2, <1>5, <2>4 DEF TypeOK
  <2>6. balance' \in [Players -> Int]
    <3>1. SumOver(f, HeldOf(p)) \in Int
      BY <2>4
    <3> HIDE DEF f, more
    <3>2. balance' = [balance EXCEPT ![p] = @ + SumOver(f, HeldOf(p))]
      BY <1>5 DEF f
    <3> QED  BY <1>2, <3>1, <3>2 DEF TypeOK
  <2>7. prizeWon' \in [Players -> 0 .. Pool] /\ settled' \in BOOLEAN
    <3>1. HeldOf(p) # {} => amount[version][p] \in 0 .. Pool
      BY <1>2, <2>2, HeldIsCurrent DEF TypeOK
    <3> QED  BY <1>2, <1>5, <3>1 DEF TypeOK
  <2>8. TypeOK'
    BY <1>1, <1>2, <1>3, <2>1, <2>6, <2>7 DEF TypeOK
  <2>9. \A q \in Players : Paid(q)' <=> Paid(q) \/ (q = p /\ HeldOf(p) # {})
    <3>1. HeldOf(p) # {} => version \in Versions /\ version # 0 /\ award[version][p] = "HELD"
      BY <1>2, <2>2, HeldIsCurrent DEF Versions
    <3>2. version # 0 => version \in Versions
      BY <1>2 DEF TypeOK
    <3>3. HeldOf(p) = {} => \A v \in Versions : award[v][p] # "HELD"
      BY DEF HeldOf
    <3> QED  BY <1>1, <1>2, <2>1, <3>1, <3>2, <3>3 DEF Paid
  <2>10. HeldOf(p) # {} => ~Paid(p)
    BY <1>2, <2>2, HeldIsCurrent DEF Paid
  <2>11. OnlyCurrent' /\ WithinPool'
    <3>1. \A v \in Versions, q \in Players : v # version => award[v][q] \in {"NONE", "REVERSED"}
      BY <2>2 DEF OnlyCurrent
    <3>2. \A v \in Versions, q \in Players : v # version' => award'[v][q] \in {"NONE", "REVERSED"}
      BY <3>1, <1>1, <1>2, <2>1
    <3>3. WithinPool'
      BY <1>1 DEF PrizesInv, Money, WithinPool
    <3> QED  BY <3>2, <3>3 DEF OnlyCurrent
  <2>12. WalletsHold'
    <3>1. ASSUME NEW q \in Players PROVE balance'[q] = PaidNow(q)' - debt'[q]
      <4>1. balance[q] = PaidNow(q) - debt[q] /\ debt[q] \in Int
        BY <1>2, AmountsAssumption DEF PrizesInv, Money, WalletsHold, TypeOK
      <4>2. PaidNow(q)' = IF Paid(q) \/ (q = p /\ HeldOf(p) # {}) THEN amount[version][q] ELSE 0
        BY <1>1, <2>9 DEF PaidNow
      <4>3. Paid(q) \/ (q = p /\ HeldOf(p) # {}) => amount[version][q] \in Int
        BY <1>2, <2>2, HeldIsCurrent, AmountsAssumption DEF Paid, TypeOK
      <4> QED  BY <4>1, <4>2, <4>3, <2>5, <2>10, <1>1 DEF PaidNow
    <3> QED  BY <3>1 DEF WalletsHold
  <2>13. PrizeShownIsPaid'
    <3>1. ASSUME NEW q \in Players, prizeWon'[q] # 0 PROVE Paid(q)' /\ amount'[version'][q] = prizeWon'[q]
      <4>1. CASE q = p /\ HeldOf(p) # {}
        BY <4>1, <1>1, <1>2, <1>5, <2>9 DEF TypeOK
      <4>2. CASE ~(q = p /\ HeldOf(p) # {})
        <5>1. prizeWon'[q] = prizeWon[q]
          BY <4>2, <1>2, <1>5 DEF TypeOK
        <5> QED  BY <5>1, <3>1, <1>1, <2>9 DEF PrizesInv, Money, PrizeShownIsPaid, Paid
      <4> QED  BY <4>1, <4>2
    <3> QED  BY <3>1 DEF PrizeShownIsPaid, Paid
  <2>14. SettledMeansDecided'
    <3>1. ASSUME status = "COMPLETED", version # 0, settled', ~NoneHeld(award') PROVE FALSE
      <4>1. settled
        BY <3>1, <1>5
      <4>2. NoneHeld(award)
        BY <3>1, <4>1 DEF PrizesInv, SettledMeansDecided
      <4>3. NoneHeld(award')
        BY <4>2, <2>1 DEF NoneHeld
      <4> QED  BY <3>1, <4>3
    <3>2. ~settled' => ~NoneHeld(award')
      BY <1>5
    <3> QED  BY <1>1, <3>1, <3>2 DEF SettledMeansDecided
  <2>15. DrawHolds' /\ SettledInOrder'
    BY <1>1, DrawStays DEF PrizesInv, SettledInOrder, Decided
  <2> QED  BY <2>8, <2>11, <2>12, <2>13, <2>14, <2>15 DEF PrizesInv, Money
<1> QED  BY <1>1, <1>4, <1>5

LEMMA DisqualifyKeepsPrizes ==
  ASSUME PrizesInv, NEW a \in Admins, DisqualifyPlayer(a)
  PROVE  PrizesInv'
<1> DEFINE p == Accused[pc[a]]
           now == [team EXCEPT ![TeamOf(p)] = "DISQUALIFIED"]
<1>1. /\ Carrying(a, "DISQUALIFIED") /\ pc[a] \in ByTournament /\ Returns(a)
      /\ out' = out \cup {p}
      /\ UNCHANGED <<debt, case, early, corrected, prompt>>
      /\ \/ /\ InGame(p) = {}
            /\ team' = now
            /\ award' = Relabelled(p, "REVERSED")
            /\ prizeWon' = [prizeWon EXCEPT ![p] = 0]
            /\ UNCHANGED <<status, match, winner, placement, version, settled, amount, balance>>
         \/ \E s \in InGame(p) : \E w \in Contenders(s) \ {TeamOf(p)} : ApplyCompletedMatch(s, w, now)
  BY DEF DisqualifyPlayer
<1>2. TypeOK /\ p \in Players
  BY <1>1, CasesAssumption DEF PrizesInv, ByTournament
<1>3. pc' \in [Admins -> Cases \cup {NoCase}] /\ out' \subseteq Players
  BY <1>1, <1>2 DEF Returns, TypeOK
<1>4. now \in [Teams -> TeamStatus]
  BY <1>2, PlayersPlay DEF TypeOK, TeamStatus
<1> HIDE DEF p, now
<1>5. CASE /\ team' = now
           /\ award' = Relabelled(p, "REVERSED")
           /\ prizeWon' = [prizeWon EXCEPT ![p] = 0]
           /\ UNCHANGED <<status, match, winner, placement, version, settled, amount, balance>>
  <2>1. /\ award' \in [Versions -> [Players -> AwardStatus]]
        /\ \A v \in Versions, q \in Players :
             award'[v][q] = IF q = p /\ award[v][p] = "HELD" THEN "REVERSED" ELSE award[v][q]
    BY <1>2, <1>5, RelabelledIs DEF AwardStatus
  <2>2. prizeWon' \in [Players -> 0 .. Pool] /\ \A q \in Players : prizeWon'[q] \in {0, prizeWon[q]}
    BY <1>2, <1>5, AmountsAssumption DEF TypeOK
  <2>3. TypeOK'
    BY <1>1, <1>2, <1>3, <1>4, <1>5, <2>1, <2>2 DEF TypeOK
  <2>4. \A q \in Players : (Paid(q)' <=> Paid(q)) /\ PaidNow(q)' = PaidNow(q)
    <3>1. version # 0 => version \in Versions
      BY <1>2 DEF TypeOK
    <3>2. \A q \in Players : Paid(q)' <=> Paid(q)
      BY <1>2, <1>5, <2>1, <3>1 DEF Paid
    <3> QED  BY <1>5, <3>2 DEF PaidNow
  <2>5. OnlyCurrent' /\ WithinPool' /\ WalletsHold'
    <3>1. \A v \in Versions, q \in Players : v # version => award[v][q] \in {"NONE", "REVERSED"}
      BY DEF PrizesInv, Money, OnlyCurrent
    <3>2. \A v \in Versions, q \in Players : v # version' => award'[v][q] \in {"NONE", "REVERSED"}
      BY <3>1, <1>2, <1>5, <2>1
    <3>3. WithinPool' /\ WalletsHold'
      BY <1>1, <1>5, <2>4 DEF PrizesInv, Money, WithinPool, WalletsHold
    <3> QED  BY <3>2, <3>3 DEF OnlyCurrent
  <2>6. PrizeShownIsPaid'
    <3>1. \A q \in Players : prizeWon'[q] # 0 => Paid(q)' /\ amount'[version'][q] = prizeWon'[q]
      BY <1>5, <2>2, <2>4 DEF PrizesInv, Money, PrizeShownIsPaid, Paid
    <3> QED  BY <3>1 DEF PrizeShownIsPaid, Paid
  <2>7. SettledMeansDecided'
    <3>1. ASSUME status = "COMPLETED", version # 0, settled PROVE NoneHeld(award')
      <4>1. NoneHeld(award)
        BY <3>1 DEF PrizesInv, SettledMeansDecided
      <4> QED  BY <4>1, <2>1 DEF NoneHeld
    <3> QED  BY <1>1, <1>5, <3>1 DEF SettledMeansDecided
  <2>8. DrawHolds' /\ SettledInOrder'
    BY <1>1, <1>5, DrawStays DEF PrizesInv, SettledInOrder, Decided
  <2> QED  BY <2>3, <2>5, <2>6, <2>7, <2>8 DEF PrizesInv, Money
<1>6. ASSUME NEW s \in InGame(p), NEW w \in Contenders(s) \ {TeamOf(p)}, ApplyCompletedMatch(s, w, now)
      PROVE  PrizesInv'
  <2>1. s \in Slots /\ match[s] = "PLAYING" /\ w \in Contenders(s) /\ UNCHANGED <<debt, corrected>>
    BY <1>1, <1>6 DEF InGame
  <2>2. /\ status' \in {"IN_PROGRESS", "COMPLETED"} /\ version' \in {0} \cup Versions
        /\ settled' \in BOOLEAN /\ award' \in [Versions -> [Players -> AwardStatus]]
        /\ amount' \in [Versions -> [Players -> 0 .. Pool]] /\ prizeWon' \in [Players -> 0 .. Pool]
        /\ balance' \in [Players -> Int] /\ match' \in [Slots -> {"NONE", "PLAYING", "OVER"}]
        /\ winner' \in [Slots -> Teams \cup {NoTeam}] /\ team' \in [Teams -> TeamStatus]
        /\ placement' \in [Teams -> 0 .. TwoTo[Rounds]]
        /\ DrawHolds' /\ SettledInOrder' /\ Money' /\ SettledMeansDecided'
    BY <1>4, <1>6, <2>1, MatchApplied
  <2>3. TypeOK'
    BY <1>1, <1>2, <1>3, <2>2 DEF TypeOK
  <2> QED  BY <2>2, <2>3 DEF PrizesInv
<1> QED  BY <1>1, <1>5, <1>6

LEMMA CorrectKeepsPrizes ==
  ASSUME PrizesInv, NEW r \in Requests, NEW c, NEW u, <<c, u>> \in Rulings, CorrectResults(r, c, u)
  PROVE  /\ PrizesInv'
         /\ version' = version + 1
         /\ \A p \in Players : HeldOf(p)' # {} => OpenFor(p, ByTournament)
         /\ version # 0 => \A p \in Players : award'[1][p] \in {award[1][p], "REVERSED"}
<1> DEFINE places == [t \in {c, u} |-> IF t = c THEN 1 ELSE 2]
<1>1. /\ r \notin corrected /\ status = "COMPLETED" /\ c # u /\ corrected' = corrected \cup {r}
      /\ team' = Corrected(c, u) /\ placement' = [placement EXCEPT ![c] = 1, ![u] = 2]
      /\ Awards(Reversed, places, TakenBack, ByTournament)
      /\ UNCHANGED <<status, match, winner, out, debt, case, early, pc, prompt>>
  BY DEF CorrectResults, NewRequest, CreditCorrectionTeams, caseVars
<1>2. c \in Teams /\ u \in Teams
  BY CasesAssumption
<1>3. TypeOK /\ OnlyCurrent /\ corrected \in SUBSET Requests /\ version <= Cardinality(corrected) + 1
  BY DEF PrizesInv, SettledInOrder, Money
<1>4. version \in Nat /\ version + 1 \in Versions /\ version + 1 <= Cardinality(corrected') + 1
  <2>1. Cardinality(corrected) \in Nat /\ Cardinality(corrected') = Cardinality(corrected) + 1
        /\ Cardinality(corrected) + 1 <= Cardinality(Requests)
    BY <1>1, <1>3, RequestsAreCounted
  <2>2. version \in Nat /\ Cardinality(Requests) \in Nat
    BY <1>3, AmountsAssumption, FS_CardinalityType DEF TypeOK, Versions
  <2> QED  BY <2>1, <2>2, <1>3 DEF Versions
<1>5. IsPlaces(places)
  <2>1. DOMAIN places = {c, u} /\ places = [t \in DOMAIN places |-> IF t = c THEN 1 ELSE 2]
    OBVIOUS
  <2> HIDE DEF places
  <2> QED  BY <2>1, <1>1, <1>2 DEF IsPlaces
<1>6. /\ Reversed \in [Versions -> [Players -> AwardStatus]]
      /\ \A v \in Versions, p \in Players : /\ Reversed[v][p] \in {"NONE", "REVERSED"}
                                            /\ Reversed[v][p] \in {award[v][p], "REVERSED"}
  <2>1. award \in [Versions -> [Players -> AwardStatus]]
    BY <1>3 DEF TypeOK
  <2>2. \A v \in Versions, p \in Players : v # version => Reversed[v] = award[v] /\ award[v][p] \in {"NONE", "REVERSED"}
    BY <1>3, <2>1 DEF Reversed, OnlyCurrent
  <2>3. \A p \in Players : version \in Versions =>
             Reversed[version][p] = IF award[version][p] \in {"CREDITED", "HELD"} THEN "REVERSED" ELSE award[version][p]
    BY <2>1 DEF Reversed
  <2>4. Reversed \in [Versions -> [Players -> AwardStatus]]
    BY <2>1 DEF Reversed, AwardStatus
  <2>5. ASSUME NEW v \in Versions, NEW p \in Players
        PROVE  Reversed[v][p] \in {"NONE", "REVERSED"} /\ Reversed[v][p] \in {award[v][p], "REVERSED"}
    <3>1. award[v][p] \in AwardStatus
      BY <2>1
    <3>2. CASE v # version
      BY <2>2, <3>2
    <3>3. CASE v = version
      BY <2>3, <3>1, <3>3 DEF AwardStatus
    <3> QED  BY <3>2, <3>3
  <2> QED  BY <2>4, <2>5
<1>7. TakenBack \in [Players -> Int] /\ \A p \in Players : TakenBack[p] = -debt[p]
  <2>1. ASSUME NEW p \in Players PROVE TakenBack[p] = -debt[p] /\ debt[p] \in Int
    <3>1. balance[p] = PaidNow(p) - debt[p] /\ debt[p] \in Int /\ balance[p] \in Int
      BY <1>3, AmountsAssumption DEF PrizesInv, Money, WalletsHold, TypeOK
    <3>2. TakenBack[p] = IF Paid(p) THEN balance[p] - amount[version][p] ELSE balance[p]
      BY DEF TakenBack
    <3>3. Paid(p) => amount[version][p] \in Int
      BY <1>3, AmountsAssumption DEF Paid, TypeOK
    <3> QED  BY <3>1, <3>2, <3>3 DEF PaidNow
  <2>2. TakenBack = [p \in Players |-> TakenBack[p]]
    BY DEF TakenBack
  <2>3. \A p \in Players : TakenBack[p] \in Int
    BY <2>1
  <2> QED  BY <2>1, <2>2, <2>3
<1> HIDE DEF places
<1>8. /\ version' = version + 1
      /\ settled' \in BOOLEAN /\ award' \in [Versions -> [Players -> AwardStatus]]
      /\ amount' \in [Versions -> [Players -> 0 .. Pool]] /\ prizeWon' \in [Players -> 0 .. Pool]
      /\ balance' \in [Players -> Int]
      /\ OnlyCurrent' /\ WithinPool' /\ WalletsHold' /\ PrizeShownIsPaid'
      /\ settled' <=> NoneHeld(award')
      /\ \A p \in Players : HeldOf(p)' # {} => OpenFor(p, ByTournament)
      /\ \A v \in Versions : v # version + 1 => award'[v] = Reversed[v]
  <2> DEFINE before == Reversed
             bal == TakenBack
             C == ByTournament
  <2>1. /\ before \in [Versions -> [Players -> AwardStatus]]
        /\ \A v \in Versions, p \in Players : before[v][p] \in {"NONE", "REVERSED"}
        /\ bal \in [Players -> Int] /\ \A p \in Players : bal[p] = -debt[p]
        /\ Awards(before, places, bal, C)
    BY <1>1, <1>6, <1>7
  <2>2. debt' = debt
    BY <1>1
  <2> HIDE DEF before, bal, C
  <2>3. /\ version' = version + 1
        /\ settled' \in BOOLEAN /\ award' \in [Versions -> [Players -> AwardStatus]]
        /\ amount' \in [Versions -> [Players -> 0 .. Pool]] /\ prizeWon' \in [Players -> 0 .. Pool]
        /\ balance' \in [Players -> Int]
        /\ OnlyCurrent' /\ WithinPool' /\ WalletsHold' /\ PrizeShownIsPaid'
        /\ settled' <=> NoneHeld(award')
        /\ \A p \in Players : HeldOf(p)' # {} => OpenFor(p, C)
        /\ \A v \in Versions : v # version + 1 => award'[v] = before[v]
    BY <1>3, <1>4, <1>5, <2>1, <2>2, AwardsMade
  <2> QED  BY <2>3 DEF before, C
<1>9. TypeOK'
  <2>1. team' \in [Teams -> TeamStatus]
    BY <1>1, <1>3 DEF Corrected, TypeOK, TeamStatus
  <2>2. placement' \in [Teams -> 0 .. TwoTo[Rounds]]
    <3>1. Rounds \in 0 .. Rounds /\ Rounds # 0 /\ Rounds - 1 \in 0 .. Rounds
      BY DrawAssumption
    <3>2. TwoTo[Rounds] = 2 * TwoTo[Rounds - 1] /\ TwoTo[Rounds - 1] \in Nat \ {0}
      BY <3>1, TwoToIs, TwoToGrows
    <3>3. 1 \in 0 .. TwoTo[Rounds] /\ 2 \in 0 .. TwoTo[Rounds]
      BY <3>2
    <3>4. placement \in [Teams -> 0 .. TwoTo[Rounds]]
      BY <1>3 DEF TypeOK
    <3> QED  BY <1>1, <1>2, <3>3, <3>4
  <2>3. corrected' \subseteq Requests /\ version' \in {0} \cup Versions
    BY <1>1, <1>3, <1>4, <1>8
  <2> QED  BY <1>1, <1>3, <1>8, <2>1, <2>2, <2>3 DEF TypeOK
<1>10. DrawHolds'
  BY <1>1, DrawStays DEF PrizesInv
<1>11. SettledInOrder' /\ SettledMeansDecided'
  <2>1. corrected' \subseteq Requests /\ version' <= Cardinality(corrected') + 1 /\ status' = "COMPLETED"
    BY <1>1, <1>3, <1>4, <1>8
  <2> QED  BY <2>1, <1>4, <1>8 DEF SettledInOrder, SettledMeansDecided
<1>12. version # 0 => \A p \in Players : award'[1][p] \in {award[1][p], "REVERSED"}
  <2>1. ASSUME version # 0 PROVE 1 \in Versions /\ 1 # version + 1
    BY <2>1, <1>4, AmountsAssumption, FS_CardinalityType DEF Versions
  <2> QED  BY <2>1, <1>6, <1>8
<1> QED  BY <1>8, <1>9, <1>10, <1>11, <1>12 DEF PrizesInv, Money

LEMMA PrizesStart == Init => PrizesInv
<1> SUFFICES ASSUME Init PROVE PrizesInv
  OBVIOUS
<1>1. 1 \in Versions /\ 0 \notin Versions /\ Cardinality({}) = 0
  BY AmountsAssumption, FS_CardinalityType, FS_EmptySet DEF Versions
<1>2. TypeOK
  <2>1. TwoTo[Rounds] \in Nat /\ Pool \in Nat /\ MaxDebt \in Nat
    BY TwoToGrows, DrawAssumption, AmountsAssumption
  <2>2. /\ status \in {"IN_PROGRESS", "COMPLETED", "CANCELLED"} /\ version \in {0} \cup Versions
        /\ settled \in BOOLEAN /\ out \subseteq Players
    BY DEF Init
  <2>6. match \in [Slots -> {"NONE", "PLAYING", "OVER"}] /\ winner \in [Slots -> Teams \cup {NoTeam}]
    BY DEF Init
  <2>7. team \in [Teams -> TeamStatus] /\ balance \in [Players -> Int]
    BY DEF Init, TeamStatus
  <2>3. /\ placement \in [Teams -> 0 .. TwoTo[Rounds]] /\ prizeWon \in [Players -> 0 .. Pool]
        /\ debt \in [Players -> 0 .. MaxDebt]
    BY <2>1 DEF Init
  <2>4. /\ award \in [Versions -> [Players -> AwardStatus]]
        /\ amount \in [Versions -> [Players -> 0 .. Pool]]
    BY <2>1 DEF Init, AwardStatus
  <2>5. /\ case \in [Cases -> {"NONE", OpenCase, "CLEARED", "DISQUALIFIED"}]
        /\ early \subseteq Cases /\ corrected \subseteq Requests
        /\ pc \in [Admins -> Cases \cup {NoCase}] /\ prompt \in Promptness
    BY DEF Init
  <2> QED  BY <2>2, <2>3, <2>4, <2>5, <2>6, <2>7 DEF TypeOK
<1>3. DrawHolds
  <2>1. \A s \in Slots : ~Decided(s) /\ (match[s] = IF s[1] = 1 THEN "PLAYING" ELSE "NONE") /\ s[1] \in Nat /\ s[1] # 0
    BY SlotIs DEF Init, Decided
  <2>2. \A s \in Slots : s[1] > 1 => \E q \in Sources(s) : ~Decided(q)
    <3>1. ASSUME NEW s \in Slots, s[1] > 1 PROVE \E q \in Sources(s) : ~Decided(q)
      <4>1. PICK q, r \in Sources(s) : Sources(s) = {q, r}
        BY <3>1, SourcesAreSlots
      <4>2. q \in Slots
        BY <3>1, SourcesAreSlots
      <4> QED  BY <4>2, <2>1
    <3> QED  BY <3>1
  <2> QED  BY <2>1, <2>2, FinalIsLast DEF DrawHolds
<1>4. SettledInOrder /\ SettledMeansDecided
  BY <1>1, FinalIsLast DEF Init, SettledInOrder, Decided, SettledMeansDecided
<1>5. OnlyCurrent /\ WithinPool /\ PrizeShownIsPaid
  BY DEF Init, OnlyCurrent, WithinPool, PrizeShownIsPaid
<1>6. WalletsHold
  BY DEF Init, WalletsHold, PaidNow, Paid
<1> QED  BY <1>2, <1>3, <1>4, <1>5, <1>6 DEF PrizesInv, Money
-----------------------------------------------------------------------------
(* What the prizes invariant says of the properties.                         *)

LEMMA PrizesKept ==
  PrizesInv /\ [Next]_vars => PrizesInv'
<1> SUFFICES ASSUME PrizesInv, [Next]_vars PROVE PrizesInv'
  OBVIOUS
<1>1. CASE \E s \in Slots, w \in Teams : EndMatch(s, w)
  BY <1>1, EndMatchKeepsPrizes
<1>2. CASE \E p \in Spenders : Chargeback(p)
  BY <1>2, ChargebackKeepsPrizes
<1>3. CASE \E to \in {"COMPLETED", "CANCELLED"} : EditStatus(to)
  BY <1>3, EditStatusKeepsPrizes
<1>4. CASE \/ \E c \in Cases : FileCase(c)
           \/ \E a \in Admins, c \in Cases, v \in {"CLEARED", "DISQUALIFIED"} : Resolve(a, c, v)
           \/ \E a \in Admins : ReconcileNothing(a) \/ GiveUp(a)
  BY <1>4, CasesKeepPrizes
<1>5. CASE \E a \in Admins : ReleaseHeldAwards(a)
  BY <1>5, ReleaseKeepsPrizes
<1>6. CASE \E a \in Admins : DisqualifyPlayer(a)
  BY <1>6, DisqualifyKeepsPrizes
<1>7. CASE \E r \in Requests, x \in Rulings : CorrectResults(r, x[1], x[2])
  <2>1. PICK r \in Requests, x \in Rulings : CorrectResults(r, x[1], x[2])
    BY <1>7
  <2>2. <<x[1], x[2]>> \in Rulings
    BY CasesAssumption
  <2> QED  BY <2>1, <2>2, CorrectKeepsPrizes
<1>8. CASE UNCHANGED vars
  <2>1. UNCHANGED <<status, match, winner, team, placement, version, settled, award, amount, prizeWon, balance,
                    out, debt, case, early, pc, corrected, prompt>>
    BY <1>8 DEF vars, bracketVars, prizeVars, caseVars
  <2>2. TypeOK'
    BY <2>1 DEF PrizesInv, TypeOK
  <2> QED  BY <2>1, <2>2, PrizesStay
<1> QED  BY <1>1, <1>2, <1>3, <1>4, <1>5, <1>6, <1>7, <1>8 DEF Next

(* A player's awards of every version come to his award of the current one.  *)
LEMMA OnePrizeEach ==
  ASSUME PrizesInv, NEW p \in Players
  PROVE  /\ Credited(p) = PaidNow(p)
         /\ Owed(p) = IF HeldOf(p) # {} THEN amount[version][p] ELSE 0
         /\ Credited(p) + Owed(p) \in Nat
         /\ Credited(p) + Owed(p) <= IF version = 0 THEN 0 ELSE amount[version][p]
<1> DEFINE f == [v \in Versions |-> IF award[v][p] = "CREDITED" THEN amount[v][p] ELSE 0]
           g == [v \in Versions |-> IF award[v][p] = "HELD" THEN amount[v][p] ELSE 0]
           cur == Versions \cap {version}
<1>1. TypeOK /\ OnlyCurrent
  BY DEF PrizesInv, Money
<1>2. \A v \in Versions : amount[v][p] \in Nat /\ award[v][p] \in AwardStatus
  BY <1>1, AmountsAssumption DEF TypeOK
<1>3. f \in [Versions -> Int] /\ g \in [Versions -> Int] /\ IsFiniteSet(Versions)
  BY <1>2, Finite
<1>4. \A v \in Versions \ cur : f[v] = 0 /\ g[v] = 0
  BY <1>1 DEF OnlyCurrent
<1>5. cur \in SUBSET Versions /\ (version = 0 => cur = {}) /\ (version # 0 => cur = {version} /\ version \in Versions)
  BY <1>1 DEF TypeOK, Versions
<1>6. \A v \in cur : f[v] = f[v] /\ g[v] = g[v]
  OBVIOUS
<1>7. /\ version # 0 => f[version] = PaidNow(p)
      /\ version # 0 => g[version] = IF HeldOf(p) # {} THEN amount[version][p] ELSE 0
      /\ version = 0 => PaidNow(p) = 0 /\ HeldOf(p) = {}
  <2>1. HeldOf(p) # {} => version \in Versions /\ award[version][p] = "HELD"
    BY <1>1, HeldIsCurrent
  <2>2. version \in Versions /\ award[version][p] = "HELD" => HeldOf(p) # {}
    BY DEF HeldOf
  <2>3. version # 0 <=> version \in Versions
    BY <1>5 DEF Versions
  <2> QED  BY <2>1, <2>2, <2>3 DEF PaidNow, Paid
<1>8. /\ version # 0 => /\ amount[version][p] \in Nat /\ award[version][p] \in AwardStatus
                        /\ HeldOf(p) # {} => award[version][p] = "HELD"
  BY <1>1, <1>2, <1>5, HeldIsCurrent
<1> HIDE DEF f, g, cur
<1>9. SumOver(f, Versions) = SumOver(f, cur) /\ SumOver(g, Versions) = SumOver(g, cur)
  <2>1. \A v \in cur : f[v] = f[v]
    OBVIOUS
  <2>2. \A v \in cur : g[v] = g[v]
    OBVIOUS
  <2>3. \A v \in Versions \ cur : f[v] = 0
    BY <1>4
  <2>4. \A v \in Versions \ cur : g[v] = 0
    BY <1>4
  <2>5. SumOver(f, Versions) = SumOver(f, cur)
    BY <1>3, <1>5, <2>1, <2>3, SumWithin
  <2>6. SumOver(g, Versions) = SumOver(g, cur)
    BY <1>3, <1>5, <2>2, <2>4, SumWithin
  <2> QED  BY <2>5, <2>6
<1>10. CASE version = 0
  <2>1. SumOver(f, {}) = 0 /\ SumOver(g, {}) = 0
    BY SumEmpty, Zenon
  <2>2. SumOver(f, Versions) = 0 /\ SumOver(g, Versions) = 0
    BY <1>5, <1>9, <1>10, <2>1
  <2>3. Credited(p) = 0 /\ Owed(p) = 0
    BY <2>2 DEF Credited, Owed, f, g
  <2> QED  BY <2>3, <1>7, <1>10
<1>11. CASE version # 0
  <2>1. SumOver(f, {version}) = f[version] /\ SumOver(g, {version}) = g[version]
    BY <1>3, <1>5, <1>11, OneOf
  <2>2. SumOver(f, Versions) = f[version] /\ SumOver(g, Versions) = g[version]
    BY <1>5, <1>9, <1>11, <2>1
  <2>3. Credited(p) = f[version] /\ Owed(p) = g[version]
    BY <2>2 DEF Credited, Owed, f, g
  <2>4. HeldOf(p) # {} => PaidNow(p) = 0
    BY <1>8, <1>11 DEF PaidNow, Paid
  <2>5. PaidNow(p) \in {0, amount[version][p]}
    BY DEF PaidNow
  <2> QED  BY <2>3, <2>4, <2>5, <1>7, <1>8, <1>11
<1> QED  BY <1>10, <1>11

LEMMA PrizesAreInPool ==
  ASSUME PrizesInv PROVE NeverOverPool
<1> DEFINE all == [p \in Players |-> Credited(p) + Owed(p)]
           top == IF version = 0 THEN [p \in Players |-> 0] ELSE amount[version]
           rest == [p \in Players |-> top[p] - all[p]]
<1>1. \A p \in Players : all[p] \in Nat /\ all[p] <= top[p]
  BY OnePrizeEach
<1>2. top \in [Players -> Nat]
  <2>1. TypeOK /\ Pool \in Nat
    BY AmountsAssumption DEF PrizesInv
  <2> QED  BY <2>1 DEF TypeOK
<1>3. SumOver(top, Players) <= Pool
  <2>1. CASE version = 0
    <3>1. SumOver([p \in Players |-> 0], Players) = Cardinality(Players) * 0
      <4>1. 0 \in Int /\ IsFiniteSet(Players)
        BY Finite
      <4> QED  BY <4>1, SumConstant, Zenon
    <3> QED  BY <3>1, <2>1, Finite, FS_CardinalityType, AmountsAssumption
  <2>2. CASE version # 0
    BY <2>2 DEF PrizesInv, Money, WithinPool
  <2> QED  BY <2>1, <2>2
<1>4. all \in [Players -> Int] /\ rest \in [Players -> Nat] /\ \A p \in Players : top[p] = all[p] + rest[p]
  <2> HIDE DEF all, top
  <2>1. all = [p \in Players |-> all[p]]
    BY DEF all
  <2>2. \A p \in Players : all[p] \in Int /\ top[p] \in Int
    BY <1>1, <1>2
  <2>3. \A p \in Players : top[p] - all[p] \in Nat
    BY <1>1, <1>2
  <2> QED  BY <2>1, <2>2, <2>3
<1> HIDE DEF all, top, rest
<1>5. SumOver(top, Players) = SumOver(all, Players) + SumOver(rest, Players)
  <2>1. top \in [Players -> Int] /\ rest \in [Players -> Int] /\ Players \in SUBSET Players
    BY <1>2, <1>4
  <2> QED  BY <1>4, <2>1, Finite, SumPlus
<1>6. SumOver(rest, Players) \in Nat /\ SumOver(all, Players) \in Int
  BY <1>4, Finite, SumIsNat, SumIsInt
<1>7. SumOver(all, Players) <= Pool
  BY <1>3, <1>5, <1>6, AmountsAssumption
<1> QED  BY <1>7 DEF NeverOverPool, all

LEMMA PrizesAreWhatTheyAre ==
  ASSUME PrizesInv PROVE PrizesAreReal /\ BracketReachesItsEnd
<1>1. NeverOverPool
  BY PrizesAreInPool
<1>2. WalletsHoldThePrizes
  BY OnePrizeEach DEF PrizesInv, Money, WalletsHold, WalletsHoldThePrizes
<1>3. BracketMovesOn
  BY SomeGameIsPlayed DEF PrizesInv, BracketMovesOn
<1> QED  BY <1>1, <1>2, <1>3 DEF PrizesInv, Money, PrizesAreReal, BracketReachesItsEnd

(* The invariant of the draw and its prizes, under every interleaving of     *)
(* results, verdicts, corrections and failures.                              *)
THEOREM PrizesInvariance == Spec => []PrizesInv
<1>1. Init => PrizesInv
  BY PrizesStart
<1>2. PrizesInv /\ [Next]_vars => PrizesInv'
  BY PrizesKept
<1> QED  BY <1>1, <1>2, PTL DEF Spec

(* Whatever is corrected, held, released or reversed, the prizes paid and    *)
(* held are within the pool, in the wallets, and as players see them.        *)
THEOREM PrizesAlwaysReal == Spec => []PrizesAreReal
<1>1. PrizesInv => PrizesAreReal
  BY PrizesAreWhatTheyAre
<1> QED  BY <1>1, PrizesInvariance, PTL

(* A running bracket always has a game that can end, for any number of       *)
(* rounds; a tournament that has awarded prizes is settled when they are     *)
(* decided, and not before.                                                  *)
THEOREM BracketAlwaysReachesItsEnd == Spec => []BracketReachesItsEnd
<1>1. PrizesInv => BracketReachesItsEnd
  BY PrizesAreWhatTheyAre
<1> QED  BY <1>1, PrizesInvariance, PTL
-----------------------------------------------------------------------------
(* Every step keeps the reasons for which prizes are withheld.               *)

(* What the reasons are about, and a step of no case at all.                 *)
LEMMA ReasonsStay ==
  ASSUME PrizesInv, ReasonsInv, UNCHANGED <<status, match, winner, team, version, award, case, early, pc, prompt>>
  PROVE  ReasonsInv'
<1>1. /\ \A c \in Cases : (Pending(c)' <=> Pending(c)) /\ (Reason(c)' <=> Reason(c)) /\ (Over(c)' <=> Over(c))
      /\ \A c : Lost(c)' <=> Lost(c)
      /\ \A p : HeldOf(p)' = HeldOf(p)
      /\ InTime' = InTime
  BY DEF Pending, Reason, Over, Lost, HeldOf, InTime, Decided
<1>2. VerdictsFit'
  BY DEF ReasonsInv, VerdictsFit
<1>3. HeldForReason'
  BY <1>1 DEF ReasonsInv, HeldForReason
<1>4. InTime \subseteq Cases
  BY DEF PrizesInv, TypeOK, InTime
<1>5. VerdictsCount'
  BY <1>1, <1>4 DEF ReasonsInv, VerdictsCount
<1> QED  BY <1>2, <1>3, <1>5 DEF ReasonsInv

(* A player of a lost case is of a team that did not win the final.          *)
LEMMA InTimeIs ==
  ASSUME PrizesInv, NEW c \in InTime
  PROVE  /\ c \in Cases /\ c \in ByTournament /\ Accused[c] \in Players
         /\ TeamOf(Accused[c]) \in Teams
         /\ Accused[c]' = Accused[c] /\ TeamOf(Accused[c])' = TeamOf(Accused[c])
<1>1. c \in Cases /\ c \notin AboutMatch
  BY DEF PrizesInv, TypeOK, InTime
<1>2. Accused[c] \in Players
  BY <1>1, CasesAssumption
<1> QED  BY <1>1, <1>2, PlayersPlay DEF ByTournament, TeamOf

(* The end of a game, when no verdict is under way any longer.               *)
LEMMA MatchKeepsReasons ==
  ASSUME PrizesInv, ReasonsInv, NEW s \in Slots, NEW w \in Contenders(s), match[s] = "PLAYING",
         NEW now, now \in [Teams -> TeamStatus], \A t \in Teams : now[t] = team[t] \/ now[t] = "DISQUALIFIED",
         ApplyCompletedMatch(s, w, now), UNCHANGED <<debt, corrected, case, early, prompt>>,
         pc' \in [Admins -> Cases \cup {NoCase}],
         \A b \in Admins : pc'[b] # NoCase => pc'[b] = pc[b],
         prompt => \A b \in Admins : pc'[b] = NoCase,
         prompt => \A c \in ByTournament : case[c] = "DISQUALIFIED" =>
                      now[TeamOf(Accused[c])] = "DISQUALIFIED" \/ Over(c)
  PROVE  ReasonsInv'
<1>1. /\ status = "IN_PROGRESS" /\ version = 0
      /\ DrawHolds'
      /\ \A t \in Teams : now[t] = "DISQUALIFIED" => team'[t] = "DISQUALIFIED" \/ (s = Final /\ t = w)
      /\ s # Final => UNCHANGED <<status, prizeVars>> /\ winner'[Final] = winner[Final]
      /\ s = Final => /\ status' = "COMPLETED" /\ version' = 1 /\ winner'[Final] = w
                      /\ \A p \in Players : HeldOf(p)' # {} => OpenFor(p, Cases)
                      /\ \A p \in Players : award'[1][p] # "NONE" =>
                           TeamOf(p) = w \/ now[TeamOf(p)] # "DISQUALIFIED"
                      /\ \A p \in Players : award'[1][p] = "CREDITED" => ~OpenFor(p, Cases)
  BY MatchApplied
<1>2. VerdictsFit'
  BY DEF ReasonsInv, VerdictsFit
<1>3. HeldForReason'
  <2>1. SUFFICES ASSUME prompt, NEW p \in Players, HeldOf(p)' # {}
                 PROVE  \E c \in Cases : Accused[c] = p /\ Reason(c)'
    BY DEF HeldForReason
  <2>2. CASE s = Final
    <3>1. OpenFor(p, Cases)
      BY <1>1, <2>1, <2>2
    <3> QED  BY <3>1 DEF OpenFor, Reason
  <2>3. CASE s # Final
    <3>1. HeldOf(p) # {}
      BY <1>1, <2>1, <2>3 DEF HeldOf, prizeVars
    <3>2. OnlyCurrent /\ TypeOK
      BY DEF PrizesInv, Money
    <3>3. version # 0
      BY <2>1, <3>1, <3>2, HeldIsCurrent DEF Versions
    <3> QED  BY <3>3, <1>1
  <2> QED  BY <2>2, <2>3
<1>4. VerdictsCount'
  <2>1. SUFFICES ASSUME prompt, NEW c \in InTime
                 PROVE  LET p == Accused[c] IN
                        /\ status' = "IN_PROGRESS" /\ Over(c)' => team'[TeamOf(p)] = "DISQUALIFIED"
                        /\ Lost(c)' /\ award'[1][p] = "CREDITED" => case'[c] = "CLEARED"
                        /\ Lost(c)' /\ Over(c)' => award'[1][p] # "HELD"
    BY InTimeIs DEF VerdictsCount, InTime
  <2> DEFINE p == Accused[c]
  <2>2. c \in Cases /\ c \in ByTournament /\ p \in Players /\ TeamOf(p) \in Teams
    BY InTimeIs
  <2>3. Over(c)' => now[TeamOf(p)] = "DISQUALIFIED"
    <3>1. ASSUME Over(c)' PROVE now[TeamOf(p)] = "DISQUALIFIED" \/ Over(c)
      BY <3>1, <2>1, <2>2 DEF Over
    <3>2. Over(c) => team[TeamOf(p)] = "DISQUALIFIED"
      BY <1>1, <2>1 DEF ReasonsInv, VerdictsCount
    <3> QED  BY <3>1, <3>2, <2>2
  <2>4. case[c] # "NONE" /\ case[c] \in {"NONE", OpenCase, "CLEARED", "DISQUALIFIED"}
    BY <2>2 DEF ReasonsInv, VerdictsFit, InTime, PrizesInv, TypeOK
  <2>5. CASE s # Final
    <3>1. ~Decided(Final)
      BY <1>1 DEF PrizesInv, DrawHolds
    <3>2. ~Lost(c)'
      BY <3>1, <1>1, <2>5 DEF Lost, Decided
    <3> QED  BY <3>2, <2>2, <2>3, <2>5, <1>1
  <2>6. CASE s = Final
    <3>1. Lost(c)' => TeamOf(p) # w
      BY <1>1, <2>6, <2>2 DEF Lost
    <3>2. case[c] = OpenCase => award'[1][p] # "CREDITED"
      BY <1>1, <2>2, <2>6 DEF OpenFor
    <3>3. Lost(c)' /\ now[TeamOf(p)] = "DISQUALIFIED" => award'[1][p] = "NONE"
      BY <3>1, <1>1, <2>2, <2>6
    <3>4. case[c] = "DISQUALIFIED" => Over(c)' \/ Pending(c)'
      BY <2>2 DEF Over
    <3>5. ~Pending(c)'
      BY <2>1, <2>2, NobodyAssumption DEF Pending
    <3> QED  BY <3>1, <3>2, <3>3, <3>4, <3>5, <2>3, <2>4, <2>6, <1>1
  <2> QED  BY <2>5, <2>6
<1> QED  BY <1>2, <1>3, <1>4 DEF ReasonsInv

LEMMA EndMatchKeepsReasons ==
  ASSUME PrizesInv, ReasonsInv, NEW s \in Slots, NEW w \in Teams, EndMatch(s, w)
  PROVE  ReasonsInv'
<1>1. /\ match[s] = "PLAYING" /\ w \in Contenders(s) /\ ApplyCompletedMatch(s, w, team) /\ Undisturbed
      /\ UNCHANGED <<debt, corrected, case, early, prompt, pc>>
  BY DEF EndMatch, caseVars
<1>2. team \in [Teams -> TeamStatus] /\ pc' \in [Admins -> Cases \cup {NoCase}]
  BY <1>1 DEF PrizesInv, TypeOK
<1>3. prompt => \A b \in Admins : pc'[b] = NoCase
  BY <1>1 DEF Undisturbed
<1>4. prompt => \A c \in ByTournament : case[c] = "DISQUALIFIED" => team[TeamOf(Accused[c])] = "DISQUALIFIED" \/ Over(c)
  BY <1>1, <1>3, NobodyAssumption DEF Over, Pending, ByTournament
<1>5. /\ \A b \in Admins : pc'[b] # NoCase => pc'[b] = pc[b]
      /\ \A t \in Teams : team[t] = team[t] \/ team[t] = "DISQUALIFIED"
      /\ UNCHANGED <<debt, corrected, case, early, prompt>>
  BY <1>1
<1> DEFINE now == team
<1>6. now \in [Teams -> TeamStatus] /\ \A t \in Teams : now[t] = team[t] \/ now[t] = "DISQUALIFIED"
  BY <1>2
<1>7. ApplyCompletedMatch(s, w, now)
  BY <1>1
<1>8. prompt => \A c \in ByTournament : case[c] = "DISQUALIFIED" => now[TeamOf(Accused[c])] = "DISQUALIFIED" \/ Over(c)
  BY <1>4
<1> HIDE DEF now
<1> QED  BY <1>1, <1>2, <1>3, <1>5, <1>6, <1>7, <1>8, MatchKeepsReasons

LEMMA DisqualifyKeepsReasons ==
  ASSUME PrizesInv, ReasonsInv, NEW a \in Admins, DisqualifyPlayer(a)
  PROVE  ReasonsInv'
<1> DEFINE d == pc[a]
           p == Accused[d]
           now == [team EXCEPT ![TeamOf(p)] = "DISQUALIFIED"]
<1>1. /\ Carrying(a, "DISQUALIFIED") /\ d \in ByTournament /\ Returns(a)
      /\ UNCHANGED <<debt, case, early, corrected, prompt>>
      /\ \/ /\ team' = now
            /\ award' = Relabelled(p, "REVERSED")
            /\ UNCHANGED <<status, match, winner, version>>
         \/ \E s \in InGame(p) : \E w \in Contenders(s) \ {TeamOf(p)} : ApplyCompletedMatch(s, w, now)
  BY DEF DisqualifyPlayer
<1>2. TypeOK /\ p \in Players /\ d \in Cases
  BY <1>1, CasesAssumption DEF PrizesInv, ByTournament
<1>3. /\ pc' \in [Admins -> Cases \cup {NoCase}] /\ pc'[a] = NoCase
      /\ \A b \in Admins : b # a => pc'[b] = pc[b]
  BY <1>1, <1>2 DEF Returns, TypeOK
<1>4. /\ now \in [Teams -> TeamStatus] /\ now[TeamOf(p)] = "DISQUALIFIED"
      /\ \A t \in Teams : now[t] = team[t] \/ now[t] = "DISQUALIFIED"
  BY <1>2, PlayersPlay DEF TypeOK, TeamStatus
<1>5. prompt => \A b \in Admins : pc'[b] = NoCase
  BY <1>1, <1>3 DEF ReasonsInv, VerdictsFit, Carrying
<1>6. prompt => \A c \in Cases : Pending(c) => c = d
  BY <1>1, NobodyAssumption DEF ReasonsInv, VerdictsFit, Carrying, Pending
<1>7. \A b \in Admins : pc'[b] # NoCase => pc'[b] = pc[b]
  BY <1>3
<1> HIDE DEF now, p, d
<1>8. CASE \E s \in InGame(p) : \E w \in Contenders(s) \ {TeamOf(p)} : ApplyCompletedMatch(s, w, now)
  <2>5. PICK s \in InGame(p) : \E w \in Contenders(s) \ {TeamOf(p)} : ApplyCompletedMatch(s, w, now)
    BY <1>8
  <2>1. PICK w \in Contenders(s) \ {TeamOf(p)} : ApplyCompletedMatch(s, w, now)
    BY <2>5
  <2>2. s \in Slots /\ match[s] = "PLAYING" /\ w \in Contenders(s)
    BY <2>1 DEF InGame
  <2>3. prompt => \A c \in ByTournament : case[c] = "DISQUALIFIED" => now[TeamOf(Accused[c])] = "DISQUALIFIED" \/ Over(c)
    BY <1>4, <1>6 DEF Over, ByTournament, p
  <2>4. UNCHANGED <<debt, corrected, case, early, prompt>>
    BY <1>1
  <2> QED  BY <1>3, <1>4, <1>5, <1>7, <2>1, <2>2, <2>3, <2>4, MatchKeepsReasons
<1>9. CASE /\ team' = now
           /\ award' = Relabelled(p, "REVERSED")
           /\ UNCHANGED <<status, match, winner, version>>
  <2>1. \A v \in Versions, q \in Players :
          award'[v][q] = IF q = p /\ award[v][p] = "HELD" THEN "REVERSED" ELSE award[v][q]
    BY <1>2, <1>9, RelabelledIs DEF AwardStatus
  <2>2. VerdictsFit'
    BY <1>1, <1>3 DEF ReasonsInv, VerdictsFit
  <2>3. HeldForReason'
    <3>1. SUFFICES ASSUME prompt, NEW q \in Players, HeldOf(q)' # {}
                   PROVE  \E c \in Cases : Accused[c] = q /\ Reason(c)'
      BY <1>1 DEF HeldForReason
    <3>2. PICK v \in Versions : award'[v][q] = "HELD"
      BY <3>1 DEF HeldOf
    <3>3. q # p /\ v \in HeldOf(q)
      BY <2>1, <3>2, <1>2 DEF HeldOf
    <3>4. PICK c \in Cases : Accused[c] = q /\ Reason(c)
      BY <3>1, <3>3 DEF ReasonsInv, HeldForReason
    <3>5. ~Pending(c)
      BY <3>1, <3>3, <3>4, <1>6 DEF p
    <3>6. Reason(c)'
      BY <3>4, <3>5, <1>1 DEF Reason
    <3> QED  BY <3>4, <3>6
  <2>4. VerdictsCount'
    <3>1. SUFFICES ASSUME prompt, NEW c \in InTime
                   PROVE  LET q == Accused[c] IN
                          /\ status' = "IN_PROGRESS" /\ Over(c)' => team'[TeamOf(q)] = "DISQUALIFIED"
                          /\ Lost(c)' /\ award'[1][q] = "CREDITED" => case'[c] = "CLEARED"
                          /\ Lost(c)' /\ Over(c)' => award'[1][q] # "HELD"
      BY <1>1, InTimeIs DEF VerdictsCount, InTime
    <3> DEFINE q == Accused[c]
    <3>2. c \in Cases /\ q \in Players /\ TeamOf(q) \in Teams /\ 1 \in Versions
      BY InTimeIs, AmountsAssumption, FS_CardinalityType DEF Versions
    <3>3. /\ status = "IN_PROGRESS" /\ Over(c) => team[TeamOf(q)] = "DISQUALIFIED"
          /\ Lost(c) /\ award[1][q] = "CREDITED" => case[c] = "CLEARED"
          /\ Lost(c) /\ Over(c) => award[1][q] # "HELD"
      BY <3>1 DEF ReasonsInv, VerdictsCount
    <3>4. Lost(c)' <=> Lost(c)
      BY <1>9 DEF Lost, Decided
    <3>5. Over(c)' => Over(c) \/ c = d
      BY <1>1, <1>6, <3>1, <3>2 DEF Over
    <3>6. CASE q = p
      BY <3>2, <3>3, <3>4, <3>6, <1>1, <1>4, <1>9, <2>1
    <3>7. CASE q # p
      <4>1. c # d
        BY <3>7 DEF p
      <4>2. award'[1][q] = award[1][q] /\ (team[TeamOf(q)] = "DISQUALIFIED" => team'[TeamOf(q)] = "DISQUALIFIED")
        BY <3>2, <3>7, <1>4, <1>9, <2>1
      <4> QED  BY <3>3, <3>4, <3>5, <4>1, <4>2, <1>1, <1>9
    <3> QED  BY <3>6, <3>7
  <2> QED  BY <2>2, <2>3, <2>4 DEF ReasonsInv
<1> QED  BY <1>1, <1>8, <1>9

(* Steps of a bank, and of an administrator who ends the tournament.         *)
LEMMA EditStatusKeepsReasons ==
  ASSUME PrizesInv, ReasonsInv, NEW to \in {"COMPLETED", "CANCELLED"}, EditStatus(to)
  PROVE  ReasonsInv'
<1>1. /\ status = "IN_PROGRESS" /\ status' = to
      /\ UNCHANGED <<match, winner, team, version, award, case, early, pc, prompt>>
  BY DEF EditStatus, bracketVars, prizeVars, caseVars
<1>2. VerdictsFit' /\ HeldForReason'
  BY <1>1 DEF ReasonsInv, VerdictsFit, HeldForReason, HeldOf, Reason, Pending
<1>3. VerdictsCount'
  <2>1. ~Decided(Final)' /\ status' # "IN_PROGRESS"
    BY <1>1 DEF PrizesInv, DrawHolds, Decided
  <2> QED  BY <2>1 DEF VerdictsCount, Lost
<1> QED  BY <1>2, <1>3 DEF ReasonsInv

(* A new case is open: a reason more, and nothing yet decided.               *)
LEMMA FileCaseKeepsReasons ==
  ASSUME PrizesInv, ReasonsInv, NEW c \in Cases, FileCase(c)
  PROVE  ReasonsInv'
<1>1. /\ case[c] = "NONE" /\ case' = [case EXCEPT ![c] = OpenCase]
      /\ early' = IF status = "IN_PROGRESS" THEN early \cup {c} ELSE early
      /\ UNCHANGED <<status, match, winner, team, version, award, pc, prompt>>
  BY DEF FileCase, bracketVars, prizeVars
<1>2. TypeOK /\ early \subseteq Cases
  BY DEF PrizesInv, TypeOK
<1>3. /\ \A d \in Cases : case'[d] = IF d = c THEN OpenCase ELSE case[d]
      /\ \A d \in Cases : Pending(d)' <=> Pending(d)
  BY <1>1, <1>2 DEF TypeOK, Pending
<1>4. VerdictsFit'
  <2>1. ASSUME NEW a \in Admins, pc[a] # NoCase PROVE case'[pc[a]] \in {"CLEARED", "DISQUALIFIED"}
    <3>1. case[pc[a]] \in {"CLEARED", "DISQUALIFIED"} /\ pc[a] \in Cases
      BY <2>1, <1>2 DEF ReasonsInv, VerdictsFit, TypeOK
    <3> QED  BY <3>1, <1>1, <1>3
  <2>2. \A d \in early' : case'[d] # "NONE"
    BY <1>1, <1>2, <1>3 DEF ReasonsInv, VerdictsFit, OpenCase
  <2> QED  BY <1>1, <2>1, <2>2 DEF ReasonsInv, VerdictsFit
<1>5. HeldForReason'
  <2>1. \A d \in Cases : Reason(d) => Reason(d)'
    BY <1>1, <1>3 DEF Reason, OpenCase
  <2>2. \A p : HeldOf(p)' = HeldOf(p)
    BY <1>1 DEF HeldOf
  <2> QED  BY <1>1, <2>1, <2>2 DEF ReasonsInv, HeldForReason
<1>6. VerdictsCount'
  <2>1. SUFFICES ASSUME prompt, NEW d \in InTime'
                 PROVE  LET p == Accused[d] IN
                        /\ status' = "IN_PROGRESS" /\ Over(d)' => team'[TeamOf(p)] = "DISQUALIFIED"
                        /\ Lost(d)' /\ award'[1][p] = "CREDITED" => case'[d] = "CLEARED"
                        /\ Lost(d)' /\ Over(d)' => award'[1][p] # "HELD"
    BY <1>1 DEF VerdictsCount, TeamOf
  <2>2. CASE status = "IN_PROGRESS" /\ d = c
    <3>1. ~Lost(d)' /\ ~Over(d)'
      BY <1>1, <1>3, <2>2 DEF PrizesInv, DrawHolds, Lost, Decided, Over, OpenCase
    <3> QED  BY <3>1
  <2>3. CASE ~(status = "IN_PROGRESS" /\ d = c)
    <3>1. d \in InTime /\ d \in Cases
      BY <1>1, <1>2, <2>3 DEF InTime
    <3>2. d # c
      BY <1>1, <3>1 DEF ReasonsInv, VerdictsFit, InTime
    <3>3. (Over(d)' <=> Over(d)) /\ (Lost(d)' <=> Lost(d)) /\ case'[d] = case[d]
      BY <1>1, <1>3, <3>1, <3>2 DEF Over, Lost, Decided, TeamOf
    <3> QED  BY <1>1, <2>1, <3>1, <3>3 DEF ReasonsInv, VerdictsCount
  <2> QED  BY <2>2, <2>3
<1> QED  BY <1>4, <1>5, <1>6 DEF ReasonsInv

(* A verdict is recorded: it is pending until it is carried out.             *)
LEMMA ResolveKeepsReasons ==
  ASSUME PrizesInv, ReasonsInv, NEW a \in Admins, NEW c \in Cases,
         NEW v \in {"CLEARED", "DISQUALIFIED"}, Resolve(a, c, v)
  PROVE  ReasonsInv'
<1>1. /\ Undisturbed /\ pc[a] = NoCase /\ case[c] \in {OpenCase, v}
      /\ case' = [case EXCEPT ![c] = v] /\ pc' = [pc EXCEPT ![a] = c]
      /\ UNCHANGED <<status, match, winner, team, version, award, early, prompt>>
  BY DEF Resolve, bracketVars, prizeVars
<1>2. TypeOK /\ early \subseteq Cases /\ NoCase \notin Cases
  BY NobodyAssumption DEF PrizesInv, TypeOK
<1>3. /\ \A d \in Cases : case'[d] = IF d = c THEN v ELSE case[d]
      /\ \A b \in Admins : pc'[b] = IF b = a THEN c ELSE pc[b]
      /\ \A d \in Cases : Pending(d)' <=> (d = c \/ Pending(d))
  BY <1>1, <1>2 DEF TypeOK, Pending
<1>4. VerdictsFit'
  <2>1. ASSUME NEW b \in Admins, pc'[b] # NoCase PROVE case'[pc'[b]] \in {"CLEARED", "DISQUALIFIED"}
    <3>1. b # a => case[pc[b]] \in {"CLEARED", "DISQUALIFIED"} /\ pc[b] \in Cases
      BY <2>1, <1>2, <1>3 DEF ReasonsInv, VerdictsFit, TypeOK
    <3> QED  BY <3>1, <1>3
  <2>2. \A d \in early' : case'[d] # "NONE"
    BY <1>1, <1>2, <1>3 DEF ReasonsInv, VerdictsFit
  <2>3. prompt' => \A b, e \in Admins : pc'[b] # NoCase /\ pc'[e] # NoCase => b = e
    BY <1>1, <1>3 DEF Undisturbed
  <2> QED  BY <2>1, <2>2, <2>3 DEF VerdictsFit
<1>5. HeldForReason'
  <2>1. \A d \in Cases : Reason(d) => Reason(d)'
    BY <1>3 DEF Reason
  <2>2. \A p : HeldOf(p)' = HeldOf(p)
    BY <1>1 DEF HeldOf
  <2> QED  BY <1>1, <2>1, <2>2 DEF ReasonsInv, HeldForReason
<1>6. VerdictsCount'
  <2>1. SUFFICES ASSUME prompt, NEW d \in InTime
                 PROVE  LET p == Accused[d] IN
                        /\ status' = "IN_PROGRESS" /\ Over(d)' => team'[TeamOf(p)] = "DISQUALIFIED"
                        /\ Lost(d)' /\ award'[1][p] = "CREDITED" => case'[d] = "CLEARED"
                        /\ Lost(d)' /\ Over(d)' => award'[1][p] # "HELD"
    BY <1>1 DEF VerdictsCount, TeamOf, InTime
  <2>2. d \in Cases /\ ~Pending(d)
    BY <1>1, <1>2, <2>1 DEF InTime, Undisturbed, Pending
  <2>3. (Lost(d)' <=> Lost(d)) /\ (Over(d)' => d # c /\ Over(d))
    BY <1>1, <1>3, <2>2 DEF Over, Lost, Decided, TeamOf
  <2>4. case[d] = "CLEARED" => case'[d] = "CLEARED"
    BY <1>1, <1>3, <2>2 DEF OpenCase
  <2> QED  BY <1>1, <2>1, <2>3, <2>4 DEF ReasonsInv, VerdictsCount
<1> QED  BY <1>4, <1>5, <1>6 DEF ReasonsInv

(* A case without a tournament leaves a held prize held, for its reason.     *)
LEMMA ReturnKeepsReasons ==
  ASSUME PrizesInv, ReasonsInv, NEW a \in Admins, ReconcileNothing(a) \/ GiveUp(a)
  PROVE  ReasonsInv'
<1>1. /\ pc[a] # NoCase /\ (prompt => pc[a] \in AboutMatch) /\ pc' = [pc EXCEPT ![a] = NoCase]
      /\ UNCHANGED <<status, match, winner, team, version, award, case, early, prompt>>
  BY CasesAssumption, NobodyAssumption DEF ReconcileNothing, GiveUp, Returns, bracketVars, prizeVars
<1>2. TypeOK /\ NoCase \notin Cases
  BY NobodyAssumption DEF PrizesInv
<1>3. /\ \A b \in Admins : pc'[b] = IF b = a THEN NoCase ELSE pc[b]
      /\ \A d \in Cases : Pending(d) => d = pc[a] \/ Pending(d)'
      /\ \A d \in Cases : Pending(d)' => Pending(d)
  BY <1>1, <1>2 DEF TypeOK, Pending
<1>4. VerdictsFit'
  BY <1>1, <1>3 DEF ReasonsInv, VerdictsFit
<1>5. HeldForReason'
  <2>1. ASSUME prompt, NEW d \in Cases, Reason(d) PROVE Reason(d)'
    <3>1. case[pc[a]] \in {"CLEARED", "DISQUALIFIED"} /\ pc[a] \in AboutMatch
      BY <1>1, <2>1 DEF ReasonsInv, VerdictsFit
    <3> QED  BY <1>1, <1>3, <2>1, <3>1 DEF Reason
  <2>2. \A p : HeldOf(p)' = HeldOf(p)
    BY <1>1 DEF HeldOf
  <2> QED  BY <1>1, <2>1, <2>2 DEF ReasonsInv, HeldForReason
<1>6. VerdictsCount'
  <2>1. SUFFICES ASSUME prompt, NEW d \in InTime
                 PROVE  LET p == Accused[d] IN
                        /\ status' = "IN_PROGRESS" /\ Over(d)' => team'[TeamOf(p)] = "DISQUALIFIED"
                        /\ Lost(d)' /\ award'[1][p] = "CREDITED" => case'[d] = "CLEARED"
                        /\ Lost(d)' /\ Over(d)' => award'[1][p] # "HELD"
    BY <1>1 DEF VerdictsCount, TeamOf, InTime
  <2>2. d \in Cases /\ d # pc[a]
    BY <1>1, <1>2, <2>1 DEF InTime, TypeOK
  <2>3. (Lost(d)' <=> Lost(d)) /\ (Over(d)' <=> Over(d))
    BY <1>1, <1>3, <2>2 DEF Over, Lost, Decided, TeamOf
  <2> QED  BY <1>1, <2>1, <2>3 DEF ReasonsInv, VerdictsCount
<1> QED  BY <1>4, <1>5, <1>6 DEF ReasonsInv

(* A cleared player is paid what was held, when no other case is open: a     *)
(* verdict against him has been carried out before, and reversed it.         *)
LEMMA ReleaseKeepsReasons ==
  ASSUME PrizesInv, ReasonsInv, NEW a \in Admins, ReleaseHeldAwards(a)
  PROVE  ReasonsInv'
<1> DEFINE e == pc[a]
           p == Accused[e]
<1>1. /\ Carrying(a, "CLEARED") /\ e \in ByTournament /\ Returns(a)
      /\ UNCHANGED <<status, match, winner, team, version, case, early, prompt>>
      /\ \/ OpenFor(p, ByTournament) /\ UNCHANGED award
         \/ ~OpenFor(p, ByTournament) /\ award' = Relabelled(p, "CREDITED")
  BY DEF ReleaseHeldAwards, bracketVars
<1>2. TypeOK /\ p \in Players /\ e \in Cases /\ NoCase \notin Cases /\ case[e] = "CLEARED"
  BY <1>1, CasesAssumption, NobodyAssumption DEF PrizesInv, ByTournament, Carrying
<1>3. /\ \A b \in Admins : pc'[b] = IF b = a THEN NoCase ELSE pc[b]
      /\ prompt => \A d \in Cases : Pending(d) => d = e
      /\ \A d \in Cases : Pending(d)' => Pending(d)
      /\ \A d \in Cases : d # e => (Pending(d)' <=> Pending(d))
  <2>1. \A b \in Admins : pc'[b] = IF b = a THEN NoCase ELSE pc[b]
    BY <1>1, <1>2 DEF Returns, TypeOK
  <2>2. prompt => \A d \in Cases : Pending(d) => d = e
    BY <1>2 DEF ReasonsInv, VerdictsFit, Pending
  <2> QED  BY <1>2, <2>1, <2>2 DEF Pending
<1> HIDE DEF p, e
<1>4. \A v \in Versions, q \in Players :
        \/ award'[v][q] = award[v][q] /\ (q = p => award[v][q] # "HELD" \/ OpenFor(p, ByTournament))
        \/ /\ q = p /\ ~OpenFor(p, ByTournament)
           /\ award[v][q] = "HELD" /\ award'[v][q] = "CREDITED"
  <2>1. CASE ~OpenFor(p, ByTournament) /\ award' = Relabelled(p, "CREDITED")
    <3>1. \A v \in Versions, q \in Players :
            award'[v][q] = IF q = p /\ award[v][p] = "HELD" THEN "CREDITED" ELSE award[v][q]
      BY <1>2, <2>1, RelabelledIs DEF AwardStatus
    <3> QED  BY <2>1, <3>1
  <2> QED  BY <1>1, <2>1
<1>5. VerdictsFit'
  BY <1>1, <1>3 DEF ReasonsInv, VerdictsFit
<1>6. HeldForReason'
  <2>1. SUFFICES ASSUME prompt, NEW q \in Players, HeldOf(q)' # {}
                 PROVE  \E c \in Cases : Accused[c] = q /\ Reason(c)'
    BY <1>1 DEF HeldForReason
  <2>2. PICK v \in Versions : award'[v][q] = "HELD"
    BY <2>1 DEF HeldOf
  <2>3. award[v][q] = "HELD" /\ (q = p => OpenFor(p, ByTournament))
    BY <1>4, <2>2
  <2>4. CASE q = p
    <3>1. PICK c \in ByTournament : Accused[c] = p /\ case[c] = OpenCase
      BY <2>3, <2>4 DEF OpenFor
    <3> QED  BY <1>1, <2>4, <3>1 DEF ByTournament, Reason
  <2>5. CASE q # p
    <3>1. PICK c \in Cases : Accused[c] = q /\ Reason(c)
      BY <2>1, <2>3 DEF ReasonsInv, HeldForReason, HeldOf
    <3>2. c # e
      BY <2>5, <3>1 DEF p
    <3>3. Reason(c)'
      BY <1>1, <1>3, <3>1, <3>2 DEF Reason
    <3> QED  BY <3>1, <3>3
  <2> QED  BY <2>4, <2>5
<1>7. VerdictsCount'
  <2>1. SUFFICES ASSUME prompt, NEW d \in InTime
                 PROVE  LET q == Accused[d] IN
                        /\ status' = "IN_PROGRESS" /\ Over(d)' => team'[TeamOf(q)] = "DISQUALIFIED"
                        /\ Lost(d)' /\ award'[1][q] = "CREDITED" => case'[d] = "CLEARED"
                        /\ Lost(d)' /\ Over(d)' => award'[1][q] # "HELD"
    BY <1>1 DEF VerdictsCount, TeamOf, InTime
  <2> DEFINE q == Accused[d]
  <2>2. d \in Cases /\ d \in ByTournament /\ q \in Players /\ 1 \in Versions
    BY InTimeIs, AmountsAssumption, FS_CardinalityType DEF Versions
  <2>3. (Lost(d)' <=> Lost(d)) /\ (Over(d)' <=> Over(d))
    BY <1>1, <1>2, <1>3, <2>2 DEF Over, Lost, Decided, TeamOf
  <2>4. /\ status = "IN_PROGRESS" /\ Over(d) => team[TeamOf(q)] = "DISQUALIFIED"
        /\ Lost(d) /\ award[1][q] = "CREDITED" => case[d] = "CLEARED"
        /\ Lost(d) /\ Over(d) => award[1][q] # "HELD"
    BY <2>1 DEF ReasonsInv, VerdictsCount
  <2>5. CASE award'[1][q] = award[1][q]
    BY <1>1, <2>3, <2>4, <2>5
  <2>6. CASE q = p /\ ~OpenFor(p, ByTournament) /\ award[1][q] = "HELD" /\ award'[1][q] = "CREDITED"
    <3>1. case[d] \in {"CLEARED", "DISQUALIFIED"}
      BY <2>1, <2>2, <2>6, <1>2 DEF OpenFor, ReasonsInv, VerdictsFit, InTime, TypeOK
    <3>2. case[d] = "DISQUALIFIED" => Over(d)
      BY <1>2, <1>3, <2>1, <2>2 DEF Over
    <3> QED  BY <1>1, <2>3, <2>4, <2>6, <3>1, <3>2
  <2> QED  BY <1>4, <2>2, <2>5, <2>6
<1> QED  BY <1>5, <1>6, <1>7 DEF ReasonsInv

(* A correction holds for an open case only, and takes back what the final   *)
(* awarded.                                                                  *)
LEMMA CorrectKeepsReasons ==
  ASSUME PrizesInv, ReasonsInv, NEW r \in Requests, NEW c, NEW u, <<c, u>> \in Rulings, CorrectResults(r, c, u)
  PROVE  ReasonsInv'
<1>1. /\ Undisturbed /\ status = "COMPLETED"
      /\ UNCHANGED <<status, match, winner, case, early, pc, prompt>>
  BY DEF CorrectResults, caseVars
<1>2. /\ \A p \in Players : HeldOf(p)' # {} => OpenFor(p, ByTournament)
      /\ version # 0 => \A p \in Players : award'[1][p] \in {award[1][p], "REVERSED"}
  BY CorrectKeepsPrizes
<1>3. VerdictsFit'
  BY <1>1 DEF ReasonsInv, VerdictsFit
<1>4. HeldForReason'
  <2>1. \A p \in Players : OpenFor(p, ByTournament) => \E d \in Cases : Accused[d] = p /\ Reason(d)'
    BY <1>1 DEF OpenFor, ByTournament, Reason
  <2> QED  BY <1>2, <2>1 DEF HeldForReason
<1>5. VerdictsCount'
  <2>1. SUFFICES ASSUME prompt, NEW d \in InTime
                 PROVE  LET p == Accused[d] IN
                        /\ status' = "IN_PROGRESS" /\ Over(d)' => team'[TeamOf(p)] = "DISQUALIFIED"
                        /\ Lost(d)' /\ award'[1][p] = "CREDITED" => case'[d] = "CLEARED"
                        /\ Lost(d)' /\ Over(d)' => award'[1][p] # "HELD"
    BY <1>1 DEF VerdictsCount, TeamOf, InTime
  <2>2. (Lost(d)' <=> Lost(d)) /\ (Over(d)' <=> Over(d))
    BY <1>1 DEF Over, Lost, Decided, TeamOf, Pending
  <2>3. Lost(d) => version # 0
    BY DEF PrizesInv, SettledInOrder, Lost
  <2>4. Accused[d] \in Players
    BY InTimeIs
  <2> QED  BY <1>1, <1>2, <2>1, <2>2, <2>3, <2>4 DEF ReasonsInv, VerdictsCount
<1> QED  BY <1>3, <1>4, <1>5 DEF ReasonsInv

LEMMA ReasonsStart == Init => ReasonsInv
BY DEF Init, ReasonsInv, VerdictsFit, HeldForReason, HeldOf, VerdictsCount, InTime

LEMMA ReasonsKept ==
  PrizesInv /\ ReasonsInv /\ [Next]_vars => ReasonsInv'
<1> SUFFICES ASSUME PrizesInv, ReasonsInv, [Next]_vars PROVE ReasonsInv'
  OBVIOUS
<1>1. CASE \E s \in Slots, w \in Teams : EndMatch(s, w)
  <2>1. PICK s \in Slots, w \in Teams : EndMatch(s, w)
    BY <1>1
  <2>2. w \in Contenders(s)
    BY <2>1 DEF EndMatch
  <2> QED  BY <2>1, <2>2, EndMatchKeepsReasons
<1>2. CASE \E p \in Spenders : Chargeback(p)
  BY <1>2, ReasonsStay DEF Chargeback, bracketVars, caseVars
<1>3. CASE \E to \in {"COMPLETED", "CANCELLED"} : EditStatus(to)
  BY <1>3, EditStatusKeepsReasons
<1>4. CASE \E c \in Cases : FileCase(c)
  BY <1>4, FileCaseKeepsReasons
<1>5. CASE \E a \in Admins, c \in Cases, v \in {"CLEARED", "DISQUALIFIED"} : Resolve(a, c, v)
  BY <1>5, ResolveKeepsReasons
<1>6. CASE \E a \in Admins : ReconcileNothing(a) \/ GiveUp(a)
  BY <1>6, ReturnKeepsReasons
<1>7. CASE \E a \in Admins : ReleaseHeldAwards(a)
  BY <1>7, ReleaseKeepsReasons
<1>8. CASE \E a \in Admins : DisqualifyPlayer(a)
  BY <1>8, DisqualifyKeepsReasons
<1>9. CASE \E r \in Requests, x \in Rulings : CorrectResults(r, x[1], x[2])
  <2>1. PICK r \in Requests, x \in Rulings : CorrectResults(r, x[1], x[2])
    BY <1>9
  <2>2. <<x[1], x[2]>> \in Rulings
    BY CasesAssumption
  <2> QED  BY <2>1, <2>2, CorrectKeepsReasons
<1>10. CASE UNCHANGED vars
  BY <1>10, ReasonsStay DEF vars, bracketVars, prizeVars, caseVars
<1> QED  BY <1>1, <1>2, <1>3, <1>4, <1>5, <1>6, <1>7, <1>8, <1>9, <1>10 DEF Next

(* The whole invariant: the draw, the prizes, and the reasons they wait for. *)
THEOREM BracketInvariance == Spec => []BracketInv
<1>1. Init => BracketInv
  BY PrizesStart, ReasonsStart DEF BracketInv
<1>2. BracketInv /\ [Next]_vars => BracketInv'
  BY PrizesKept, ReasonsKept DEF BracketInv
<1> QED  BY <1>1, <1>2, PTL DEF Spec

(* When verdicts are carried out at once, a prize waits only for a case that *)
(* can still be decided or that nothing will release, and a player           *)
(* disqualified in time is not paid, unless his team won the final after it. *)
THEOREM WithheldAlwaysForReason == Spec => []WithheldForReason
<1>1. BracketInv => WithheldForReason
  <2> SUFFICES ASSUME BracketInv PROVE WithheldForReason
    OBVIOUS
  <2>1. PrizesInv /\ VerdictsCount /\ HeldForReason
    BY DEF BracketInv, ReasonsInv
  <2>2. WithheldFromDisqualified
    <3>1. SUFFICES ASSUME prompt, Idle, NEW c \in InTime, case[c] = "DISQUALIFIED",
                          award[1][Accused[c]] = "CREDITED", match[Final] = "OVER"
                   PROVE  winner[Final] = TeamOf(Accused[c])
      BY DEF WithheldFromDisqualified, InTime
    <3>2. Decided(Final)
      BY <2>1, <3>1, FinalIsLast DEF PrizesInv, DrawHolds
    <3>3. Lost(c) => case[c] = "CLEARED"
      BY <2>1, <3>1 DEF VerdictsCount
    <3> QED  BY <3>1, <3>2, <3>3 DEF Lost
  <2>3. HeldHasReason
    <3>1. SUFFICES ASSUME prompt, Idle, NEW p \in Players, HeldOf(p) # {}
                   PROVE  \E c \in Cases : /\ Accused[c] = p
                                           /\ case[c] = OpenCase \/ (c \in AboutMatch /\ case[c] # "NONE")
      BY DEF HeldHasReason
    <3>2. PICK c \in Cases : Accused[c] = p /\ Reason(c)
      BY <2>1, <3>1 DEF HeldForReason
    <3>3. ~Pending(c)
      BY <3>1, NobodyAssumption DEF Idle, Pending
    <3> QED  BY <3>2, <3>3 DEF Reason
  <2> QED  BY <2>2, <2>3 DEF WithheldForReason
<1> QED  BY <1>1, BracketInvariance, PTL
=============================================================================
