----------------------------- MODULE Sums_proofs -----------------------------
(***************************************************************************)
(* What the proofs need to know of sums over finite sets.  The library's   *)
(* induction theorems take a predicate as a parameter, which the provers   *)
(* cannot instantiate; WFMin does not, so every induction here goes by a   *)
(* smallest counterexample among the members of a set.                     *)
(***************************************************************************)
EXTENDS Sums, FiniteSetTheorems, WellFoundedInduction, TLAPS

(* The recursion of the sum, stated of any function g that may satisfy it. *)
Chosen(T) == CHOOSE x \in T : TRUE
Partial(f, T, g) == IF T = {} THEN 0 ELSE f[Chosen(T)] + g[T \ {Chosen(T)}]
IsIter(f, S, g) == g = [T \in SUBSET S |-> Partial(f, T, g)]

(* The sum is what the recursive function inside MapThenFoldSet takes at S. *)
LEMMA SumUnfold ==
  ASSUME NEW f, NEW S PROVE SumOver(f, S) = (CHOOSE g : IsIter(f, S, g))[S]
BY DEF SumOver, MapThenSumSet, MapThenFoldSet, IsIter, Chosen, Partial

(* Among sets of subsets of a finite set there is one that contains no other: the
   form of induction over finite sets that needs no operator as a parameter. *)
LEMMA SmallestSet ==
  ASSUME NEW S, IsFiniteSet(S), NEW T \in SUBSET (SUBSET S), T # {}
  PROVE \E U \in T : \A V \in T : V \subseteq U => V = U
<1>1. T \subseteq FiniteSubsetsOf(S)
   BY FS_FiniteSubsetsOfFinite
<1>2. PICK n \in T : \A m \in T : ~ (<<m, n>> \in StrictSubsetOrdering(S))
  BY <1>1, FS_StrictSubsetOrderingWellFounded, WFMin, Zenon
<1> QED BY <1>2 DEF StrictSubsetOrdering

(* A set of natural numbers has a least element. *)
LEMMA SmallestNumber ==
  ASSUME NEW T \in SUBSET Nat, T # {}
  PROVE \E n \in T : \A m \in T : n <= m
<1>1. PICK k \in T : TRUE
  OBVIOUS
<1> DEFINE all   == 0 .. k
           below == {0 .. m : m \in {n \in T : n <= k}}
<1>2. below \in SUBSET (SUBSET all) /\ below # {}
  BY <1>1
<1>3. PICK U \in below : \A V \in below : V \subseteq U => V = U
  <2>1. IsFiniteSet(all)
    BY <1>1, FS_Interval
  <2> HIDE DEF below, all
  <2> QED BY <1>2, <2>1, SmallestSet
<1>4. PICK n \in T : n <= k /\ U = 0 .. n
  BY <1>3
<1>5. ASSUME NEW m \in T PROVE n <= m
  <2> SUFFICES ASSUME m < n PROVE FALSE
    BY <1>5, <1>4
  <2>1. 0 .. m \in below /\ 0 .. m \subseteq U /\ n \in U /\ n \notin 0 .. m
    BY <1>4
  <2> QED BY <2>1, <1>3
<1> QED BY <1>5

(* Two functions that satisfy the recursion agree where both are defined. *)
LEMMA SumUnique ==
  ASSUME NEW f, NEW S, IsFiniteSet(S), NEW T \in SUBSET S,
         NEW g, IsIter(f, S, g), NEW h, IsIter(f, T, h), NEW W \in SUBSET T
  PROVE  g[W] = h[W]
<1> DEFINE bad == {U \in SUBSET T : g[U] # h[U]}
<1>1. SUFFICES ASSUME bad # {} PROVE FALSE
  OBVIOUS
<1>2. IsFiniteSet(T)
  BY FS_Subset
<1>3. PICK U \in bad : \A V \in bad : V \subseteq U => V = U
  <2>1. bad \in SUBSET (SUBSET T)
    OBVIOUS
  <2> HIDE DEF bad
  <2> QED BY <1>1, <1>2, <2>1, SmallestSet
<1>4. g[U] = Partial(f, U, g) /\ h[U] = Partial(f, U, h)
  BY DEF IsIter
<1>5. CASE U = {}
  BY <1>3, <1>4, <1>5 DEF Partial
<1>6. CASE U # {}
  <2>1. Chosen(U) \in U
    BY <1>6 DEF Chosen
  <2>2. g[U \ {Chosen(U)}] = h[U \ {Chosen(U)}]
    BY <2>1, <1>3
  <2> QED BY <2>2, <1>3, <1>4, <1>6 DEF Partial
<1> QED BY <1>5, <1>6

(* The same recursion on the subsets of at most n elements. *)
Small(S, n) == {T \in SUBSET S : Cardinality(T) <= n}
Upto(f, S, n, g) == g = [T \in Small(S, n) |-> Partial(f, T, g)]
(* There is a function that satisfies the recursion: built up by cardinality. *)
LEMMA SumExists ==
  ASSUME NEW f, NEW S, IsFiniteSet(S)
  PROVE \E g : IsIter(f, S, g)
<1> DEFINE bad == {n \in Nat : ~ \E g : Upto(f, S, n, g)}
<1>1. bad = {}
  <2>1. SUFFICES ASSUME bad # {} PROVE FALSE
    OBVIOUS
  <2>2. PICK n \in bad : \A m \in bad : n <= m
    <3>1. bad \in SUBSET Nat
      OBVIOUS
    <3> HIDE DEF bad
    <3> QED BY <3>1, <2>1, SmallestNumber
  <2>3. \A T \in SUBSET S : IsFiniteSet(T) /\ Cardinality(T) \in Nat
    BY FS_Subset, FS_CardinalityType
  <2>4. n # 0
    <3> DEFINE g == [T \in Small(S, 0) |-> 0]
    <3>1. \A T \in Small(S, 0) : T = {}
      BY <2>3, FS_EmptySet DEF Small
    <3>2. Upto(f, S, 0, g)
      BY <3>1 DEF Upto, Partial
    <3> QED BY <3>2
  <2>5. PICK h : Upto(f, S, n - 1, h)
    BY <2>2, <2>4
  <2> DEFINE g == [T \in Small(S, n) |-> Partial(f, T, h)]
  <2>6. ASSUME NEW T \in Small(S, n) PROVE g[T] = Partial(f, T, g)
    <3>1. CASE T = {}
      BY <3>1 DEF Partial
    <3>2. CASE T # {}
      <4> DEFINE R == T \ {Chosen(T)}
      <4>1. Chosen(T) \in T
        BY <3>2 DEF Chosen
      <4>2. Cardinality(R) = Cardinality(T) - 1 /\ R \in SUBSET S
        BY <4>1, <2>3, FS_RemoveElement DEF Small
      <4>3. R \in Small(S, n - 1) /\ R \in Small(S, n)
        BY <4>2, <2>3 DEF Small
      <4>4. h[R] = Partial(f, R, h) /\ g[R] = Partial(f, R, h)
        <5> HIDE DEF R
        <5> QED BY <4>3, <2>5 DEF Upto
      <4> QED BY <4>4, <3>2 DEF Partial
    <3> QED BY <3>1, <3>2
  <2>7. Upto(f, S, n, g)
    BY <2>6 DEF Upto
  <2> QED BY <2>7
<1>2. Cardinality(S) \in Nat
  BY FS_CardinalityType
<1>3. PICK g : Upto(f, S, Cardinality(S), g)
  BY <1>1, <1>2
<1>4. Small(S, Cardinality(S)) = SUBSET S
  BY FS_Subset DEF Small
<1> QED BY <1>3, <1>4 DEF Upto, IsIter

(* The sum in one step, by the element that CHOOSE takes first. *)
LEMMA SumStep ==
  ASSUME NEW f, NEW S, IsFiniteSet(S)
  PROVE SumOver(f, S) = IF S = {} THEN 0 ELSE f[Chosen(S)] + SumOver(f, S \ {Chosen(S)})
<1> DEFINE g == CHOOSE g : IsIter(f, S, g)
<1>1. IsIter(f, S, g)
  BY SumExists, Zenon
<1>2. SumOver(f, S) = g[S]
  BY SumUnfold, Zenon
<1> HIDE DEF g
<1>3. g[S] = Partial(f, S, g)
  BY <1>1 DEF IsIter
<1>4. CASE S = {}
  BY <1>2, <1>3, <1>4 DEF Partial
<1>5. CASE S # {}
  <2> DEFINE R == S \ {Chosen(S)}
             h == CHOOSE h : IsIter(f, R, h)
  <2>1. IsFiniteSet(R) /\ R \in SUBSET S
    BY FS_Subset
  <2>2. IsIter(f, R, h)
    BY <2>1, SumExists, Zenon
  <2>3. SumOver(f, R) = h[R]
    BY SumUnfold, Zenon
  <2>4. g[R] = h[R]
    <3> HIDE DEF h, R
    <3> QED BY <1>1, <2>1, <2>2, SumUnique
  <2> HIDE DEF h
  <2> QED BY <1>2, <1>3, <1>5, <2>3, <2>4 DEF Partial
<1> QED BY <1>4, <1>5

(* The sum over nothing is zero. *)
LEMMA SumEmpty ==
  ASSUME NEW f PROVE SumOver(f, {}) = 0
BY SumStep, FS_EmptySet

(* A sum of integers is an integer. *)
LEMMA SumIsInt ==
  ASSUME NEW S, IsFiniteSet(S), NEW f \in [S -> Int], NEW T \in SUBSET S
  PROVE SumOver(f, T) \in Int
<1> DEFINE bad == {U \in SUBSET S : SumOver(f, U) \notin Int}
<1>1. SUFFICES ASSUME bad # {} PROVE FALSE
  OBVIOUS
<1>2. PICK U \in bad : \A V \in bad : V \subseteq U => V = U
  <2>1. bad \in SUBSET (SUBSET S)
    OBVIOUS
  <2> HIDE DEF bad
  <2> QED BY <1>1, <2>1, SmallestSet
<1>3. IsFiniteSet(U)
  BY <1>2, FS_Subset
<1>4. SumOver(f, U) = IF U = {} THEN 0 ELSE f[Chosen(U)] + SumOver(f, U \ {Chosen(U)})
  BY <1>3, SumStep
<1>5. CASE U # {}
  <2>1. Chosen(U) \in U
    BY <1>5 DEF Chosen
  <2>2. SumOver(f, U \ {Chosen(U)}) \in Int
    BY <1>2, <2>1
  <2> QED BY <1>2, <1>4, <1>5, <2>1, <2>2
<1> QED BY <1>2, <1>4, <1>5

(* The order does not matter: any element may be taken first. *)
LEMMA SumTake ==
  ASSUME NEW S, IsFiniteSet(S), NEW f \in [S -> Int], NEW T \in SUBSET S, NEW x \in T
  PROVE SumOver(f, T) = f[x] + SumOver(f, T \ {x})
<1> DEFINE bad == {U \in SUBSET S : \E y \in U : SumOver(f, U) # f[y] + SumOver(f, U \ {y})}
<1>1. SUFFICES ASSUME bad # {} PROVE FALSE
  OBVIOUS
<1>2. PICK U \in bad : \A V \in bad : V \subseteq U => V = U
  <2>1. bad \in SUBSET (SUBSET S)
    OBVIOUS
  <2> HIDE DEF bad
  <2> QED BY <1>1, <2>1, SmallestSet
<1>3. PICK y \in U : SumOver(f, U) # f[y] + SumOver(f, U \ {y})
  BY <1>2
<1> DEFINE c == Chosen(U)
<1>4. c \in U
  BY <1>3 DEF Chosen
<1>5. SumOver(f, U) = f[c] + SumOver(f, U \ {c})
  BY <1>3, <1>2, FS_Subset, SumStep
<1>6. c # y
  BY <1>3, <1>5
<1>7. (U \ {c}) \ {y} = (U \ {y}) \ {c}
  OBVIOUS
<1> HIDE DEF c
<1>8. SumOver(f, U \ {c}) = f[y] + SumOver(f, (U \ {c}) \ {y})
  <2>1. U \ {c} \notin bad /\ y \in U \ {c} /\ U \ {c} \in SUBSET S
    BY <1>2, <1>3, <1>4, <1>6
  <2> QED BY <2>1
<1>9. SumOver(f, U \ {y}) = f[c] + SumOver(f, (U \ {y}) \ {c})
  <2>1. U \ {y} \notin bad /\ c \in U \ {y} /\ U \ {y} \in SUBSET S
    BY <1>2, <1>3, <1>4, <1>6
  <2> QED BY <2>1
<1>10. SumOver(f, (U \ {c}) \ {y}) \in Int /\ f[c] \in Int /\ f[y] \in Int
  <2>1. (U \ {c}) \ {y} \in SUBSET S
    BY <1>2
  <2> QED BY <2>1, SumIsInt, <1>2, <1>4, <1>3
<1>11. SumOver(f, U) = f[c] + (f[y] + SumOver(f, (U \ {c}) \ {y}))
  BY <1>5, <1>8
<1>12. f[y] + SumOver(f, U \ {y}) = f[y] + (f[c] + SumOver(f, (U \ {c}) \ {y}))
  BY <1>7, <1>9
<1> QED BY <1>3, <1>10, <1>11, <1>12

(* Functions that agree on S have the same sum over S. *)
LEMMA SumSame ==
  ASSUME NEW S, IsFiniteSet(S), NEW f, NEW g, \A x \in S : f[x] = g[x]
  PROVE SumOver(f, S) = SumOver(g, S)
<1> DEFINE bad == {U \in SUBSET S : SumOver(f, U) # SumOver(g, U)}
<1>1. SUFFICES ASSUME bad # {} PROVE FALSE
  OBVIOUS
<1>2. PICK U \in bad : \A V \in bad : V \subseteq U => V = U
  <2>1. bad \in SUBSET (SUBSET S)
    OBVIOUS
  <2> HIDE DEF bad
  <2> QED BY <1>1, <2>1, SmallestSet
<1>3. IsFiniteSet(U)
  BY <1>2, FS_Subset
<1>4. CASE U = {}
  BY <1>2, <1>4, SumEmpty
<1>5. CASE U # {}
  <2>1. Chosen(U) \in U
    BY <1>5 DEF Chosen
  <2>2. SumOver(f, U \ {Chosen(U)}) = SumOver(g, U \ {Chosen(U)})
    BY <1>2, <2>1
  <2>3. /\ SumOver(f, U) = f[Chosen(U)] + SumOver(f, U \ {Chosen(U)})
        /\ SumOver(g, U) = g[Chosen(U)] + SumOver(g, U \ {Chosen(U)})
    BY <1>3, <1>5, SumStep
  <2> QED BY <1>2, <2>1, <2>2, <2>3
<1> QED BY <1>4, <1>5

(* A set grows by one element and its sum by the value there. *)
LEMMA SumPut ==
  ASSUME NEW S, IsFiniteSet(S), NEW f \in [S -> Int], NEW T \in SUBSET S, NEW x \in S \ T
  PROVE SumOver(f, T \cup {x}) = SumOver(f, T) + f[x]
<1>1. SumOver(f, T \cup {x}) = f[x] + SumOver(f, (T \cup {x}) \ {x})
  BY SumTake
<1>2. SumOver(f, (T \cup {x}) \ {x}) = SumOver(f, T)
  <2>1. (T \cup {x}) \ {x} = T
    OBVIOUS
  <2> QED BY <2>1, Zenon
<1>3. SumOver(f, T) \in Int
  BY SumIsInt
<1> QED BY <1>1, <1>2, <1>3

(* A function that changes at one point changes its sum by as much. *)
LEMMA SumChange ==
  ASSUME NEW S, IsFiniteSet(S), NEW f \in [S -> Int], NEW g \in [S -> Int], NEW x \in S,
   \A y \in S \ {x} : g[y] = f[y]
  PROVE SumOver(g, S) = SumOver(f, S) + (g[x] - f[x])
<1>1. SumOver(f, S) = f[x] + SumOver(f, S \ {x}) /\ SumOver(g, S) = g[x] + SumOver(g, S \ {x})
  BY SumTake
<1>2. SumOver(f, S \ {x}) = SumOver(g, S \ {x})
  BY FS_Subset, SumSame
<1>3. SumOver(f, S \ {x}) \in Int
  BY SumIsInt
<1> QED BY <1>1, <1>2, <1>3

(* The sum of a pointwise sum. *)
LEMMA SumPlus ==
  ASSUME NEW S, IsFiniteSet(S), NEW f \in [S -> Int], NEW g \in [S -> Int], NEW h \in [S -> Int],
   \A y \in S : h[y] = f[y] + g[y], NEW T \in SUBSET S
  PROVE SumOver(h, T) = SumOver(f, T) + SumOver(g, T)
<1> DEFINE bad == {U \in SUBSET S : SumOver(h, U) # SumOver(f, U) + SumOver(g, U)}
<1>1. SUFFICES ASSUME bad # {} PROVE FALSE
  OBVIOUS
<1>2. PICK U \in bad : \A V \in bad : V \subseteq U => V = U
  <2>1. bad \in SUBSET (SUBSET S)
    OBVIOUS
  <2> HIDE DEF bad
  <2> QED BY <1>1, <2>1, SmallestSet
<1>3. U # {}
  <2> SUFFICES ASSUME U = {} PROVE FALSE
    OBVIOUS
  <2>1. SumOver(f, U) = 0 /\ SumOver(g, U) = 0 /\ SumOver(h, U) = 0
    BY SumEmpty
  <2> QED BY <1>2, <2>1
<1>4. PICK x \in U : TRUE
  BY <1>3
<1>5. /\ SumOver(h, U) = h[x] + SumOver(h, U \ {x})
      /\ SumOver(f, U) = f[x] + SumOver(f, U \ {x})
      /\ SumOver(g, U) = g[x] + SumOver(g, U \ {x})
  BY <1>2, <1>4, SumTake
<1>6. SumOver(h, U \ {x}) = SumOver(f, U \ {x}) + SumOver(g, U \ {x})
  BY <1>2, <1>4
<1>7. SumOver(f, U \ {x}) \in Int /\ SumOver(g, U \ {x}) \in Int
  BY <1>2, <1>4, SumIsInt
<1> QED BY <1>2, <1>4, <1>5, <1>6, <1>7

(* The sum of a constant. *)
LEMMA SumConstant ==
  ASSUME NEW S, IsFiniteSet(S), NEW k \in Int
  PROVE SumOver([x \in S |-> k], S) = Cardinality(S) * k
<1> DEFINE f == [x \in S |-> k]
           bad == {U \in SUBSET S : SumOver(f, U) # Cardinality(U) * k}
<1>1. SUFFICES ASSUME bad # {} PROVE FALSE
  OBVIOUS
<1>2. PICK U \in bad : \A V \in bad : V \subseteq U => V = U
  <2>1. bad \in SUBSET (SUBSET S)
    OBVIOUS
  <2> HIDE DEF bad
  <2> QED BY <1>1, <2>1, SmallestSet
<1>3. U # {}
  <2> SUFFICES ASSUME U = {} PROVE FALSE
    OBVIOUS
  <2>1. SumOver(f, U) = 0 /\ Cardinality(U) = 0
    BY SumEmpty, FS_EmptySet
  <2> QED BY <1>2, <2>1
<1>4. PICK x \in U : TRUE
  BY <1>3
<1>5. SumOver(f, U) = f[x] + SumOver(f, U \ {x})
  <2>1. f \in [S -> Int]
    OBVIOUS
  <2> HIDE DEF f
  <2> QED BY <1>2, <1>4, <2>1, SumTake
<1>6. SumOver(f, U \ {x}) = Cardinality(U \ {x}) * k
  BY <1>2, <1>4
<1>7. Cardinality(U \ {x}) = Cardinality(U) - 1 /\ Cardinality(U) \in Nat
  BY <1>2, <1>4, FS_Subset, FS_RemoveElement, FS_CardinalityType
<1>8. (Cardinality(U) - 1) * k = Cardinality(U) * k - k
  BY <1>7
<1>9. f[x] = k /\ Cardinality(U) * k \in Int
  BY <1>2, <1>4, <1>7
<1> HIDE DEF f
<1> QED BY <1>2, <1>5, <1>6, <1>7, <1>8, <1>9

(* Of numbers that are not negative, more sum to no less. *)
LEMMA SumGrows ==
  ASSUME NEW S, IsFiniteSet(S), NEW f \in [S -> Nat], NEW T \in SUBSET S, NEW W \in SUBSET T
  PROVE SumOver(f, W) <= SumOver(f, T)
<1> DEFINE bad == {U \in SUBSET S : W \subseteq U /\ ~(SumOver(f, W) <= SumOver(f, U))}
<1>1. SUFFICES ASSUME bad # {} PROVE FALSE
  OBVIOUS
<1>2. PICK U \in bad : \A V \in bad : V \subseteq U => V = U
  <2>1. bad \in SUBSET (SUBSET S)
    OBVIOUS
  <2> HIDE DEF bad
  <2> QED BY <1>1, <2>1, SmallestSet
<1>3. f \in [S -> Int]
  OBVIOUS
<1>4. SumOver(f, W) \in Int
  BY <1>3, SumIsInt
<1>5. U # W
  BY <1>2, <1>4
<1>6. PICK x \in U : x \notin W
  BY <1>2, <1>5
<1>7. SumOver(f, U) = f[x] + SumOver(f, U \ {x})
  BY <1>2, <1>3, SumTake
<1>8. SumOver(f, W) <= SumOver(f, U \ {x}) /\ SumOver(f, U \ {x}) \in Int /\ f[x] \in Nat
  BY <1>2, <1>3, <1>6, SumIsInt
<1> QED BY <1>2, <1>4, <1>7, <1>8

(* Two sets with nothing in common are summed one after the other.           *)
LEMMA SumSplit ==
  ASSUME NEW S, IsFiniteSet(S), NEW f \in [S -> Int],
         NEW A \in SUBSET S, NEW B \in SUBSET S, A \cap B = {}
  PROVE  SumOver(f, A \cup B) = SumOver(f, A) + SumOver(f, B)
<1> DEFINE bad == {U \in SUBSET B : SumOver(f, A \cup U) # SumOver(f, A) + SumOver(f, U)}
<1>1. SUFFICES ASSUME bad # {} PROVE FALSE
  OBVIOUS
<1>2. PICK U \in bad : \A V \in bad : V \subseteq U => V = U
  <2>1. bad \in SUBSET (SUBSET B) /\ IsFiniteSet(B)
    BY FS_Subset
  <2> HIDE DEF bad
  <2> QED  BY <1>1, <2>1, SmallestSet
<1>3. SumOver(f, A) \in Int
  BY SumIsInt
<1>4. U # {}
  <2>1. SUFFICES ASSUME U = {} PROVE FALSE
    OBVIOUS
  <2>2. A \cup U = A
    BY <2>1
  <2>3. SumOver(f, {}) = 0
    BY SumEmpty, Zenon
  <2> QED  BY <1>2, <1>3, <2>1, <2>2, <2>3
<1>5. PICK x \in U : TRUE
  BY <1>4
<1> DEFINE W == U \ {x}
<1>6. SumOver(f, A \cup W) = SumOver(f, A) + SumOver(f, W)
  BY <1>2, <1>5
<1>7. SumOver(f, U) = SumOver(f, W) + f[x]
  <2>1. U = W \cup {x} /\ x \in S \ W /\ W \in SUBSET S
    BY <1>2, <1>5
  <2> HIDE DEF W
  <2> QED  BY <2>1, SumPut
<1>8. SumOver(f, A \cup U) = SumOver(f, A \cup W) + f[x]
  <2>1. A \cup U = (A \cup W) \cup {x} /\ x \in S \ (A \cup W) /\ A \cup W \in SUBSET S
    BY <1>2, <1>5
  <2> DEFINE Z == A \cup W
  <2> HIDE DEF Z
  <2>2. A \cup U = Z \cup {x} /\ x \in S \ Z /\ Z \in SUBSET S
    BY <2>1 DEF Z
  <2>3. SumOver(f, Z \cup {x}) = SumOver(f, Z) + f[x]
    BY <2>2, SumPut
  <2> QED  BY <2>2, <2>3 DEF Z
<1>9. SumOver(f, W) \in Int /\ f[x] \in Int
  <2>1. W \in SUBSET S /\ x \in S
    BY <1>2, <1>5
  <2> HIDE DEF W
  <2> QED  BY <2>1, SumIsInt
<1> HIDE DEF W
<1> QED  BY <1>2, <1>3, <1>6, <1>7, <1>8, <1>9

(* What is zero outside a set has the sum of the set.                        *)
LEMMA SumWithin ==
  ASSUME NEW S, IsFiniteSet(S), NEW f \in [S -> Int], NEW T \in SUBSET S, NEW g,
         \A x \in T : f[x] = g[x], \A x \in S \ T : f[x] = 0
  PROVE  SumOver(f, S) = SumOver(g, T)
<1> DEFINE R == S \ T
<1>1. R \in SUBSET S /\ T \cap R = {} /\ T \cup R = S /\ IsFiniteSet(R) /\ IsFiniteSet(T)
  BY FS_Subset
<1>2. \A x \in R : f[x] = [y \in R |-> 0][x]
  OBVIOUS
<1> HIDE DEF R
<1>3. SumOver(f, T \cup R) = SumOver(f, T) + SumOver(f, R)
  BY <1>1, SumSplit
<1>4. SumOver(f, R) = SumOver([y \in R |-> 0], R)
  BY <1>1, <1>2, SumSame
<1>5. SumOver([y \in R |-> 0], R) = 0
  <2>1. SumOver([y \in R |-> 0], R) = Cardinality(R) * 0
    <3>1. 0 \in Int
      OBVIOUS
    <3> QED  BY <1>1, <3>1, SumConstant, Zenon
  <2>2. Cardinality(R) \in Nat
    BY <1>1, FS_CardinalityType
  <2> QED  BY <2>1, <2>2
<1>6. SumOver(f, T) = SumOver(g, T)
  BY <1>1, SumSame
<1>7. SumOver(f, T) \in Int
  BY SumIsInt, Zenon
<1>8. SumOver(f, S) = SumOver(f, T) + SumOver(f, R)
  BY <1>1, <1>3, Zenon
<1> QED  BY <1>4, <1>5, <1>6, <1>7, <1>8

(* A sum of natural numbers is one, and as large as the sum of any part.     *)
LEMMA SumIsNat ==
  ASSUME NEW S, IsFiniteSet(S), NEW f \in [S -> Nat], NEW T \in SUBSET S
  PROVE  SumOver(f, T) \in Nat
<1>1. SumOver(f, {}) <= SumOver(f, T)
  BY SumGrows
<1>2. SumOver(f, T) \in Int
  BY SumIsInt
<1> QED  BY <1>1, <1>2, SumEmpty
=============================================================================
