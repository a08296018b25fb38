---------------------------- MODULE TotalsProofs ----------------------------
(***************************************************************************)
(* What a total is for any finite function into the naturals: one value    *)
(* more than the total of the rest, whichever value is taken out, and      *)
(* never less than the total of a part.                                    *)
(***************************************************************************)
EXTENDS Totals, Naturals, FiniteSetTheorems, WellFoundedInduction, TLAPS

\* A weighing: finitely many keys, each with a natural number.
IsWeighing(f) ==
    f = [x \in DOMAIN f |-> f[x]] /\ IsFiniteSet(DOMAIN f) /\ \A x \in DOMAIN f : f[x] \in Nat

\* The element that the library's fold takes out first.
First(S) == CHOOSE x \in S : TRUE

\* The sums of the fold on the subsets L of the keys.
Sums(f, L, g) ==
    g = [S \in L |-> IF S = {} THEN 0 ELSE f[First(S)] + g[S \ {First(S)}]]

LEMMA TotalIsFold ==
    ASSUME NEW f
    PROVE  Total(f) = (CHOOSE g : Sums(f, SUBSET DOMAIN f, g))[DOMAIN f]
BY DEF Total, MapThenSumSet, MapThenFoldSet, Sums, First

\* The least of some naturals.
LEMMA LeastNatural ==
    ASSUME NEW T, T \subseteq Nat, T # {}
    PROVE  \E x \in T : \A y \in T : x <= y
<1>1. PICK x \in T : \A y \in T : ~ (<<y, x>> \in OpToRel(<, Nat))
  BY NatLessThanWellFounded, WFMin
<1>2. \A y \in T : ~ (y < x)
  BY <1>1 DEF OpToRel
<1> QED
  BY <1>2

LEMMA SmallerSubset ==
    ASSUME NEW S, IsFiniteSet(S), NEW x \in S
    PROVE  /\ IsFiniteSet(S \ {x})
           /\ Cardinality(S) \in Nat /\ Cardinality(S \ {x}) \in Nat
           /\ Cardinality(S \ {x}) = Cardinality(S) - 1
           /\ Cardinality(S) # 0
BY FS_RemoveElement, FS_CardinalityType, FS_EmptySet

LEMMA FirstIsMember == ASSUME NEW S, S # {} PROVE First(S) \in S
BY DEF First

\* The subsets of at most n keys.
Level(D, n) == {S \in SUBSET D : Cardinality(S) <= n}

LEMMA SumsAtLevel ==
    ASSUME NEW f, IsFiniteSet(DOMAIN f), NEW n \in Nat,
           \E g : Sums(f, Level(DOMAIN f, n), g)
    PROVE  \E g : Sums(f, Level(DOMAIN f, n + 1), g)
<1> DEFINE D == DOMAIN f
<1>1. PICK g : Sums(f, Level(D, n), g)
  OBVIOUS
<1> DEFINE h == [S \in Level(D, n + 1) |->
                   IF S = {} THEN 0 ELSE f[First(S)] + g[S \ {First(S)}]]
<1>2. \A S \in Level(D, n) : S \in Level(D, n + 1)
  <2>1. \A S \in SUBSET D : Cardinality(S) \in Nat
    BY FS_Subset, FS_CardinalityType
  <2> QED
    BY <2>1 DEF Level
<1>3. \A S \in Level(D, n) : h[S] = g[S]
  <2> TAKE S \in Level(D, n)
  <2>1. g[S] = IF S = {} THEN 0 ELSE f[First(S)] + g[S \ {First(S)}]
    BY <1>1 DEF Sums
  <2>2. h[S] = IF S = {} THEN 0 ELSE f[First(S)] + g[S \ {First(S)}]
    BY <1>2
  <2> QED
    BY <2>1, <2>2
<1>4. \A S \in Level(D, n + 1) : S # {} => S \ {First(S)} \in Level(D, n)
  <2> SUFFICES ASSUME NEW S \in Level(D, n + 1), S # {}
               PROVE  S \ {First(S)} \in Level(D, n)
    OBVIOUS
  <2>1. IsFiniteSet(S) /\ First(S) \in S /\ S \in SUBSET D /\ Cardinality(S) <= n + 1
    BY FirstIsMember, FS_Subset DEF Level
  <2>2. /\ Cardinality(S) \in Nat /\ Cardinality(S \ {First(S)}) \in Nat
        /\ Cardinality(S \ {First(S)}) = Cardinality(S) - 1
    BY <2>1, SmallerSubset
  <2> QED
    BY <2>1, <2>2 DEF Level
<1>5. Sums(f, Level(D, n + 1), h)
  <2>1. \A S \in Level(D, n + 1) :
          h[S] = IF S = {} THEN 0 ELSE f[First(S)] + h[S \ {First(S)}]
    <3> TAKE S \in Level(D, n + 1)
    <3>1. h[S] = IF S = {} THEN 0 ELSE f[First(S)] + g[S \ {First(S)}]
      OBVIOUS
    <3> HIDE DEF h
    <3> QED
      BY <1>3, <1>4, <3>1
  <2>2. h = [S \in Level(D, n + 1) |-> h[S]]
    OBVIOUS
  <2> HIDE DEF h
  <2> QED
    BY <2>1, <2>2 DEF Sums
<1> QED
  BY <1>5

LEMMA SumsExist ==
    ASSUME NEW f, IsFiniteSet(DOMAIN f)
    PROVE  \E g : Sums(f, SUBSET DOMAIN f, g)
<1> DEFINE D == DOMAIN f
           Found(n) == \E g : Sums(f, Level(D, n), g)
<1>1. Found(0)
  <2> DEFINE h == [S \in Level(D, 0) |-> 0]
  <2>1. \A S \in Level(D, 0) : S = {}
    <3> SUFFICES ASSUME NEW S \in Level(D, 0) PROVE S = {}
      OBVIOUS
    <3>1. S \in SUBSET D /\ Cardinality(S) <= 0
      BY DEF Level
    <3>2. IsFiniteSet(S) /\ Cardinality(S) \in Nat
      BY <3>1, FS_Subset, FS_CardinalityType
    <3>3. Cardinality(S) = 0
      BY <3>1, <3>2
    <3> QED
      BY <3>2, <3>3, FS_EmptySet
  <2>2. Sums(f, Level(D, 0), h)
    BY <2>1 DEF Sums
  <2> QED
    BY <2>2
<1>2. \A n \in Nat : Found(n) => Found(n + 1)
  BY SumsAtLevel
<1> HIDE DEF Found
<1>3. \A n \in Nat : Found(n)
  <2> DEFINE Bad == {n \in Nat : ~ Found(n)}
  <2> SUFFICES ASSUME Bad # {} PROVE FALSE
    OBVIOUS
  <2>1. PICK n \in Bad : \A m \in Bad : n <= m
    BY LeastNatural
  <2>2. n \in Nat /\ ~ Found(n) /\ n # 0
    BY <1>1, <2>1
  <2>3. n - 1 \in Nat /\ n - 1 \notin Bad
    BY <2>1, <2>2
  <2>4. Found((n - 1) + 1)
    BY <1>2, <2>3
  <2> QED
    BY <2>2, <2>4
<1>4. Cardinality(D) \in Nat
  BY FS_CardinalityType
<1>5. Level(D, Cardinality(D)) = SUBSET D
  BY FS_Subset DEF Level
<1> QED
  BY <1>3, <1>4, <1>5 DEF Found

\* The sums that a total is taken from.
SumsOf(f) == CHOOSE g : Sums(f, SUBSET DOMAIN f, g)

LEMMA TotalOfSums ==
    ASSUME NEW f, IsFiniteSet(DOMAIN f)
    PROVE  /\ Total(f) = SumsOf(f)[DOMAIN f]
           /\ SumsOf(f)[{}] = 0
           /\ \A S \in SUBSET DOMAIN f : S # {} =>
                SumsOf(f)[S] = f[First(S)] + SumsOf(f)[S \ {First(S)}]
<1>1. Sums(f, SUBSET DOMAIN f, SumsOf(f))
  BY SumsExist DEF SumsOf
<1>2. Total(f) = SumsOf(f)[DOMAIN f]
  BY TotalIsFold DEF SumsOf
<1>3. \A S \in SUBSET DOMAIN f :
        SumsOf(f)[S] = IF S = {} THEN 0
                       ELSE f[First(S)] + SumsOf(f)[S \ {First(S)}]
  BY <1>1 DEF Sums
<1>4. {} \in SUBSET DOMAIN f
  OBVIOUS
<1> QED
  BY <1>2, <1>3, <1>4

\* What holds of the subsets of a finite set when it holds of each one whose
\* smaller subsets have it.  B is the set of those that do not.
LEMMA SmallestSubset ==
    ASSUME NEW D, IsFiniteSet(D), NEW B, B \subseteq SUBSET D, B # {}
    PROVE  \E S \in B : \A T \in B : Cardinality(S) <= Cardinality(T)
<1>1. \A S \in B : Cardinality(S) \in Nat
  BY FS_Subset, FS_CardinalityType
<1> DEFINE C == {Cardinality(S) : S \in B}
<1>2. C \subseteq Nat /\ C # {}
  BY <1>1
<1> HIDE DEF C
<1>3. PICK c \in C : \A d \in C : c <= d
  BY <1>2, LeastNatural
<1> QED
  BY <1>3 DEF C

LEMMA SumsNatural ==
    ASSUME NEW f, IsWeighing(f), NEW S \in SUBSET DOMAIN f
    PROVE  SumsOf(f)[S] \in Nat
<1> DEFINE D == DOMAIN f
           g == SumsOf(f)
           B == {T \in SUBSET D : g[T] \notin Nat}
<1>0. IsFiniteSet(D) /\ \A x \in D : f[x] \in Nat
  BY DEF IsWeighing
<1>1. g[{}] = 0 /\ \A T \in SUBSET D : T # {} => g[T] = f[First(T)] + g[T \ {First(T)}]
  BY <1>0, TotalOfSums
<1> HIDE DEF g
<1> SUFFICES ASSUME B # {} PROVE FALSE
  BY DEF g
<1>2. PICK T \in B : \A U \in B : Cardinality(T) <= Cardinality(U)
  BY <1>0, SmallestSubset
<1>3. T \in SUBSET D /\ g[T] \notin Nat /\ T # {}
  <2>1. T \in SUBSET D /\ g[T] \notin Nat
    BY <1>2
  <2>2. g[{}] \in Nat
    BY <1>1
  <2> QED
    BY <2>1, <2>2
<1>4. First(T) \in T /\ IsFiniteSet(T)
  BY <1>0, <1>3, FirstIsMember, FS_Subset
<1>5. T \ {First(T)} \notin B
  BY <1>2, <1>4, SmallerSubset
<1>6. g[T \ {First(T)}] \in Nat /\ f[First(T)] \in Nat
  BY <1>0, <1>3, <1>4, <1>5
<1>7. g[T] = f[First(T)] + g[T \ {First(T)}]
  BY <1>1, <1>3, Zenon
<1> QED
  BY <1>3, <1>6, <1>7

\* Whichever element is taken out first, the sum is the same.
LEMMA SumsSplit ==
    ASSUME NEW f, IsWeighing(f)
    PROVE  \A S \in SUBSET DOMAIN f : \A x \in S :
               SumsOf(f)[S] = f[x] + SumsOf(f)[S \ {x}]
<1> DEFINE D == DOMAIN f
           g == SumsOf(f)
           B == {T \in SUBSET D : \E x \in T : g[T] # f[x] + g[T \ {x}]}
<1>0. IsFiniteSet(D) /\ \A y \in D : f[y] \in Nat
  BY DEF IsWeighing
<1>1. \A T \in SUBSET D : T # {} => g[T] = f[First(T)] + g[T \ {First(T)}]
  BY <1>0, TotalOfSums
<1>2. \A T \in SUBSET D : g[T] \in Nat
  BY SumsNatural
<1> HIDE DEF g
<1> SUFFICES ASSUME B # {} PROVE FALSE
  BY DEF g
<1>3. PICK T \in B : \A U \in B : Cardinality(T) <= Cardinality(U)
  BY <1>0, SmallestSubset
<1>4. PICK x \in T : g[T] # f[x] + g[T \ {x}]
  BY <1>3
<1> DEFINE y == First(T)
<1>5. y \in T /\ IsFiniteSet(T) /\ T \in SUBSET D
  BY <1>0, <1>3, <1>4, FirstIsMember, FS_Subset
<1>6. g[T] = f[y] + g[T \ {y}]
  BY <1>1, <1>4, <1>5
<1> HIDE DEF y
<1>7. y # x
  BY <1>4, <1>6
<1>8. T \ {y} \notin B /\ T \ {x} \notin B
  <2>1. ASSUME NEW z \in T PROVE T \ {z} \notin B
    <3>1. ~ (Cardinality(T) <= Cardinality(T \ {z}))
      BY <1>5, SmallerSubset
    <3> QED
      BY <1>3, <3>1
  <2> QED
    BY <1>5, <2>1
<1>9. g[T \ {y}] = f[x] + g[(T \ {y}) \ {x}]
  BY <1>5, <1>7, <1>8
<1>10. g[T \ {x}] = f[y] + g[(T \ {x}) \ {y}]
  BY <1>5, <1>7, <1>8
<1>11. (T \ {y}) \ {x} = (T \ {x}) \ {y}
  OBVIOUS
<1>12. f[x] \in Nat /\ f[y] \in Nat /\ g[(T \ {x}) \ {y}] \in Nat
  BY <1>0, <1>2, <1>5
<1> DEFINE rest == g[(T \ {x}) \ {y}]
<1>13. /\ g[T \ {y}] = f[x] + rest /\ g[T \ {x}] = f[y] + rest
       /\ rest \in Nat
  BY <1>9, <1>10, <1>11, <1>12
<1> HIDE DEF rest
<1> QED
  BY <1>4, <1>6, <1>12, <1>13

\* A function that has some of another's keys with their values has the same
\* sums on them.
LEMMA SumsAgree ==
    ASSUME NEW f, NEW h, IsWeighing(f), IsWeighing(h), DOMAIN h \subseteq DOMAIN f,
           \A x \in DOMAIN h : h[x] = f[x]
    PROVE  \A S \in SUBSET DOMAIN h : SumsOf(h)[S] = SumsOf(f)[S]
<1> DEFINE E == DOMAIN h
           g == SumsOf(f)
           k == SumsOf(h)
           B == {T \in SUBSET E : k[T] # g[T]}
<1>0. IsFiniteSet(E) /\ IsFiniteSet(DOMAIN f)
  BY DEF IsWeighing
<1>1. g[{}] = 0 /\ \A T \in SUBSET DOMAIN f : T # {} => g[T] = f[First(T)] + g[T \ {First(T)}]
  BY <1>0, TotalOfSums
<1>2. k[{}] = 0 /\ \A T \in SUBSET E : T # {} => k[T] = h[First(T)] + k[T \ {First(T)}]
  BY <1>0, TotalOfSums
<1> HIDE DEF g, k
<1> SUFFICES ASSUME B # {} PROVE FALSE
  BY DEF g, k
<1>3. PICK T \in B : \A U \in B : Cardinality(T) <= Cardinality(U)
  BY <1>0, SmallestSubset
<1>4. T \in SUBSET E /\ T \in SUBSET DOMAIN f /\ k[T] # g[T] /\ T # {}
  BY <1>1, <1>2, <1>3
<1>5. First(T) \in T /\ IsFiniteSet(T)
  BY <1>0, <1>4, FirstIsMember, FS_Subset
<1>6. T \ {First(T)} \notin B
  BY <1>3, <1>5, SmallerSubset
<1>7. k[T \ {First(T)}] = g[T \ {First(T)}] /\ h[First(T)] = f[First(T)]
  BY <1>4, <1>5, <1>6
<1> QED
  BY <1>1, <1>2, <1>4, <1>7

-----------------------------------------------------------------------------
(* Totals *)

\* A total is a natural number, and nothing weighs nothing.
LEMMA TotalType ==
    ASSUME NEW f, IsWeighing(f)
    PROVE  Total(f) \in Nat /\ (DOMAIN f = {} => Total(f) = 0)
<1>1. IsFiniteSet(DOMAIN f)
  BY DEF IsWeighing
<1>2. Total(f) = SumsOf(f)[DOMAIN f] /\ SumsOf(f)[{}] = 0
  BY <1>1, TotalOfSums
<1> QED
  BY <1>2, SumsNatural

\* Functions with the same keys and values have the same total: the total of
\* the whole is one value and the total of the rest.
LEMMA TotalSplit ==
    ASSUME NEW f, IsWeighing(f), NEW h, IsWeighing(h), NEW x \in DOMAIN f,
           DOMAIN h = DOMAIN f \ {x}, \A y \in DOMAIN h : h[y] = f[y]
    PROVE  Total(f) = f[x] + Total(h)
<1>1. IsFiniteSet(DOMAIN f) /\ IsFiniteSet(DOMAIN h)
  BY DEF IsWeighing
<1>2. Total(f) = SumsOf(f)[DOMAIN f] /\ Total(h) = SumsOf(h)[DOMAIN h]
  BY <1>1, TotalOfSums
<1>3. SumsOf(f)[DOMAIN f] = f[x] + SumsOf(f)[DOMAIN f \ {x}]
  BY SumsSplit
<1>4. SumsOf(h)[DOMAIN h] = SumsOf(f)[DOMAIN h]
  BY SumsAgree
<1> QED
  BY <1>2, <1>3, <1>4

\* A part never weighs more than the whole.
LEMMA TotalOfPart ==
    ASSUME NEW f, IsWeighing(f), NEW h, IsWeighing(h), DOMAIN h \subseteq DOMAIN f,
           \A y \in DOMAIN h : h[y] = f[y]
    PROVE  Total(h) <= Total(f)
<1> DEFINE D == DOMAIN f
           E == DOMAIN h
           g == SumsOf(f)
           B == {T \in SUBSET (D \ E) : ~ (g[E] <= g[E \cup T])}
<1>1. IsFiniteSet(D) /\ IsFiniteSet(E) /\ \A x \in D : f[x] \in Nat
  BY DEF IsWeighing
<1>2. Total(f) = g[D] /\ Total(h) = SumsOf(h)[E]
  BY <1>1, TotalOfSums
<1>3. SumsOf(h)[E] = g[E]
  BY SumsAgree
<1>4. \A S \in SUBSET D : g[S] \in Nat /\ \A x \in S : g[S] = f[x] + g[S \ {x}]
  BY SumsNatural, SumsSplit
<1> HIDE DEF g
<1>5. B = {}
  <2> SUFFICES ASSUME B # {} PROVE FALSE
    OBVIOUS
  <2>1. IsFiniteSet(D \ E)
    BY <1>1, FS_Difference
  <2>2. PICK T \in B : \A U \in B : Cardinality(T) <= Cardinality(U)
    BY <2>1, SmallestSubset
  <2>3. T \in SUBSET (D \ E) /\ ~ (g[E] <= g[E \cup T])
    BY <2>2
  <2>4. T # {}
    <3> SUFFICES ASSUME T = {} PROVE FALSE
      OBVIOUS
    <3>1. E \cup T = E /\ g[E] \in Nat
      BY <1>4
    <3> QED
      BY <2>3, <3>1
  <2>5. PICK x \in T : TRUE
    BY <2>4
  <2>6. IsFiniteSet(T)
    BY <2>1, <2>3, FS_Subset
  <2>7. T \ {x} \notin B
    <3>1. ~ (Cardinality(T) <= Cardinality(T \ {x}))
      BY <2>5, <2>6, SmallerSubset
    <3> QED
      BY <2>2, <3>1
  <2>8. g[E] <= g[E \cup (T \ {x})]
    BY <2>3, <2>7
  <2>9. (E \cup T) \ {x} = E \cup (T \ {x}) /\ x \in E \cup T /\ E \cup T \in SUBSET D
    BY <2>3, <2>5
  <2>10. g[E \cup T] = f[x] + g[E \cup (T \ {x})]
    BY <1>4, <2>9
  <2>11. g[E \cup (T \ {x})] \in Nat /\ f[x] \in Nat /\ g[E] \in Nat
    BY <1>1, <1>4, <2>9
  <2> QED
    BY <2>3, <2>8, <2>10, <2>11
<1>6. E \cup (D \ E) = D /\ D \ E \in SUBSET (D \ E)
  OBVIOUS
<1>7. g[E] <= g[D]
  BY <1>5, <1>6
<1> QED
  BY <1>2, <1>3, <1>7
=============================================================================
