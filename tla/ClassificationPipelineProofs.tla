--------------------- MODULE ClassificationPipelineProofs ---------------------
(***************************************************************************)
(* The safety properties of ClassificationPipeline, for any transactions,  *)
(* limits and histories of a source.                                       *)
(***************************************************************************)
EXTENDS ClassificationPipeline, TotalsProofs

-----------------------------------------------------------------------------
(* Bytes *)

LEMMA BytesWeigh ==
    ASSUME NEW S \in SUBSET Outpoints, IsFiniteSet(S)
    PROVE  IsWeighing([o \in S |-> ScriptBytes[o]])
BY PendingSliceAssumption DEF IsWeighing

LEMMA BytesType ==
    ASSUME NEW S \in SUBSET Outpoints, IsFiniteSet(S)
    PROVE  Bytes(S) \in Nat /\ (S = {} => Bytes(S) = 0)
<1> DEFINE f == [o \in S |-> ScriptBytes[o]]
<1>1. IsWeighing(f) /\ DOMAIN f = S
  BY BytesWeigh
<1> HIDE DEF f
<1>2. Total(f) \in Nat /\ (DOMAIN f = {} => Total(f) = 0)
  BY <1>1, TotalType
<1> QED
  BY <1>1, <1>2 DEF Bytes, f

LEMMA BytesOfPart ==
    ASSUME NEW S \in SUBSET Outpoints, IsFiniteSet(S), NEW T \in SUBSET S
    PROVE  Bytes(T) <= Bytes(S)
<1> DEFINE f == [o \in S |-> ScriptBytes[o]]
           h == [o \in T |-> ScriptBytes[o]]
<1>1. IsWeighing(f) /\ DOMAIN f = S
  BY BytesWeigh
<1>2. IsFiniteSet(T) /\ T \in SUBSET Outpoints
  BY FS_Subset
<1>3. IsWeighing(h) /\ DOMAIN h = T
  BY <1>2, BytesWeigh
<1>4. \A o \in T : h[o] = f[o]
  OBVIOUS
<1> HIDE DEF f, h
<1>5. Total(h) <= Total(f)
  BY <1>1, <1>3, <1>4, TotalOfPart
<1> QED
  BY <1>5 DEF Bytes, f, h

LEMMA BytesAdd ==
    ASSUME NEW S \in SUBSET Outpoints, IsFiniteSet(S), NEW o \in Outpoints, o \notin S
    PROVE  Bytes(S \cup {o}) = Bytes(S) + ScriptBytes[o]
<1> DEFINE T == S \cup {o}
           f == [x \in T |-> ScriptBytes[x]]
           h == [x \in S |-> ScriptBytes[x]]
<1>1. IsWeighing(h) /\ DOMAIN h = S
  BY BytesWeigh
<1>2. IsFiniteSet(T) /\ T \in SUBSET Outpoints
  BY FS_AddElement
<1>3. IsWeighing(f) /\ DOMAIN f = T
  <2> HIDE DEF T
  <2> QED
    BY <1>2, BytesWeigh
<1>4. \A x \in S : h[x] = f[x]
  OBVIOUS
<1>5. f[o] = ScriptBytes[o] /\ o \in DOMAIN f /\ DOMAIN h = DOMAIN f \ {o}
  OBVIOUS
<1> HIDE DEF f, h
<1>6. Total(f) = f[o] + Total(h)
  BY <1>1, <1>3, <1>4, <1>5, TotalSplit
<1>7. Bytes(T) = Total(f) /\ Bytes(S) = Total(h)
  BY DEF Bytes, f, h
<1>8. Total(h) \in Nat /\ ScriptBytes[o] \in Nat
  BY <1>1, TotalType, PendingSliceAssumption
<1> QED
  BY <1>5, <1>6, <1>7, <1>8

-----------------------------------------------------------------------------
(* The working set *)

\* A slice is a record of its fields.
SliceForm(p) ==
    p = [queued |-> p.queued, turn |-> p.turn, cursor |-> p.cursor,
         facts |-> p.facts, deferred |-> p.deferred, raw |-> p.raw]

\* The window of a slice, with the facts that its candidates need.
WindowForm(p) ==
    /\ SliceForm(p)
    /\ p.queued \in Seq(Variants)
    /\ Active(p) \subseteq Variants /\ IsFiniteSet(Active(p))
    /\ p.turn \in [Active(p) -> Nat]
    /\ p.cursor \in [Active(p) -> Nat]
    /\ p.facts = [o \in DOMAIN p.facts |-> p.facts[o]]
    /\ DOMAIN p.facts = UNION {Required(v) : v \in Active(p)}

\* Its limits.
WindowLimits(p) ==
    /\ PendingBytes(p) <= MaxPendingBytes
    /\ Cardinality(Active(p)) > 1 => Cardinality(DOMAIN p.facts) <= MaxUniquePrevouts

SliceOK(p) == WindowForm(p) /\ WindowLimits(p)

\* What a fact may be when the membership has these txids.
FactOK(f, o, txids) ==
    \/ f.kind \in {"ready", "deferred"}
    \/ f.kind = "missing" /\ ParentOf[o] \notin txids
    \/ /\ f.kind \in {"awaiting", "blocked"}
       /\ f.source \in {"parent", "confirmed", "fallback"}
       /\ f.source = "confirmed" => ParentOf[o] \notin txids

FactsOK(p, txids) == \A o \in DOMAIN p.facts : FactOK(p.facts[o], o, txids)

LEMMA ImageFinite ==
    ASSUME NEW f, IsFiniteSet(DOMAIN f)
    PROVE  IsFiniteSet({f[x] : x \in DOMAIN f})
<1> DEFINE T == {f[x] : x \in DOMAIN f}
           g == [x \in DOMAIN f |-> f[x]]
<1>1. g \in [DOMAIN f -> T] /\ \A t \in T : \E x \in DOMAIN f : g[x] = t
  OBVIOUS
<1>2. g \in Surjection(DOMAIN f, T)
  BY <1>1 DEF Surjection
<1> HIDE DEF T, g
<1>3. IsFiniteSet(T)
  BY <1>2, FS_Surjection
<1> QED
  BY <1>3 DEF T

LEMMA RequiredFinite ==
    ASSUME NEW v \in Variants
    PROVE  Required(v) \in SUBSET Outpoints /\ IsFiniteSet(Required(v))
<1>1. Inputs[v] \in Seq(Outpoints)
  BY PendingSliceAssumption
<1> DEFINE s == Inputs[v]
<1>2. Required(v) = {s[i] : i \in 1 .. Len(s)} /\ Len(s) \in Nat
  BY <1>1 DEF Required, ToSet
<1>3. IsFiniteSet(1 .. Len(s)) /\ DOMAIN s = 1 .. Len(s)
  BY <1>1, <1>2, FS_Interval
<1>4. IsFiniteSet({s[i] : i \in 1 .. Len(s)})
  BY <1>3, ImageFinite
<1>5. Required(v) \in SUBSET Outpoints
  BY <1>1 DEF Required, ToSet
<1> QED
  BY <1>2, <1>4, <1>5

LEMMA NeedsFinite ==
    ASSUME NEW S \in SUBSET Variants, IsFiniteSet(S)
    PROVE  /\ UNION {Required(v) : v \in S} \in SUBSET Outpoints
           /\ IsFiniteSet(UNION {Required(v) : v \in S})
<1> DEFINE R == {Required(v) : v \in S}
           f == [v \in S |-> Required(v)]
<1>1. IsFiniteSet(R)
  <2>1. DOMAIN f = S /\ R = {f[v] : v \in S}
    OBVIOUS
  <2> HIDE DEF f, R
  <2> QED
    BY <2>1, ImageFinite
<1>2. \A T \in R : IsFiniteSet(T) /\ T \in SUBSET Outpoints
  BY RequiredFinite
<1>3. IsFiniteSet(UNION R)
  <2> HIDE DEF R
  <2> QED
    BY <1>1, <1>2, FS_UNION
<1> QED
  BY <1>2, <1>3

LEMMA FactsFinite ==
    ASSUME NEW p, WindowForm(p)
    PROVE  /\ DOMAIN p.facts \in SUBSET Outpoints /\ IsFiniteSet(DOMAIN p.facts)
           /\ \A S \in SUBSET DOMAIN p.facts : S \in SUBSET Outpoints /\ IsFiniteSet(S)
           /\ ReadyFacts(p) \in SUBSET DOMAIN p.facts
           /\ PendingBytes(p) \in Nat
<1>1. DOMAIN p.facts \in SUBSET Outpoints /\ IsFiniteSet(DOMAIN p.facts)
  BY NeedsFinite DEF WindowForm
<1>2. \A S \in SUBSET DOMAIN p.facts : S \in SUBSET Outpoints /\ IsFiniteSet(S)
  BY <1>1, FS_Subset
<1>3. ReadyFacts(p) \in SUBSET DOMAIN p.facts
  BY DEF ReadyFacts
<1>4. PendingBytes(p) \in Nat
  BY <1>2, <1>3, BytesType DEF PendingBytes
<1> QED
  BY <1>1, <1>2, <1>3, <1>4

LEMMA GreatestNatural ==
    ASSUME NEW S, S \subseteq Nat, S # {}, IsFiniteSet(S)
    PROVE  \E x \in S : \A y \in S : y <= x
<1> DEFINE Good(T) == \E x \in T : \A y \in T : y <= x
           B == {T \in SUBSET S : T # {} /\ ~ Good(T)}
<1>1. B = {}
  <2> SUFFICES ASSUME B # {} PROVE FALSE
    OBVIOUS
  <2>1. PICK T \in B : \A U \in B : Cardinality(T) <= Cardinality(U)
    BY SmallestSubset
  <2>2. T \in SUBSET S /\ T # {} /\ ~ Good(T)
    BY <2>1
  <2>3. PICK x \in T : TRUE
    BY <2>2
  <2>4. IsFiniteSet(T)
    BY <2>2, FS_Subset
  <2>5. T \ {x} \notin B
    <3>0. /\ Cardinality(T) \in Nat /\ Cardinality(T \ {x}) \in Nat
          /\ Cardinality(T \ {x}) = Cardinality(T) - 1
      <4> HIDE DEF B
      <4> QED
        BY <2>3, <2>4, SmallerSubset
    <3>1. ~ (Cardinality(T) <= Cardinality(T \ {x}))
      BY <3>0
    <3> QED
      BY <2>1, <3>1
  <2>6. T \subseteq Nat
    BY <2>2
  <2>7. CASE T \ {x} = {}
    <3>1. \A y \in T : y = x
      BY <2>7
    <3> QED
      BY <2>2, <2>3, <2>6, <3>1
  <2>8. CASE T \ {x} # {}
    <3>1. PICK m \in T \ {x} : \A y \in T \ {x} : y <= m
      BY <2>2, <2>5, <2>8
    <3>2. CASE x <= m
      BY <2>2, <2>6, <3>1, <3>2
    <3>3. CASE ~ (x <= m)
      <4>1. \A y \in T : y <= x
        BY <2>3, <2>6, <3>1, <3>3
      <4> QED
        BY <2>2, <2>3, <4>1
    <3> QED
      BY <3>2, <3>3
  <2> QED
    BY <2>7, <2>8
<1> QED
  BY <1>1

\* The element of a finite set at which a function into the naturals is
\* greatest, and where it is least.
LEMMA GreatestAt ==
    ASSUME NEW f, NEW S, S # {}, IsFiniteSet(S), \A x \in S : f[x] \in Nat
    PROVE  \E x \in S : \A y \in S : f[y] <= f[x]
<1> DEFINE g == [x \in S |-> f[x]]
           T == {g[x] : x \in S}
<1>1. DOMAIN g = S /\ T \subseteq Nat /\ T # {}
  OBVIOUS
<1>2. IsFiniteSet(T)
  <2> HIDE DEF g
  <2> QED
    BY <1>1, ImageFinite
<1>3. \A x \in S : g[x] = f[x] /\ g[x] \in T
  OBVIOUS
<1>4. \A t \in T : \E x \in S : t = f[x]
  OBVIOUS
<1> HIDE DEF T, g
<1>5. PICK t \in T : \A u \in T : u <= t
  BY <1>1, <1>2, GreatestNatural
<1> QED
  BY <1>3, <1>4, <1>5

LEMMA LeastAt ==
    ASSUME NEW f, NEW S, S # {}, \A x \in S : f[x] \in Nat
    PROVE  \E x \in S : \A y \in S : f[x] <= f[y]
<1> DEFINE T == {f[x] : x \in S}
<1>1. T \subseteq Nat /\ T # {}
  OBVIOUS
<1>2. PICK t \in T : \A u \in T : t <= u
  BY <1>1, LeastNatural
<1> QED
  BY <1>2

-----------------------------------------------------------------------------
(* Steps that only change the states of facts *)

Refacted(q, p) ==
    /\ SliceForm(q)
    /\ q.queued = p.queued /\ q.turn = p.turn /\ q.cursor = p.cursor
    /\ q.raw = p.raw
    /\ q.facts = [o \in DOMAIN p.facts |-> q.facts[o]]

LEMMA RefactedForm ==
    ASSUME NEW p, NEW q, WindowForm(p), Refacted(q, p)
    PROVE  /\ WindowForm(q) /\ Active(q) = Active(p) /\ Candidates(q) = Candidates(p)
           /\ DOMAIN q.facts = DOMAIN p.facts
<1>1. DOMAIN q.facts = DOMAIN p.facts
  BY DEF Refacted
<1>2. Active(q) = Active(p) /\ Candidates(q) = Candidates(p)
  BY DEF Refacted, Active, Candidates
<1>3. q.facts = [o \in DOMAIN q.facts |-> q.facts[o]]
  BY <1>1 DEF Refacted
<1>4. WindowForm(q)
  BY <1>1, <1>2, <1>3 DEF WindowForm, Refacted
<1> QED
  BY <1>1, <1>2, <1>4

\* When no script is added the bytes do not grow.
LEMMA RefactedOK ==
    ASSUME NEW p, NEW q, SliceOK(p), Refacted(q, p), ReadyFacts(q) \subseteq ReadyFacts(p)
    PROVE  SliceOK(q)
<1>1. /\ WindowForm(p) /\ WindowForm(q) /\ Active(q) = Active(p)
      /\ DOMAIN q.facts = DOMAIN p.facts
  BY RefactedForm DEF SliceOK
<1>2. /\ ReadyFacts(p) \in SUBSET Outpoints /\ IsFiniteSet(ReadyFacts(p))
      /\ PendingBytes(p) \in Nat /\ PendingBytes(q) \in Nat
  BY <1>1, FactsFinite
<1>3. PendingBytes(q) <= PendingBytes(p)
  BY <1>2, BytesOfPart DEF PendingBytes
<1>4. PendingBytes(p) <= MaxPendingBytes /\ MaxPendingBytes \in Nat
  BY PendingSliceAssumption DEF SliceOK, WindowLimits
<1>5. PendingBytes(q) <= MaxPendingBytes
  BY <1>2, <1>3, <1>4
<1> QED
  BY <1>1, <1>5 DEF SliceOK, WindowLimits

-----------------------------------------------------------------------------
(* Storing scripts *)

\* T is what is stored of E when R is ready already.
Solves(R, place, E, T) ==
    /\ T \in SUBSET E
    /\ \A o \in E : o \in T <=> Fits(R \cup {x \in T : place[x] < place[o]}, o)

\* Scripts that can be stored one after the other, and where.
Places(place, S) ==
    /\ S = DOMAIN place /\ IsFiniteSet(S)
    /\ \A o \in S : place[o] \in Nat
    /\ \A x, y \in S : place[x] = place[y] => x = y

LEMMA SolutionExists ==
    ASSUME NEW R, NEW place, NEW D, Places(place, D)
    PROVE  \E T : Solves(R, place, D, T)
<1> DEFINE Solved(E) == \E T : Solves(R, place, E, T)
           B == {E \in SUBSET D : ~ Solved(E)}
<1>0. IsFiniteSet(D)
  BY DEF Places
<1>1. B = {}
  <2> SUFFICES ASSUME B # {} PROVE FALSE
    OBVIOUS
  <2>1. PICK E \in B : \A U \in B : Cardinality(E) <= Cardinality(U)
    BY <1>0, SmallestSubset
  <2>2. E \in SUBSET D /\ ~ Solved(E) /\ IsFiniteSet(E)
    BY <1>0, <2>1, FS_Subset
  <2>3. E # {}
    <3>1. Solves(R, place, {}, {})
      BY DEF Solves
    <3> QED
      BY <2>2, <3>1
  <2>4. \A x \in E : place[x] \in Nat
    BY <2>2 DEF Places
  <2>5. PICK o \in E : \A y \in E : place[y] <= place[o]
    BY <2>2, <2>3, <2>4, GreatestAt
  <2>6. \A y \in E \ {o} : place[y] < place[o]
    <3>1. \A y \in E \ {o} : place[y] # place[o]
      BY <2>2, <2>5 DEF Places
    <3> QED
      BY <2>4, <2>5, <3>1
  <2>7. E \ {o} \notin B
    <3>1. ~ (Cardinality(E) <= Cardinality(E \ {o}))
      BY <2>2, <2>5, SmallerSubset
    <3> QED
      BY <2>1, <3>1
  <2>8. PICK T : Solves(R, place, E \ {o}, T)
    BY <2>2, <2>7
  <2>9. T \in SUBSET (E \ {o}) /\ {x \in T : place[x] < place[o]} = T
    BY <2>6, <2>8 DEF Solves
  <2>10. CASE Fits(R \cup T, o)
    <3> DEFINE U == T \cup {o}
    <3>1. \A y \in E \ {o} : {x \in U : place[x] < place[y]} = {x \in T : place[x] < place[y]}
      <4> SUFFICES ASSUME NEW y \in E \ {o} PROVE ~ (place[o] < place[y])
        OBVIOUS
      <4> QED
        BY <2>4, <2>6
    <3>2. {x \in U : place[x] < place[o]} = T
      BY <2>4, <2>9
    <3>3. \A y \in E : y \in U <=> Fits(R \cup {x \in U : place[x] < place[y]}, y)
      <4> TAKE y \in E
      <4>1. CASE y = o
        BY <2>10, <3>2, <4>1
      <4>2. CASE y # o
        <5>1. y \in E \ {o} /\ (y \in U <=> y \in T)
          BY <4>2
        <5>2. y \in T <=> Fits(R \cup {x \in T : place[x] < place[y]}, y)
          BY <2>8, <5>1 DEF Solves
        <5> QED
          BY <3>1, <5>1, <5>2
      <4> QED
        BY <4>1, <4>2
    <3>4. Solves(R, place, E, U)
      BY <2>9, <3>3 DEF Solves
    <3> QED
      BY <2>2, <3>4
  <2>11. CASE ~ Fits(R \cup T, o)
    <3>1. \A y \in E : y \in T <=> Fits(R \cup {x \in T : place[x] < place[y]}, y)
      BY <2>8, <2>9, <2>11 DEF Solves
    <3>2. Solves(R, place, E, T)
      BY <2>9, <3>1 DEF Solves
    <3> QED
      BY <2>2, <3>2
  <2> QED
    BY <2>10, <2>11
<1> QED
  BY <1>1

\* What is stored stays within the limit.
LEMMA StoredFits ==
    ASSUME NEW p, SliceOK(p), NEW place,
           Places(place, DOMAIN place), DOMAIN place \subseteq DOMAIN p.facts \ ReadyFacts(p)
    PROVE  /\ Stored(p, place) \in SUBSET DOMAIN place
           /\ Bytes(ReadyFacts(p) \cup Stored(p, place)) <= MaxPendingBytes
<1> DEFINE R == ReadyFacts(p)
           D == DOMAIN place
           T == Stored(p, place)
<1>1. \E U : Solves(R, place, D, U)
  BY SolutionExists
<1>2. T = CHOOSE U \in SUBSET D :
            \A o \in D : o \in U <=> Fits(R \cup {x \in U : place[x] < place[o]}, o)
  BY DEF Stored
<1>3. /\ T \in SUBSET D
      /\ \A o \in D : o \in T <=> Fits(R \cup {x \in T : place[x] < place[o]}, o)
  BY <1>1, <1>2 DEF Solves
<1>4. /\ IsFiniteSet(T) /\ \A x \in T : place[x] \in Nat
      /\ \A x, y \in T : place[x] = place[y] => x = y
  BY <1>3, FS_Subset DEF Places
<1> HIDE DEF T
<1>5. /\ R \cup T \in SUBSET Outpoints /\ IsFiniteSet(R \cup T)
      /\ \A o \in T : o \notin R /\ o \in Outpoints
      /\ \A o \in T : R \cup (T \ {o}) \in SUBSET Outpoints /\ IsFiniteSet(R \cup (T \ {o}))
  <2>1. WindowForm(p)
    BY DEF SliceOK
  <2>2. /\ R \in SUBSET DOMAIN p.facts /\ DOMAIN p.facts \in SUBSET Outpoints
        /\ IsFiniteSet(DOMAIN p.facts)
    BY <2>1, FactsFinite
  <2> HIDE DEF R
  <2>3. T \in SUBSET (DOMAIN p.facts \ R)
    BY <1>3 DEF R
  <2>4. /\ R \cup T \in SUBSET DOMAIN p.facts
        /\ \A o \in T : R \cup (T \ {o}) \in SUBSET DOMAIN p.facts
    BY <2>2, <2>3
  <2> QED
    BY <2>2, <2>3, <2>4, FS_Subset
<1>6. CASE T = {}
  <2>1. R \cup T = R
    BY <1>6
  <2> QED
    BY <1>3, <2>1 DEF SliceOK, WindowLimits, PendingBytes, T
<1>7. CASE T # {}
  <2>1. PICK o \in T : \A y \in T : place[y] <= place[o]
    BY <1>4, <1>7, GreatestAt
  <2>2. {x \in T : place[x] < place[o]} = T \ {o}
    BY <1>4, <2>1
  <2>3. Fits(R \cup (T \ {o}), o)
    BY <1>3, <2>1, <2>2
  <2> DEFINE V == R \cup (T \ {o})
  <2>4. V \cup {o} = R \cup T /\ o \notin V
    BY <1>5, <2>1
  <2>5. V \in SUBSET Outpoints /\ IsFiniteSet(V) /\ o \in Outpoints
    BY <1>5, <2>1
  <2>6. Fits(V, o)
    BY <2>3
  <2> HIDE DEF V
  <2>7. Bytes(V \cup {o}) = Bytes(V) + ScriptBytes[o]
    BY <2>4, <2>5, BytesAdd
  <2> QED
    BY <1>3, <2>4, <2>6, <2>7 DEF Fits, T
<1> QED
  BY <1>6, <1>7

LEMMA FactsReplaced ==
    ASSUME NEW p, SliceForm(p), NEW f, NEW q, q = [p EXCEPT !.facts = f]
    PROVE  /\ SliceForm(q) /\ q.queued = p.queued /\ q.turn = p.turn
           /\ q.cursor = p.cursor /\ q.raw = p.raw
           /\ q.facts = f /\ q.deferred = p.deferred
BY DEF SliceForm

\* q is p after the scripts of the facts S were stored as far as they fit.
Stowed(q, p, S) ==
    /\ SliceOK(q) /\ Refacted(q, p) /\ q.deferred = p.deferred
    /\ \A o \in DOMAIN p.facts \ S : q.facts[o] = p.facts[o]
    /\ \A o \in S : q.facts[o] = Ready \/ q.facts[o] = Blocked(p.facts[o].source)

LEMMA StoreOrBlockStows ==
    ASSUME NEW p, SliceOK(p), NEW place,
           Places(place, DOMAIN place), DOMAIN place \subseteq Waiting(p)
    PROVE  Stowed(StoreOrBlock(p, place), p, DOMAIN place)
<1> DEFINE T == Stored(p, place)
           f == [o \in DOMAIN p.facts |->
                   IF o \in T THEN Ready
                   ELSE IF o \in DOMAIN place THEN Blocked(p.facts[o].source)
                   ELSE p.facts[o]]
           q == StoreOrBlock(p, place)
<1>1. DOMAIN place \subseteq DOMAIN p.facts \ ReadyFacts(p)
  BY DEF Waiting, ReadyFacts
<1>2. T \in SUBSET DOMAIN place /\ Bytes(ReadyFacts(p) \cup T) <= MaxPendingBytes
  BY <1>1, StoredFits
<1>3. SliceForm(p) /\ WindowForm(p)
  BY DEF SliceOK, WindowForm
<1>4. q = [p EXCEPT !.facts = f]
  BY DEF StoreOrBlock
<1> HIDE DEF T, q
<1>5. /\ SliceForm(q) /\ q.queued = p.queued /\ q.turn = p.turn /\ q.cursor = p.cursor
      /\ q.raw = p.raw /\ q.facts = f /\ q.deferred = p.deferred
  <2> HIDE DEF f
  <2> QED
    BY <1>3, <1>4, FactsReplaced
<1>6. Refacted(q, p)
  <2>1. f = [o \in DOMAIN p.facts |-> f[o]]
    OBVIOUS
  <2> HIDE DEF f
  <2> QED
    BY <1>5, <2>1 DEF Refacted
<1>7. /\ \A o \in DOMAIN p.facts \ DOMAIN place : q.facts[o] = p.facts[o]
      /\ \A o \in DOMAIN place : q.facts[o] = IF o \in T THEN Ready
                                              ELSE Blocked(p.facts[o].source)
  BY <1>1, <1>2, <1>5
<1>8. /\ WindowForm(q) /\ Active(q) = Active(p) /\ DOMAIN q.facts = DOMAIN p.facts
  BY <1>3, <1>6, RefactedForm
<1>9. ReadyFacts(q) = ReadyFacts(p) \cup T
  <2>1. Ready.kind = "ready" /\ \A x : Blocked(x).kind # "ready"
    BY DEF Ready, Blocked
  <2>2. ASSUME NEW o \in DOMAIN p.facts
        PROVE  q.facts[o].kind = "ready" <=> p.facts[o].kind = "ready" \/ o \in T
    <3>1. CASE o \in DOMAIN place
      <4>1. p.facts[o].kind # "ready"
        BY <1>1, <3>1 DEF ReadyFacts
      <4> QED
        BY <1>7, <2>1, <3>1, <4>1
    <3>2. CASE o \notin DOMAIN place
      BY <1>2, <1>7, <3>2
    <3> QED
      BY <3>1, <3>2
  <2>3. T \subseteq DOMAIN p.facts
    BY <1>1, <1>2
  <2> QED
    BY <1>8, <2>2, <2>3 DEF ReadyFacts
<1>10. SliceOK(q)
  BY <1>2, <1>8, <1>9 DEF SliceOK, WindowLimits, PendingBytes
<1> QED
  BY <1>6, <1>5, <1>7, <1>10 DEF Stowed, q

LEMMA StowedFacts ==
    ASSUME NEW p, NEW q, NEW S, Stowed(q, p, S), S \subseteq Waiting(p),
           NEW txids, FactsOK(p, txids)
    PROVE  FactsOK(q, txids)
<1>1. DOMAIN q.facts = DOMAIN p.facts
  BY DEF Stowed, Refacted
<1> SUFFICES ASSUME NEW o \in DOMAIN p.facts PROVE FactOK(q.facts[o], o, txids)
  BY <1>1 DEF FactsOK
<1>2. FactOK(p.facts[o], o, txids)
  BY DEF FactsOK
<1>3. CASE o \notin S
  BY <1>2, <1>3 DEF Stowed
<1>4. CASE o \in S
  <2>1. p.facts[o].kind \in {"awaiting", "blocked"}
    BY <1>4 DEF Waiting
  <2>2. CASE q.facts[o] = Ready
    BY <2>2 DEF Ready, FactOK
  <2>3. CASE q.facts[o] = Blocked(p.facts[o].source)
    BY <1>2, <2>1, <2>3 DEF Blocked, FactOK
  <2> QED
    BY <1>4, <2>2, <2>3 DEF Stowed
<1> QED
  BY <1>3, <1>4

LEMMA WaitingFinite ==
    ASSUME NEW p, WindowForm(p), NEW S \in SUBSET Waiting(p)
    PROVE  S \in SUBSET DOMAIN p.facts /\ S \in SUBSET Outpoints /\ IsFiniteSet(S)
BY FactsFinite DEF Waiting

LEMMA HydrateStows ==
    ASSUME NEW p, SliceOK(p), NEW parents, NEW scripts
    PROVE  /\ Stowed(Hydrate(p, parents, scripts), p, Known(p, parents, scripts))
           /\ Known(p, parents, scripts) \subseteq Waiting(p)
<1> DEFINE K == Known(p, parents, scripts)
           place == [o \in K |-> o]
<1>1. K \subseteq Waiting(p)
  BY DEF Known
<1>2. WindowForm(p)
  BY DEF SliceOK
<1> HIDE DEF K
<1>3. K \in SUBSET Outpoints /\ IsFiniteSet(K)
  BY <1>1, <1>2, WaitingFinite
<1>4. DOMAIN place = K /\ Places(place, DOMAIN place)
  BY <1>3, PendingSliceAssumption DEF Places
<1>5. Stowed(StoreOrBlock(p, place), p, DOMAIN place)
  <2> HIDE DEF place
  <2> QED
    BY <1>1, <1>4, StoreOrBlockStows
<1>6. Hydrate(p, parents, scripts) = StoreOrBlock(p, place)
  BY DEF Hydrate, K
<1> QED
  BY <1>1, <1>4, <1>5, <1>6 DEF K

-----------------------------------------------------------------------------
(* Discarding candidates *)

LEMMA FairOrderType ==
    ASSUME NEW p, NEW S, IsFiniteSet(S)
    PROVE  FairOrder(p, S) \in [S -> Nat]
<1>1. \A v \in S : Cardinality({w \in S : p.turn[w] <= p.turn[v]}) \in Nat
  <2> TAKE v \in S
  <2> DEFINE T == {w \in S : p.turn[w] <= p.turn[v]}
  <2>1. T \in SUBSET S
    OBVIOUS
  <2> HIDE DEF T
  <2> QED
    BY <2>1, FS_Subset, FS_CardinalityType DEF T
<1> QED
  BY <1>1 DEF FairOrder

LEMMA DiscardOK ==
    ASSUME NEW p, SliceOK(p), NEW gone
    PROVE  LET q == Discard(p, gone)
           IN  /\ SliceOK(q) /\ Active(q) = Active(p) \ gone
               /\ q.queued = p.queued /\ q.raw = p.raw /\ q.deferred = p.deferred
               /\ DOMAIN q.facts \subseteq DOMAIN p.facts
               /\ \A o \in DOMAIN q.facts : q.facts[o] = p.facts[o]
<1> DEFINE kept == Active(p) \ gone
           needed == UNION {Required(v) : v \in kept}
           q == Discard(p, gone)
           f == [o \in DOMAIN p.facts \cap needed |-> p.facts[o]]
           cursor == [v \in kept |-> p.cursor[v]]
<1>1. q = [p EXCEPT !.turn = FairOrder(p, kept), !.cursor = cursor, !.facts = f]
  BY DEF Discard
<1>2. WindowForm(p) /\ SliceForm(p)
  BY DEF SliceOK, WindowForm
<1>3. /\ SliceForm(q) /\ q.turn = FairOrder(p, kept) /\ q.cursor = cursor /\ q.facts = f
      /\ q.queued = p.queued /\ q.raw = p.raw /\ q.deferred = p.deferred
  <2> HIDE DEF q, f, cursor, kept
  <2> QED
    BY <1>1, <1>2 DEF SliceForm
<1>4. kept \in SUBSET Active(p) /\ kept \in SUBSET Variants /\ IsFiniteSet(kept)
  BY <1>2, FS_Subset DEF WindowForm
<1>5. FairOrder(p, kept) \in [kept -> Nat]
  BY <1>4, FairOrderType
<1>6. Active(q) = kept
  BY <1>3, <1>5 DEF Active
<1>7. DOMAIN f = needed /\ needed \subseteq DOMAIN p.facts /\ \A o \in needed : f[o] = p.facts[o]
  BY <1>2 DEF WindowForm
<1>8. cursor \in [kept -> Nat]
  BY <1>2, <1>4 DEF WindowForm
<1>9. f = [o \in DOMAIN f |-> f[o]]
  OBVIOUS
<1> HIDE DEF q, f, cursor, kept
<1>10. WindowForm(q)
  BY <1>2, <1>3, <1>4, <1>5, <1>6, <1>7, <1>8, <1>9 DEF WindowForm
<1>11. ReadyFacts(q) \in SUBSET ReadyFacts(p)
  BY <1>3, <1>7 DEF ReadyFacts
<1>12. /\ ReadyFacts(p) \in SUBSET Outpoints /\ IsFiniteSet(ReadyFacts(p))
       /\ PendingBytes(p) \in Nat /\ PendingBytes(q) \in Nat
       /\ IsFiniteSet(DOMAIN p.facts)
  BY <1>2, <1>10, FactsFinite
<1>13. PendingBytes(q) <= PendingBytes(p)
  BY <1>11, <1>12, BytesOfPart DEF PendingBytes
<1>14. /\ PendingBytes(p) <= MaxPendingBytes /\ MaxPendingBytes \in Nat /\ MaxUniquePrevouts \in Nat
       /\ Cardinality(Active(p)) > 1 => Cardinality(DOMAIN p.facts) <= MaxUniquePrevouts
  BY PendingSliceAssumption DEF SliceOK, WindowLimits
<1>15. PendingBytes(q) <= MaxPendingBytes
  BY <1>12, <1>13, <1>14
<1>16. /\ Cardinality(Active(q)) <= Cardinality(Active(p))
       /\ Cardinality(Active(q)) \in Nat /\ Cardinality(Active(p)) \in Nat
       /\ Cardinality(DOMAIN q.facts) <= Cardinality(DOMAIN p.facts)
       /\ Cardinality(DOMAIN q.facts) \in Nat /\ Cardinality(DOMAIN p.facts) \in Nat
  <2>1. IsFiniteSet(Active(p))
    BY <1>2 DEF WindowForm
  <2>2. Active(q) \in SUBSET Active(p) /\ DOMAIN q.facts \in SUBSET DOMAIN p.facts
    BY <1>3, <1>4, <1>6, <1>7
  <2> QED
    BY <1>12, <2>1, <2>2, FS_Subset, FS_CardinalityType
<1>17. Cardinality(Active(q)) > 1 => Cardinality(DOMAIN q.facts) <= MaxUniquePrevouts
  BY <1>14, <1>16
<1>18. SliceOK(q)
  BY <1>10, <1>15, <1>17 DEF SliceOK, WindowLimits
<1> QED
  BY <1>3, <1>6, <1>7, <1>18 DEF q, kept

-----------------------------------------------------------------------------
(* The window *)

LEMMA MaxIsGreatest ==
    ASSUME NEW S, S \subseteq Nat, S # {}, IsFiniteSet(S)
    PROVE  Max(S) \in S /\ \A x \in S : x <= Max(S)
<1>1. PICK x \in S : \A y \in S : y <= x
  BY GreatestNatural
<1>2. \A y \in S : x >= y
  BY <1>1
<1> QED
  BY <1>1, <1>2 DEF Max

LEMMA MinIsLeast ==
    ASSUME NEW S, S \subseteq Nat, S # {}
    PROVE  Min(S) \in S /\ \A x \in S : Min(S) <= x
<1>1. PICK x \in S : \A y \in S : x <= y
  BY LeastNatural
<1> QED
  BY <1>1 DEF Min

LEMMA FirstOfMember ==
    ASSUME NEW p, WindowForm(p), NEW S \in SUBSET Active(p), S # {}
    PROVE  FirstOf(p, S) \in S
<1>1. \A v \in S : p.turn[v] \in Nat
  BY DEF WindowForm
<1>2. PICK v \in S : \A w \in S : p.turn[v] <= p.turn[w]
  BY <1>1, LeastAt
<1> QED
  BY <1>2 DEF FirstOf

\* How many queued candidates enter the window.
Entering(p) ==
    Max({k \in 0 .. Len(p.queued) : \A i \in 1 .. k : ~ WindowFull(p, i)})

LEMMA EnteringCount ==
    ASSUME NEW p, WindowForm(p)
    PROVE  /\ Len(p.queued) \in Nat /\ Entering(p) \in 0 .. Len(p.queued)
           /\ \A i \in 1 .. Entering(p) : ~ WindowFull(p, i)
<1> DEFINE S == {k \in 0 .. Len(p.queued) : \A i \in 1 .. k : ~ WindowFull(p, i)}
<1>1. Len(p.queued) \in Nat
  BY DEF WindowForm
<1>2. 0 \in S /\ S \subseteq 0 .. Len(p.queued) /\ S \subseteq Nat
  BY <1>1
<1>3. IsFiniteSet(S)
  <2>1. IsFiniteSet(0 .. Len(p.queued))
    BY <1>1, FS_Interval
  <2> HIDE DEF S
  <2> QED
    BY <1>2, <2>1, FS_Subset
<1>4. Entering(p) = Max(S)
  BY DEF Entering
<1>5. Max(S) \in S
  <2> HIDE DEF S
  <2> QED
    BY <1>2, <1>3, MaxIsGreatest
<1> QED
  BY <1>1, <1>4, <1>5

\* q is p with the candidates N of the queue in the window.
Entered(q, p, N) ==
    /\ Active(q) = Active(p) \cup N /\ Candidates(q) = Candidates(p)
    /\ q.raw = p.raw /\ q.deferred = p.deferred
    /\ DOMAIN p.facts \subseteq DOMAIN q.facts
    /\ \A o \in DOMAIN p.facts : q.facts[o] = p.facts[o]

\* A fact that nobody has asked for yet.
NewFact(f, o, txids) ==
    \/ f = Deferred
    \/ f = Awaiting(IF ParentOf[o] \in txids THEN "parent" ELSE "confirmed", 0)

LEMMA NewFactOK ==
    ASSUME NEW f, NEW o, NEW txids, NewFact(f, o, txids)
    PROVE  FactOK(f, o, txids) /\ f.kind \notin {"ready", "blocked"}
<1>1. CASE f = Deferred
  BY <1>1 DEF Deferred, FactOK
<1>2. CASE f # Deferred
  <2> DEFINE source == IF ParentOf[o] \in txids THEN "parent" ELSE "confirmed"
  <2>1. source \in {"parent", "confirmed"} /\ (source = "confirmed" => ParentOf[o] \notin txids)
    OBVIOUS
  <2> HIDE DEF source
  <2>2. f = Awaiting(source, 0)
    BY <1>2 DEF NewFact, source
  <2>3. f.kind = "awaiting" /\ f.source = source
    BY <2>2 DEF Awaiting
  <2> QED
    BY <2>1, <2>3 DEF FactOK
<1> QED
  BY <1>1, <1>2

LEMMA RestOfQueue ==
    ASSUME NEW s \in Seq(Variants), NEW n \in 0 .. Len(s)
    PROVE  /\ SubSeq(s, n + 1, Len(s)) \in Seq(Variants)
           /\ ToSet(s) = {s[i] : i \in 1 .. n} \cup ToSet(SubSeq(s, n + 1, Len(s)))
           /\ {s[i] : i \in 1 .. n} \subseteq Variants
<1> DEFINE r == SubSeq(s, n + 1, Len(s))
<1>1. /\ r \in Seq(Variants) /\ Len(r) = Len(s) - n
      /\ \A i \in 1 .. Len(r) : r[i] = s[n + i]
  <2>1. Len(s) \in Nat
    OBVIOUS
  <2> QED
    BY <2>1
<1> HIDE DEF r
<1>2. ToSet(r) = {r[i] : i \in 1 .. Len(r)} /\ ToSet(s) = {s[i] : i \in 1 .. Len(s)}
  <2>1. DOMAIN r = 1 .. Len(r) /\ DOMAIN s = 1 .. Len(s)
    BY <1>1
  <2> QED
    BY <2>1, Zenon DEF ToSet
<1>3. \A i \in 1 .. Len(s) : i \in 1 .. n \/ (i - n \in 1 .. Len(r) /\ s[i] = r[i - n])
  BY <1>1
<1>4. \A i \in 1 .. Len(r) : n + i \in 1 .. Len(s) /\ r[i] = s[n + i]
  <2>1. Len(s) \in Nat /\ n \in Nat /\ n <= Len(s)
    OBVIOUS
  <2> QED
    BY <1>1, <2>1
<1>5. \A i \in 1 .. n : i \in 1 .. Len(s)
  OBVIOUS
<1>6. ToSet(s) \subseteq {s[i] : i \in 1 .. n} \cup ToSet(r)
  BY <1>2, <1>3
<1>7. {s[i] : i \in 1 .. n} \cup ToSet(r) \subseteq ToSet(s)
  BY <1>2, <1>4, <1>5
<1>8. {s[i] : i \in 1 .. n} \subseteq Variants
  BY <1>5
<1> QED
  BY <1>1, <1>6, <1>7, <1>8 DEF r

LEMMA ActivateWaitingOK ==
    ASSUME NEW p, SliceOK(p), NEW txids
    PROVE  LET q == ActivateWaiting(p, txids)
           IN  /\ SliceOK(q)
               /\ \E N \in SUBSET ToSet(p.queued) : Entered(q, p, N)
               /\ \A o \in DOMAIN q.facts \ DOMAIN p.facts : NewFact(q.facts[o], o, txids)
<1> DEFINE n == Entering(p)
           N == {p.queued[i] : i \in 1 .. n}
           need == Needed(p, n)
           initial(o) == IF o \in p.deferred THEN Deferred
                         ELSE Awaiting(IF ParentOf[o] \in txids THEN "parent"
                                                                ELSE "confirmed", 0)
           rest == SubSeq(p.queued, n + 1, Len(p.queued))
           turn == [v \in Active(p) \cup N |->
                      IF v \in Active(p) THEN p.turn[v]
                      ELSE Cardinality(Active(p)) + CHOOSE i \in 1 .. n : p.queued[i] = v]
           cursor == [v \in Active(p) \cup N |-> IF v \in Active(p) THEN p.cursor[v] ELSE 0]
           f == [o \in DOMAIN p.facts \cup need |->
                   IF o \in DOMAIN p.facts THEN p.facts[o] ELSE initial(o)]
           q == ActivateWaiting(p, txids)
<1>1. q = [p EXCEPT !.queued = rest, !.turn = turn, !.cursor = cursor, !.facts = f]
  BY DEF ActivateWaiting, Entering
<1>2. WindowForm(p) /\ SliceForm(p)
  BY DEF SliceOK, WindowForm
<1>3. /\ SliceForm(q) /\ q.queued = rest /\ q.turn = turn /\ q.cursor = cursor
      /\ q.facts = f /\ q.raw = p.raw /\ q.deferred = p.deferred
  <2> HIDE DEF q, rest, turn, cursor, f
  <2> QED
    BY <1>1, <1>2 DEF SliceForm
<1>4. /\ n \in 0 .. Len(p.queued) /\ Len(p.queued) \in Nat /\ p.queued \in Seq(Variants)
      /\ \A i \in 1 .. n : ~ WindowFull(p, i)
  BY <1>2, EnteringCount DEF WindowForm
<1> HIDE DEF n, q
<1>5. /\ rest \in Seq(Variants) /\ ToSet(p.queued) = N \cup ToSet(rest) /\ N \subseteq Variants
  BY <1>4, RestOfQueue
<1>6. IsFiniteSet(N)
  <2> DEFINE g == [i \in 1 .. n |-> p.queued[i]]
  <2>1. DOMAIN g = 1 .. n /\ N = {g[i] : i \in 1 .. n}
    OBVIOUS
  <2>2. IsFiniteSet(1 .. n)
    BY <1>4, FS_Interval
  <2> HIDE DEF g, N
  <2> QED
    BY <2>1, <2>2, ImageFinite
<1>7. turn \in [Active(p) \cup N -> Nat] /\ cursor \in [Active(p) \cup N -> Nat]
  <2>1. \A v \in Active(p) : p.turn[v] \in Nat /\ p.cursor[v] \in Nat
    BY <1>2 DEF WindowForm
  <2>2. Cardinality(Active(p)) \in Nat
    BY <1>2, FS_CardinalityType DEF WindowForm
  <2>3. \A v \in N : (CHOOSE i \in 1 .. n : p.queued[i] = v) \in 1 .. n
    OBVIOUS
  <2>4. \A v \in N : Cardinality(Active(p)) + (CHOOSE i \in 1 .. n : p.queued[i] = v) \in Nat
    <3> TAKE v \in N
    <3> DEFINE i == CHOOSE i \in 1 .. n : p.queued[i] = v
    <3>1. i \in 1 .. n
      BY <2>3
    <3> HIDE DEF i
    <3>2. i \in Nat
      BY <1>4, <3>1
    <3>3. Cardinality(Active(p)) + i \in Nat
      BY <2>2, <3>2
    <3> QED
      BY <3>3 DEF i
  <2> HIDE DEF N
  <2> QED
    BY <2>1, <2>4
<1>8. DOMAIN f = DOMAIN p.facts \cup need
  OBVIOUS
<1>9. need = UNION {Required(v) : v \in N}
  BY DEF Needed
<1>10. Active(q) = Active(p) \cup N
  BY <1>3 DEF Active
<1>11. DOMAIN f = UNION {Required(v) : v \in Active(p) \cup N}
  BY <1>2, <1>8, <1>9 DEF WindowForm
<1>12. f = [o \in DOMAIN f |-> f[o]]
  OBVIOUS
<1>13. IsFiniteSet(Active(p) \cup N) /\ Active(p) \cup N \subseteq Variants
  BY <1>2, <1>5, <1>6, FS_Union DEF WindowForm
<1>14. /\ \A o \in DOMAIN p.facts : f[o] = p.facts[o]
       /\ \A o \in need \ DOMAIN p.facts : NewFact(f[o], o, txids)
  BY DEF NewFact
<1> HIDE DEF rest, turn, cursor, f, need, N
<1>15. WindowForm(q)
  BY <1>3, <1>5, <1>7, <1>10, <1>11, <1>12, <1>13 DEF WindowForm
<1>16. Candidates(q) = Candidates(p)
  BY <1>3, <1>5, <1>10 DEF Candidates
<1>17. ReadyFacts(q) = ReadyFacts(p)
  BY <1>3, <1>8, <1>14, NewFactOK DEF ReadyFacts
<1>18. PendingBytes(q) <= MaxPendingBytes
  BY <1>17 DEF SliceOK, WindowLimits, PendingBytes
<1>19. Cardinality(Active(q)) > 1 => Cardinality(DOMAIN q.facts) <= MaxUniquePrevouts
  <2>1. CASE n = 0
    <3>1. need = {} /\ N = {}
      BY <2>1 DEF Needed, need, N
    <3> QED
      BY <1>3, <1>8, <1>10, <3>1 DEF SliceOK, WindowLimits
  <2>2. CASE n # 0
    <3>1. n \in 1 .. n /\ n \in Nat
      BY <1>4, <2>2
    <3>2. \/ Active(p) = {} /\ ~ (n > 1)
          \/ ~ (Cardinality(DOMAIN p.facts \cup need) > MaxUniquePrevouts)
      BY <1>4, <3>1 DEF WindowFull, need
    <3>3. CASE Active(p) = {} /\ ~ (n > 1)
      <4>1. n = 1
        BY <2>2, <3>1, <3>3
      <4>2. N = {p.queued[1]}
        BY <4>1 DEF N
      <4>3. Active(q) = {p.queued[1]}
        BY <1>10, <3>3, <4>2
      <4>4. Cardinality(Active(q)) = 1
        BY <4>3, FS_Singleton
      <4> QED
        BY <4>4
    <3>4. CASE ~ (Cardinality(DOMAIN p.facts \cup need) > MaxUniquePrevouts)
      <4>0. IsFiniteSet(DOMAIN q.facts)
        BY <1>15, FactsFinite
      <4>1. Cardinality(DOMAIN q.facts) \in Nat /\ MaxUniquePrevouts \in Nat
        BY <4>0, FS_CardinalityType, PendingSliceAssumption
      <4> QED
        BY <1>3, <1>8, <3>4, <4>1
    <3> QED
      BY <3>2, <3>3, <3>4
  <2> QED
    BY <2>1, <2>2
<1>20. SliceOK(q)
  BY <1>15, <1>18, <1>19 DEF SliceOK, WindowLimits
<1>21. Entered(q, p, N) /\ N \in SUBSET ToSet(p.queued)
  BY <1>3, <1>5, <1>8, <1>10, <1>14, <1>16 DEF Entered
<1>22. \A o \in DOMAIN q.facts \ DOMAIN p.facts : NewFact(q.facts[o], o, txids)
  BY <1>3, <1>8, <1>14
<1> QED
  BY <1>20, <1>21, <1>22 DEF q

LEMMA EnteredFacts ==
    ASSUME NEW p, NEW q, NEW N, Entered(q, p, N), NEW txids, FactsOK(p, txids),
           \A o \in DOMAIN q.facts \ DOMAIN p.facts : NewFact(q.facts[o], o, txids)
    PROVE  FactsOK(q, txids)
BY NewFactOK DEF Entered, FactsOK

-----------------------------------------------------------------------------
(* Answers *)

\* q is p after facts that were awaited changed their states, and none
\* became ready.
Answered(q, p) ==
    /\ SliceOK(q) /\ Refacted(q, p)
    /\ \A o \in DOMAIN p.facts :
         q.facts[o] # p.facts[o] => p.facts[o].kind = "awaiting" /\ q.facts[o].kind # "ready"

LEMMA AnsweredOK ==
    ASSUME NEW p, NEW q, SliceOK(p), Refacted(q, p),
           \A o \in DOMAIN p.facts : q.facts[o] # p.facts[o] =>
             p.facts[o].kind = "awaiting" /\ q.facts[o].kind # "ready"
    PROVE  Answered(q, p)
<1>1. DOMAIN q.facts = DOMAIN p.facts
  BY DEF Refacted
<1>2. ReadyFacts(q) \subseteq ReadyFacts(p)
  BY <1>1 DEF ReadyFacts
<1> QED
  BY <1>2, RefactedOK DEF Answered

LEMMA DeferIfExhaustedOK ==
    ASSUME NEW p, SliceOK(p), NEW S
    PROVE  LET q == DeferIfExhausted(p, S)
           IN  /\ Answered(q, p)
               /\ \A o \in DOMAIN p.facts : q.facts[o] = p.facts[o] \/ (o \in S /\ q.facts[o] = Deferred)
<1> DEFINE q == DeferIfExhausted(p, S)
           E == {o \in S : /\ p.facts[o].kind = "awaiting"
                           /\ p.facts[o].attempts >= MaxFactAttempts}
           f == [o \in DOMAIN p.facts |-> IF o \in E THEN Deferred ELSE p.facts[o]]
           d == p.deferred \cup E
<1>1. q = [p EXCEPT !.facts = f, !.deferred = d]
  BY DEF DeferIfExhausted
<1>2. SliceForm(p)
  BY DEF SliceOK, WindowForm
<1>3. \A o \in DOMAIN p.facts : f[o] = p.facts[o] \/ (o \in E /\ f[o] = Deferred)
  OBVIOUS
<1>4. f = [o \in DOMAIN p.facts |-> f[o]]
  OBVIOUS
<1>5. \A o \in E : o \in S /\ p.facts[o].kind = "awaiting"
  OBVIOUS
<1> HIDE DEF q, f, d, E
<1>6. /\ SliceForm(q) /\ q.queued = p.queued /\ q.turn = p.turn
      /\ q.cursor = p.cursor /\ q.raw = p.raw /\ q.facts = f
  BY <1>1, <1>2 DEF SliceForm
<1>7. Refacted(q, p)
  BY <1>4, <1>6 DEF Refacted
<1>8. Deferred.kind # "ready"
  BY DEF Deferred
<1>9. Answered(q, p)
  BY <1>3, <1>5, <1>6, <1>7, <1>8, AnsweredOK
<1> QED
  BY <1>3, <1>5, <1>6, <1>9 DEF q

LEMMA FallBackOK ==
    ASSUME NEW p, SliceOK(p), NEW gone
    PROVE  LET q == FallBack(p, gone)
           IN  /\ Answered(q, p)
               /\ \A o \in DOMAIN p.facts :
                    q.facts[o] = p.facts[o] \/ q.facts[o] = Awaiting("fallback", 0)
<1> DEFINE q == FallBack(p, gone)
           E == AwaitedFrom(p, gone)
           f == [o \in DOMAIN p.facts |-> IF o \in E THEN Awaiting("fallback", 0) ELSE p.facts[o]]
<1>1. q = [p EXCEPT !.facts = f]
  BY DEF FallBack
<1>2. SliceForm(p)
  BY DEF SliceOK, WindowForm
<1>3. \A o \in DOMAIN p.facts : f[o] = p.facts[o] \/ (o \in E /\ f[o] = Awaiting("fallback", 0))
  OBVIOUS
<1>4. f = [o \in DOMAIN p.facts |-> f[o]]
  OBVIOUS
<1>5. \A o \in E : p.facts[o].kind = "awaiting"
  BY DEF AwaitedFrom
<1> HIDE DEF q, f, E
<1>6. /\ SliceForm(q) /\ q.queued = p.queued /\ q.turn = p.turn
      /\ q.cursor = p.cursor /\ q.raw = p.raw /\ q.facts = f
  BY <1>1, <1>2, FactsReplaced
<1>7. Refacted(q, p)
  BY <1>4, <1>6 DEF Refacted
<1>8. Awaiting("fallback", 0).kind # "ready"
  BY DEF Awaiting
<1>9. Answered(q, p)
  BY <1>3, <1>5, <1>6, <1>7, <1>8, AnsweredOK
<1> QED
  BY <1>3, <1>6, <1>9 DEF q

LEMMA BlockOneFactOK ==
    ASSUME NEW p, SliceOK(p)
    PROVE  LET q == BlockOneFact(p)
           IN  /\ Answered(q, p)
               /\ \A o \in DOMAIN p.facts :
                    q.facts[o] = p.facts[o] \/ q.facts[o] = Blocked(p.facts[o].source)
<1> DEFINE q == BlockOneFact(p)
           awaited(v) == {i \in DOMAIN Inputs[v] : p.facts[Inputs[v][i]].kind = "awaiting"}
           waiting == {v \in Active(p) : awaited(v) # {}}
           v == FirstOf(p, waiting)
           o == Inputs[v][Min(awaited(v))]
<1>1. WindowForm(p) /\ SliceForm(p)
  BY DEF SliceOK, WindowForm
<1>2. CASE HasCapacity(p) \/ waiting = {}
  <2>1. q = p
    BY <1>2 DEF BlockOneFact
  <2>2. Refacted(p, p)
    BY <1>1 DEF Refacted, WindowForm
  <2> HIDE DEF q
  <2>3. Answered(q, p)
    BY <2>1, <2>2, AnsweredOK
  <2> QED
    BY <2>1, <2>3 DEF q
<1>3. CASE ~ HasCapacity(p) /\ waiting # {}
  <2>1. waiting \in SUBSET Active(p)
    OBVIOUS
  <2>2. v \in waiting
    <3> HIDE DEF waiting
    <3> QED
      BY <1>1, <1>3, <2>1, FirstOfMember
  <2>3. q = [p EXCEPT !.facts[o] = Blocked(p.facts[o].source)]
    BY <1>3 DEF BlockOneFact
  <2>4. v \in Active(p) /\ awaited(v) # {} /\ v \in Variants
    BY <1>1, <2>2 DEF WindowForm
  <2> HIDE DEF v, waiting
  <2>5. Inputs[v] \in Seq(Outpoints)
    BY <2>4, PendingSliceAssumption
  <2>6. awaited(v) \subseteq Nat
    BY <2>5
  <2>7. Min(awaited(v)) \in awaited(v)
    <3> DEFINE A == awaited(v)
    <3> HIDE DEF A
    <3>1. Min(A) \in A
      BY <2>4, <2>6, MinIsLeast DEF A
    <3> QED
      BY <3>1 DEF A
  <2>8. o \in Required(v) /\ p.facts[o].kind = "awaiting"
    BY <2>7 DEF Required, ToSet
  <2> HIDE DEF o
  <2>9. o \in DOMAIN p.facts
    BY <1>1, <2>4, <2>8 DEF WindowForm
  <2> DEFINE f == [p.facts EXCEPT ![o] = Blocked(p.facts[o].source)]
  <2>10. /\ f = [x \in DOMAIN p.facts |-> f[x]]
         /\ \A x \in DOMAIN p.facts : f[x] = p.facts[x] \/ (x = o /\ f[x] = Blocked(p.facts[x].source))
    BY <1>1, <2>9 DEF WindowForm
  <2>11. q = [p EXCEPT !.facts = f]
    BY <2>3
  <2> HIDE DEF q, f
  <2>12. /\ SliceForm(q) /\ q.queued = p.queued /\ q.turn = p.turn
         /\ q.cursor = p.cursor /\ q.raw = p.raw /\ q.facts = f
    BY <1>1, <2>11, FactsReplaced
  <2>13. Refacted(q, p)
    BY <2>10, <2>12 DEF Refacted
  <2>14. \A x : Blocked(x).kind # "ready"
    BY DEF Blocked
  <2>15. Answered(q, p)
    BY <2>8, <2>10, <2>12, <2>13, <2>14, AnsweredOK
  <2> QED
    BY <2>10, <2>12, <2>15 DEF q
<1> QED
  BY <1>2, <1>3

\* q has the window of p.
SameWindow(q, p) ==
    /\ SliceOK(q) /\ Active(q) = Active(p) /\ Candidates(q) = Candidates(p)
    /\ q.raw = p.raw /\ DOMAIN q.facts = DOMAIN p.facts

LEMMA RefactedSame ==
    ASSUME NEW p, NEW q, SliceOK(p), SliceOK(q), Refacted(q, p)
    PROVE  SameWindow(q, p)
BY RefactedForm DEF SameWindow, SliceOK, Refacted

\* The facts that a wave for outputs has asked for.
Asked(p) == {o \in DOMAIN p.facts : p.facts[o].kind = "awaiting" /\ p.facts[o].source # "parent"}

LEMMA ApplyNullOK ==
    ASSUME NEW p, SliceOK(p), NEW S \in SUBSET Asked(p)
    PROVE  LET q == ApplyNull(p, S)
           IN  /\ SameWindow(q, p)
               /\ \A txids : FactsOK(p, txids) => FactsOK(q, txids)
<1> DEFINE F == {o \in S : p.facts[o].source = "fallback"}
           r == DeferIfExhausted(p, F)
           q == ApplyNull(p, S)
           f == [o \in DOMAIN r.facts |-> IF o \in S \ F THEN Missing ELSE r.facts[o]]
<1>1. /\ Answered(r, p)
      /\ \A o \in DOMAIN p.facts : r.facts[o] = p.facts[o] \/ (o \in F /\ r.facts[o] = Deferred)
  BY DeferIfExhaustedOK
<1>2. q = [r EXCEPT !.facts = f]
  BY DEF ApplyNull
<1>3. \A o \in S : o \in DOMAIN p.facts /\ p.facts[o].kind = "awaiting" /\ p.facts[o].source # "parent"
  BY DEF Asked
<1> HIDE DEF r, q
<1>4. SliceOK(r) /\ SliceForm(r) /\ Refacted(r, p) /\ DOMAIN r.facts = DOMAIN p.facts
  BY <1>1 DEF Answered, SliceOK, WindowForm, Refacted
<1>5. /\ f = [o \in DOMAIN r.facts |-> f[o]]
      /\ \A o \in DOMAIN p.facts :
           IF o \in S \ F THEN f[o] = Missing ELSE f[o] = r.facts[o]
  BY <1>4
<1> HIDE DEF f
<1>6. /\ SliceForm(q) /\ q.queued = r.queued /\ q.turn = r.turn
      /\ q.cursor = r.cursor /\ q.raw = r.raw /\ q.facts = f
  BY <1>2, <1>4, FactsReplaced
<1>7. Refacted(q, r) /\ Refacted(q, p)
  BY <1>4, <1>5, <1>6 DEF Refacted
<1>8. Missing.kind # "ready"
  BY DEF Missing
<1>9. \A o \in DOMAIN r.facts : q.facts[o] # r.facts[o] =>
        r.facts[o].kind = "awaiting" /\ q.facts[o].kind # "ready"
  <2> SUFFICES ASSUME NEW o \in DOMAIN p.facts, q.facts[o] # r.facts[o]
               PROVE  r.facts[o].kind = "awaiting" /\ q.facts[o].kind # "ready"
    BY <1>4
  <2>1. o \in S \ F /\ q.facts[o] = Missing
    BY <1>5, <1>6
  <2>2. r.facts[o] = p.facts[o]
    BY <1>1, <2>1
  <2> QED
    BY <1>3, <1>8, <2>1, <2>2
<1>10. SliceOK(q)
  BY <1>4, <1>7, <1>9, AnsweredOK DEF Answered
<1>11. SameWindow(q, p)
  BY <1>7, <1>10, RefactedSame
<1>12. ASSUME NEW txids, FactsOK(p, txids) PROVE FactsOK(q, txids)
  <2> SUFFICES ASSUME NEW o \in DOMAIN p.facts PROVE FactOK(q.facts[o], o, txids)
    BY <1>11 DEF FactsOK, SameWindow
  <2>1. FactOK(p.facts[o], o, txids)
    BY <1>12 DEF FactsOK
  <2>2. CASE o \in S \ F
    <3>1. q.facts[o] = Missing /\ p.facts[o].kind = "awaiting" /\ p.facts[o].source # "parent"
          /\ p.facts[o].source # "fallback"
      BY <1>3, <1>5, <1>6, <2>2
    <3>2. ParentOf[o] \notin txids
      BY <2>1, <3>1 DEF FactOK
    <3> QED
      BY <3>1, <3>2 DEF FactOK, Missing
  <2>3. CASE o \notin S \ F
    <3>1. q.facts[o] = r.facts[o]
      BY <1>5, <1>6, <2>3
    <3>2. CASE r.facts[o] = p.facts[o]
      BY <2>1, <3>1, <3>2
    <3>3. CASE r.facts[o] = Deferred
      BY <3>1, <3>3 DEF FactOK, Deferred
    <3> QED
      BY <1>1, <3>2, <3>3
  <2> QED
    BY <2>2, <2>3
<1> QED
  BY <1>11, <1>12 DEF q

LEMMA OrdersPlace ==
    ASSUME NEW S, IsFiniteSet(S), NEW place \in Orders(S)
    PROVE  DOMAIN place = S /\ Places(place, DOMAIN place)
<1>1. Cardinality(S) \in Nat
  BY FS_CardinalityType
<1>2. place \in [S -> 1 .. Cardinality(S)] /\ \A x, y \in S : place[x] = place[y] => x = y
  BY DEF Orders
<1> QED
  BY <1>1, <1>2 DEF Places

LEMMA StoreOrdered ==
    ASSUME NEW p, SliceOK(p), NEW S \in SUBSET Waiting(p), NEW place \in Orders(S)
    PROVE  Stowed(StoreOrBlock(p, place), p, S)
<1>1. IsFiniteSet(S)
  BY WaitingFinite DEF SliceOK
<1>2. DOMAIN place = S /\ Places(place, DOMAIN place)
  BY <1>1, OrdersPlace
<1> QED
  BY <1>2, StoreOrBlockStows

LEMMA StowedSame ==
    ASSUME NEW p, NEW q, NEW S, SliceOK(p), Stowed(q, p, S), S \subseteq Waiting(p)
    PROVE  SameWindow(q, p) /\ \A txids : FactsOK(p, txids) => FactsOK(q, txids)
BY RefactedSame, StowedFacts DEF Stowed

LEMMA DeferredSame ==
    ASSUME NEW p, SliceOK(p), NEW S
    PROVE  LET q == DeferIfExhausted(p, S)
           IN  SameWindow(q, p) /\ \A txids : FactsOK(p, txids) => FactsOK(q, txids)
<1> DEFINE q == DeferIfExhausted(p, S)
<1>1. /\ Answered(q, p)
      /\ \A o \in DOMAIN p.facts : q.facts[o] = p.facts[o] \/ (o \in S /\ q.facts[o] = Deferred)
  BY DeferIfExhaustedOK
<1> HIDE DEF q
<1>2. SameWindow(q, p)
  BY <1>1, RefactedSame DEF Answered
<1>3. \A o, txids : FactOK(Deferred, o, txids)
  BY DEF FactOK, Deferred
<1>4. \A txids : FactsOK(p, txids) => FactsOK(q, txids)
  BY <1>1, <1>2, <1>3 DEF FactsOK, SameWindow
<1> QED
  BY <1>2, <1>4 DEF q

LEMMA ApplyConfirmedOK ==
    ASSUME NEW p, SliceOK(p), NEW answer, DOMAIN answer \subseteq Asked(p),
           NEW place \in Orders({o \in DOMAIN answer : answer[o] = "found"})
    PROVE  LET q == ApplyConfirmed(p, answer, place)
           IN  /\ SameWindow(q, p)
               /\ \A txids : FactsOK(p, txids) => FactsOK(q, txids)
<1> DEFINE S(value) == {o \in DOMAIN answer : answer[o] = value}
           found == S("found")
           retried == S("retry")
           null == S("null")
           p1 == StoreOrBlock(p, place)
           p2 == DeferIfExhausted(p1, retried)
           q == ApplyConfirmed(p, answer, place)
<1>1. q = ApplyNull(p2, null)
  BY DEF ApplyConfirmed
<1>2. found \in SUBSET Waiting(p)
  BY DEF Asked, Waiting
<1>3. Stowed(p1, p, found)
  BY <1>2, StoreOrdered
<1>4. null \cap found = {} /\ null \cap retried = {} /\ null \subseteq Asked(p)
  OBVIOUS
<1> HIDE DEF found, retried, null, q, p1, p2
<1>5. SameWindow(p1, p) /\ \A txids : FactsOK(p, txids) => FactsOK(p1, txids)
  BY <1>2, <1>3, StowedSame
<1>6. SliceOK(p1)
  BY <1>5 DEF SameWindow
<1>7. /\ SameWindow(p2, p1) /\ \A txids : FactsOK(p1, txids) => FactsOK(p2, txids)
      /\ \A o \in DOMAIN p1.facts : p2.facts[o] = p1.facts[o] \/ o \in retried
  BY <1>6, DeferredSame, DeferIfExhaustedOK DEF p2
<1>8. null \in SUBSET Asked(p2)
  <2> SUFFICES ASSUME NEW o \in null PROVE o \in Asked(p2)
    OBVIOUS
  <2>1. /\ o \in DOMAIN p.facts /\ p.facts[o].kind = "awaiting" /\ p.facts[o].source # "parent"
        /\ o \notin found /\ o \notin retried
    BY <1>4 DEF Asked
  <2>2. p1.facts[o] = p.facts[o] /\ o \in DOMAIN p1.facts
    BY <1>3, <1>5, <2>1 DEF Stowed, SameWindow
  <2>3. p2.facts[o] = p.facts[o] /\ o \in DOMAIN p2.facts
    BY <1>7, <2>1, <2>2 DEF SameWindow
  <2> QED
    BY <2>1, <2>3 DEF Asked
<1>9. SliceOK(p2)
  BY <1>7 DEF SameWindow
<1>10. SameWindow(q, p2) /\ \A txids : FactsOK(p2, txids) => FactsOK(q, txids)
  BY <1>1, <1>8, <1>9, ApplyNullOK
<1>11. SameWindow(q, p)
  BY <1>5, <1>7, <1>10 DEF SameWindow
<1> QED
  BY <1>5, <1>7, <1>10, <1>11 DEF q

LEMMA ApplyParentsOK ==
    ASSUME NEW p, SliceOK(p), NEW found, NEW gone,
           NEW place \in Orders(AwaitedFrom(p, found) \ NoScript)
    PROVE  LET q == FallBack(ApplyParents(p, found, place), gone)
           IN  /\ SameWindow(q, p)
               /\ \A txids : FactsOK(p, txids) => FactsOK(q, txids)
<1> DEFINE S == AwaitedFrom(p, found) \ NoScript
           p1 == StoreOrBlock(p, place)
           p2 == ApplyParents(p, found, place)
           q == FallBack(p2, gone)
<1>1. S \in SUBSET Waiting(p)
  BY DEF AwaitedFrom, Waiting
<1>2. Stowed(p1, p, S)
  BY <1>1, StoreOrdered
<1>3. p2 = DeferIfExhausted(p1, AwaitedFrom(p, found) \cap NoScript)
  BY DEF ApplyParents
<1> HIDE DEF S, p1, p2, q
<1>4. SameWindow(p1, p) /\ \A txids : FactsOK(p, txids) => FactsOK(p1, txids)
  BY <1>1, <1>2, StowedSame
<1>5. SliceOK(p1)
  BY <1>4 DEF SameWindow
<1>6. SameWindow(p2, p1) /\ \A txids : FactsOK(p1, txids) => FactsOK(p2, txids)
  BY <1>3, <1>5, DeferredSame
<1>7. SliceOK(p2)
  BY <1>6 DEF SameWindow
<1>8. /\ Answered(q, p2)
      /\ \A o \in DOMAIN p2.facts :
           q.facts[o] = p2.facts[o] \/ q.facts[o] = Awaiting("fallback", 0)
  BY <1>7, FallBackOK DEF q
<1>9. SameWindow(q, p2)
  BY <1>7, <1>8, RefactedSame DEF Answered
<1>10. \A o, txids : FactOK(Awaiting("fallback", 0), o, txids)
  BY DEF FactOK, Awaiting
<1>11. \A txids : FactsOK(p2, txids) => FactsOK(q, txids)
  BY <1>8, <1>9, <1>10 DEF FactsOK, SameWindow
<1>12. SameWindow(q, p)
  BY <1>4, <1>6, <1>9 DEF SameWindow
<1> QED
  BY <1>4, <1>6, <1>11, <1>12 DEF q, p2

LEMMA BlockOneSame ==
    ASSUME NEW p, SliceOK(p)
    PROVE  LET q == BlockOneFact(p)
           IN  SameWindow(q, p) /\ \A txids : FactsOK(p, txids) => FactsOK(q, txids)
<1> DEFINE q == BlockOneFact(p)
<1>1. /\ Answered(q, p)
      /\ \A o \in DOMAIN p.facts :
           q.facts[o] = p.facts[o] \/ q.facts[o] = Blocked(p.facts[o].source)
  BY BlockOneFactOK
<1> HIDE DEF q
<1>2. SameWindow(q, p)
  BY <1>1, RefactedSame DEF Answered
<1>3. ASSUME NEW txids, FactsOK(p, txids), NEW o \in DOMAIN p.facts
      PROVE  FactOK(q.facts[o], o, txids)
  <2>1. FactOK(p.facts[o], o, txids)
    BY <1>3 DEF FactsOK
  <2>2. CASE q.facts[o] = p.facts[o]
    BY <2>1, <2>2
  <2>3. CASE q.facts[o] # p.facts[o]
    <3>1. q.facts[o] = Blocked(p.facts[o].source) /\ p.facts[o].kind = "awaiting"
      BY <1>1, <2>3 DEF Answered
    <3>2. q.facts[o].kind = "blocked" /\ q.facts[o].source = p.facts[o].source
      BY <3>1 DEF Blocked
    <3> QED
      BY <2>1, <3>1, <3>2 DEF FactOK
  <2> QED
    BY <2>2, <2>3
<1>4. \A txids : FactsOK(p, txids) => FactsOK(q, txids)
  BY <1>2, <1>3 DEF FactsOK, SameWindow
<1> QED
  BY <1>2, <1>4 DEF q

-----------------------------------------------------------------------------
(* Loops *)

LEMMA InductionTo ==
    ASSUME NEW most \in Nat, NEW G, 0 \in G, \A n \in 1 .. most : n - 1 \in G => n \in G
    PROVE  \A n \in 0 .. most : n \in G
<1> DEFINE B == {n \in 0 .. most : n \notin G}
<1> SUFFICES ASSUME B # {} PROVE FALSE
  OBVIOUS
<1>1. B \subseteq Nat
  OBVIOUS
<1>2. PICK n \in B : \A k \in B : n <= k
  BY <1>1, LeastNatural
<1>3. n \in 1 .. most
  BY <1>2
<1>4. n - 1 \in 0 .. most /\ ~ (n <= n - 1)
  BY <1>3
<1>5. n - 1 \in G
  BY <1>2, <1>4
<1> QED
  BY <1>2, <1>3, <1>5

\* The turns of the three loops.
LoopTurn(loop, a, x) ==
    CASE loop = "wave" -> IF WaveEnded(x, a[1]) THEN x ELSE TakeTurn(x, a[2], a[3])
      [] loop = "recover" -> RecoverTurn(x)
      [] loop = "defer" -> DeferTurn(x)

\* What a loop defines its run by.
Loop(loop, a, c, most, after) ==
    after = [n \in 0 .. most |-> IF n = 0 THEN c ELSE LoopTurn(loop, a, after[n - 1])]

\* A run for n turns.
LoopRun(loop, a, c, n, after) ==
    /\ after[0] = c
    /\ \A k \in 1 .. n : after[k] = LoopTurn(loop, a, after[k - 1])

LEMMA LoopRuns ==
    ASSUME NEW loop, NEW a, NEW c, NEW most \in Nat
    PROVE  \E after : Loop(loop, a, c, most, after)
<1> DEFINE Runs(n) == \E after : LoopRun(loop, a, c, n, after)
           G == {n \in Nat : Runs(n)}
<1>1. Runs(0)
  <2>1. LoopRun(loop, a, c, 0, [k \in {0} |-> c])
    BY DEF LoopRun
  <2> QED
    BY <2>1
<1>2. ASSUME NEW n \in Nat, Runs(n) PROVE Runs(n + 1)
  <2>1. PICK old : LoopRun(loop, a, c, n, old)
    BY <1>2
  <2> DEFINE after == [k \in 0 .. (n + 1) |->
                         IF k = n + 1 THEN LoopTurn(loop, a, old[n]) ELSE old[k]]
  <2>2. /\ \A k \in 0 .. n : after[k] = old[k]
        /\ after[n + 1] = LoopTurn(loop, a, old[n])
    OBVIOUS
  <2> HIDE DEF after
  <2>3. after[0] = c
    BY <2>1, <2>2 DEF LoopRun
  <2>4. ASSUME NEW k \in 1 .. (n + 1)
        PROVE  after[k] = LoopTurn(loop, a, after[k - 1])
    <3>1. CASE k = n + 1
      <4>1. k - 1 = n /\ after[n] = old[n]
        BY <2>2, <3>1
      <4> QED
        BY <2>2, <3>1, <4>1
    <3>2. CASE k # n + 1
      <4>1. k \in 1 .. n /\ k \in 0 .. n /\ k - 1 \in 0 .. n
        BY <3>2
      <4>2. after[k] = old[k] /\ after[k - 1] = old[k - 1]
        BY <2>2, <4>1
      <4>3. old[k] = LoopTurn(loop, a, old[k - 1])
        BY <2>1, <4>1 DEF LoopRun
      <4> QED
        BY <4>2, <4>3
    <3> QED
      BY <3>1, <3>2
  <2>5. LoopRun(loop, a, c, n + 1, after)
    BY <2>3, <2>4 DEF LoopRun
  <2> QED
    BY <2>5
<1> HIDE DEF Runs
<1>3. most \in G
  <2>1. 0 \in G
    BY <1>1
  <2>2. ASSUME NEW n \in 1 .. most, n - 1 \in G PROVE n \in G
    <3>1. n \in Nat /\ n - 1 \in Nat /\ (n - 1) + 1 = n
      OBVIOUS
    <3>2. Runs((n - 1) + 1)
      BY <1>2, <2>2, <3>1
    <3> QED
      BY <3>1, <3>2
  <2>3. most \in 0 .. most
    OBVIOUS
  <2> HIDE DEF G
  <2> QED
    BY <2>1, <2>2, <2>3, InductionTo
<1>4. PICK some : LoopRun(loop, a, c, most, some)
  BY <1>3 DEF Runs
<1> DEFINE after == [k \in 0 .. most |-> some[k]]
<1>5. \A k \in 0 .. most : after[k] = some[k]
  OBVIOUS
<1>6. ASSUME NEW n \in 0 .. most
      PROVE  some[n] = IF n = 0 THEN c ELSE LoopTurn(loop, a, after[n - 1])
  <2>1. CASE n = 0
    BY <1>4, <2>1 DEF LoopRun
  <2>2. CASE n # 0
    <3>1. n \in 1 .. most /\ n - 1 \in 0 .. most
      BY <2>2
    <3>2. after[n - 1] = some[n - 1]
      BY <1>5, <3>1
    <3>3. some[n] = LoopTurn(loop, a, some[n - 1])
      BY <1>4, <3>1 DEF LoopRun
    <3> QED
      BY <2>2, <3>2, <3>3
  <2> QED
    BY <2>1, <2>2
<1>7. after = [n \in 0 .. most |->
                 IF n = 0 THEN c ELSE LoopTurn(loop, a, after[n - 1])]
  BY <1>6
<1> QED
  BY <1>7 DEF Loop

\* The run that a loop chooses.
RunOf(loop, a, c, most) == CHOOSE after : Loop(loop, a, c, most, after)

LEMMA RunsOn ==
    ASSUME NEW loop, NEW a, NEW c, NEW most \in Nat
    PROVE  LET after == RunOf(loop, a, c, most)
           IN  /\ after[0] = c
               /\ \A n \in 1 .. most : after[n] = LoopTurn(loop, a, after[n - 1])
<1> DEFINE after == RunOf(loop, a, c, most)
<1>1. Loop(loop, a, c, most, after)
  BY LoopRuns DEF RunOf
<1> HIDE DEF after
<1>2. 0 \in 0 .. most
  OBVIOUS
<1>3. ASSUME NEW n \in 1 .. most PROVE after[n] = LoopTurn(loop, a, after[n - 1])
  <2>1. n \in 0 .. most /\ n # 0
    OBVIOUS
  <2> QED
    BY <1>1, <2>1 DEF Loop
<1>4. after[0] = c
  BY <1>1, <1>2 DEF Loop
<1> QED
  BY <1>3, <1>4 DEF after

-----------------------------------------------------------------------------
(* Waves *)

\* A fact that at most counts another attempt.
SameFact(f, g) ==
    /\ f.kind = g.kind
    /\ g.kind # "awaiting" => f = g
    /\ g.kind = "awaiting" => f.source = g.source

\* q is p after candidates took their turns.
Turned(q, p) ==
    /\ SliceForm(q) /\ q.queued = p.queued /\ q.raw = p.raw
    /\ q.turn \in [Active(p) -> Nat] /\ q.cursor \in [Active(p) -> Nat]
    /\ q.facts = [o \in DOMAIN p.facts |-> q.facts[o]]
    /\ \A o \in DOMAIN p.facts : SameFact(q.facts[o], p.facts[o])

LEMMA TurnedSame ==
    ASSUME NEW p, SliceOK(p), NEW q, Turned(q, p)
    PROVE  SameWindow(q, p) /\ \A txids : FactsOK(p, txids) => FactsOK(q, txids)
<1>1. Active(q) = Active(p) /\ DOMAIN q.facts = DOMAIN p.facts
  BY DEF Turned, Active
<1>2. Candidates(q) = Candidates(p)
  BY <1>1 DEF Candidates, Turned
<1>3. q.facts = [o \in DOMAIN q.facts |-> q.facts[o]]
  BY <1>1 DEF Turned
<1>4. WindowForm(q)
  BY <1>1, <1>3 DEF SliceOK, WindowForm, Turned
<1>5. ReadyFacts(q) = ReadyFacts(p)
  BY <1>1 DEF ReadyFacts, Turned, SameFact
<1>6. SliceOK(q)
  BY <1>1, <1>4, <1>5 DEF SliceOK, WindowLimits, PendingBytes
<1>7. ASSUME NEW txids, FactsOK(p, txids), NEW o \in DOMAIN p.facts
      PROVE  FactOK(q.facts[o], o, txids)
  <2>1. FactOK(p.facts[o], o, txids) /\ SameFact(q.facts[o], p.facts[o])
    BY <1>7 DEF FactsOK, Turned
  <2> QED
    BY <2>1 DEF FactOK, SameFact
<1>8. \A txids : FactsOK(p, txids) => FactsOK(q, txids)
  BY <1>1, <1>7 DEF FactsOK
<1> QED
  BY <1>1, <1>2, <1>6, <1>8 DEF SameWindow, Turned

LEMMA TurnedAgain ==
    ASSUME NEW p, NEW q, NEW r, Turned(q, p), Turned(r, q)
    PROVE  Turned(r, p)
<1>1. Active(q) = Active(p) /\ DOMAIN q.facts = DOMAIN p.facts
  BY DEF Turned, Active
<1>2. \A o \in DOMAIN p.facts : SameFact(r.facts[o], p.facts[o])
  <2> TAKE o \in DOMAIN p.facts
  <2>1. SameFact(q.facts[o], p.facts[o]) /\ SameFact(r.facts[o], q.facts[o])
    BY <1>1 DEF Turned
  <2> QED
    BY <2>1 DEF SameFact
<1> QED
  BY <1>1, <1>2 DEF Turned

LEMMA RecordAttemptTurns ==
    ASSUME NEW p, WindowForm(p), NEW wave, NEW o \in DOMAIN p.facts, p.facts[o].kind = "awaiting"
    PROVE  Turned(RecordAttempt(p, wave, o), p)
<1> DEFINE C == IF wave = "parents"
                THEN {x \in DOMAIN p.facts : /\ ParentOf[x] = ParentOf[o]
                                             /\ p.facts[x].kind = "awaiting"
                                             /\ p.facts[x].source = "parent"}
                ELSE {o}
           f == [x \in DOMAIN p.facts |->
                   IF x \in C THEN Awaiting(p.facts[x].source, p.facts[x].attempts + 1)
                   ELSE p.facts[x]]
           q == RecordAttempt(p, wave, o)
<1>1. q = [p EXCEPT !.facts = f]
  BY DEF RecordAttempt
<1>2. \A x \in C : p.facts[x].kind = "awaiting"
  OBVIOUS
<1> HIDE DEF C
<1>3. \A x, n : Awaiting(x, n).kind = "awaiting" /\ Awaiting(x, n).source = x
  BY DEF Awaiting
<1>4. \A x \in DOMAIN p.facts : SameFact(f[x], p.facts[x])
  <2> TAKE x \in DOMAIN p.facts
  <2>1. CASE x \in C
    <3>1. f[x] = Awaiting(p.facts[x].source, p.facts[x].attempts + 1)
      BY <2>1
    <3>2. f[x].kind = "awaiting" /\ f[x].source = p.facts[x].source
      BY <1>3, <3>1
    <3> QED
      BY <1>2, <2>1, <3>2 DEF SameFact
  <2>2. CASE x \notin C
    <3>1. f[x] = p.facts[x]
      BY <2>2
    <3> QED
      BY <3>1 DEF SameFact
  <2> QED
    BY <2>1, <2>2
<1>5. f = [x \in DOMAIN p.facts |-> f[x]]
  OBVIOUS
<1> HIDE DEF f, q
<1>6. SliceForm(p)
  BY DEF WindowForm
<1>7. /\ SliceForm(q) /\ q.queued = p.queued /\ q.turn = p.turn
      /\ q.cursor = p.cursor /\ q.raw = p.raw /\ q.facts = f
  BY <1>1, <1>6, FactsReplaced
<1>8. Turned(q, p)
  BY <1>4, <1>5, <1>7 DEF Turned, WindowForm
<1> QED
  BY <1>8 DEF q

LEMMA Remainder ==
    ASSUME NEW a \in Nat, NEW n \in Nat \ {0}
    PROVE  a % n \in 0 .. n - 1
OBVIOUS

LEMMA RotatedTurns ==
    ASSUME NEW p, WindowForm(p), NEW t \in [Active(p) -> Nat], NEW q, q = [p EXCEPT !.turn = t]
    PROVE  Turned(q, p) /\ q.facts = p.facts /\ q.cursor = p.cursor
<1>1. SliceForm(p)
  BY DEF WindowForm
<1>2. /\ SliceForm(q) /\ q.queued = p.queued /\ q.turn = t /\ q.cursor = p.cursor
      /\ q.facts = p.facts /\ q.raw = p.raw
  BY <1>1 DEF SliceForm
<1> QED
  BY <1>2 DEF Turned, WindowForm, SameFact

LEMMA MovedTurns ==
    ASSUME NEW p, WindowForm(p), NEW v, NEW c \in Nat, NEW q, q = [p EXCEPT !.cursor[v] = c]
    PROVE  Turned(q, p) /\ q.facts = p.facts
<1> DEFINE g == [p.cursor EXCEPT ![v] = c]
<1>1. SliceForm(p)
  BY DEF WindowForm
<1>2. q = [p EXCEPT !.cursor = g]
  OBVIOUS
<1>3. g \in [Active(p) -> Nat]
  BY DEF WindowForm
<1> HIDE DEF g
<1>4. /\ SliceForm(q) /\ q.queued = p.queued /\ q.turn = p.turn /\ q.cursor = g
      /\ q.facts = p.facts /\ q.raw = p.raw
  BY <1>1, <1>2 DEF SliceForm
<1> QED
  BY <1>3, <1>4 DEF Turned, WindowForm, SameFact

\* The facts of p that a wave may ask for.
Askable(p, wave) ==
    {o \in DOMAIN p.facts : /\ p.facts[o].kind = "awaiting"
                            /\ wave = "parents" <=> p.facts[o].source = "parent"}

\* A wave under construction for the slice p.
WaveOK(w, p, wave) ==
    /\ w = [slice |-> w.slice, selected |-> w.selected, left |-> w.left, added |-> w.added]
    /\ Turned(w.slice, p)
    /\ w.selected \subseteq Askable(p, wave)
    /\ Active(p) = {} => w.left = 0 /\ ~ w.added

LEMMA TurnedAskable ==
    ASSUME NEW p, NEW q, Turned(q, p), NEW wave
    PROVE  Askable(q, wave) = Askable(p, wave)
<1>1. DOMAIN q.facts = DOMAIN p.facts
  BY DEF Turned
<1>2. ASSUME NEW o \in DOMAIN p.facts PROVE o \in Askable(q, wave) <=> o \in Askable(p, wave)
  <2>1. SameFact(q.facts[o], p.facts[o])
    BY DEF Turned
  <2> QED
    BY <1>1, <2>1 DEF SameFact, Askable
<1> QED
  BY <1>1, <1>2 DEF Askable

LEMMA TakeTurnOK ==
    ASSUME NEW p, SliceOK(p), Active(p) # {}, NEW wave, NEW mempool, NEW w, WaveOK(w, p, wave)
    PROVE  WaveOK(TakeTurn(w, wave, mempool), p, wave)
<1> DEFINE q == w.slice
           v == FirstOf(q, Active(q))
           round == Cardinality(Active(q))
           t == Merge([u \in {v} |-> round], FairOrder(q, Active(q) \ {v}))
           left == IF w.left = 0 THEN round ELSE w.left
           added == w.left # 0 /\ w.added
           rotated == [q EXCEPT !.turn = t]
           n == Len(Inputs[v])
           at(j) == Inputs[v][((q.cursor[v] + j) % n) + 1]
           offsets == {j \in 0 .. n - 1 : Selectable(q, wave, w.selected, at(j))}
           k == Min(offsets)
           moved == [rotated EXCEPT !.cursor[v] = (@ + k + 1) % n]
           o == at(k)
           more == w.selected \cup {o}
           last == RecordAttempt(moved, wave, o)
           x == TakeTurn(w, wave, mempool)
<1>1. \/ x = [w EXCEPT !.slice = rotated, !.left = left - 1, !.added = added]
      \/ /\ offsets # {}
         /\ \/ x = [w EXCEPT !.slice = moved, !.left = left - 1, !.added = added]
            \/ x = [slice |-> last, selected |-> more, left |-> left - 1, added |-> TRUE]
  BY DEF TakeTurn
<1>2. /\ Turned(q, p) /\ SliceOK(q) /\ WindowForm(q) /\ Active(q) = Active(p)
      /\ DOMAIN q.facts = DOMAIN p.facts
  BY TurnedSame DEF WaveOK, SameWindow, SliceOK
<1>3. v \in Active(q)
  BY <1>2, FirstOfMember
<1> HIDE DEF v
<1>4. t \in [Active(p) -> Nat]
  <2>1. IsFiniteSet(Active(q))
    BY <1>2 DEF WindowForm
  <2>2. IsFiniteSet(Active(q) \ {v}) /\ round \in Nat
    BY <2>1, FS_CardinalityType, FS_Subset
  <2>3. FairOrder(q, Active(q) \ {v}) \in [Active(q) \ {v} -> Nat]
    BY <2>2, FairOrderType
  <2> HIDE DEF round
  <2> QED
    BY <1>2, <1>3, <2>2, <2>3 DEF Merge
<1>5. Turned(rotated, q) /\ rotated.facts = q.facts /\ rotated.cursor = q.cursor
  <2> HIDE DEF t
  <2> QED
    BY <1>2, <1>4, RotatedTurns
<1>6. WindowForm(rotated) /\ Turned(rotated, p) /\ SliceOK(rotated)
  <2> HIDE DEF rotated, q
  <2> QED
    BY <1>2, <1>5, TurnedSame, TurnedAgain DEF SameWindow, SliceOK
<1>7. CASE x = [w EXCEPT !.slice = rotated, !.left = left - 1, !.added = added]
  <2> HIDE DEF rotated, left, added, x
  <2>1. /\ x = [slice |-> x.slice, selected |-> x.selected, left |-> x.left, added |-> x.added]
        /\ x.slice = rotated /\ x.selected = w.selected
    BY <1>7 DEF WaveOK
  <2>2. WaveOK(x, p, wave)
    BY <1>6, <2>1 DEF WaveOK
  <2> QED
    BY <2>2 DEF x
<1>8. ASSUME offsets # {}
      PROVE  /\ Turned(moved, p) /\ WindowForm(moved) /\ moved.facts = q.facts /\ SliceOK(moved)
             /\ o \in Askable(p, wave)
  <2>1. v \in Variants /\ q.cursor[v] \in Nat
    BY <1>2, <1>3 DEF WindowForm
  <2>2. Inputs[v] \in Seq(Outpoints)
    BY <2>1, PendingSliceAssumption
  <2>3. n \in Nat /\ DOMAIN Inputs[v] = 1 .. n
    BY <2>2
  <2>4. offsets \subseteq Nat
    BY <2>3
  <2>5. k \in offsets
    <3> HIDE DEF offsets
    <3> QED
      BY <1>8, <2>4, MinIsLeast
  <2> HIDE DEF k
  <2>6. k \in 0 .. n - 1 /\ Selectable(q, wave, w.selected, o)
    BY <2>5
  <2> HIDE DEF n
  <2>7. n \in Nat \ {0} /\ k \in Nat
    BY <2>3, <2>6
  <2>8. (q.cursor[v] + k) % n \in 0 .. n - 1
    <3>1. q.cursor[v] + k \in Nat
      BY <2>1, <2>7
    <3> QED
      BY <2>7, <3>1, Remainder
  <2>9. ((q.cursor[v] + k) % n) + 1 \in 1 .. n
    BY <2>7, <2>8
  <2>10. o \in Required(v)
    BY <2>3, <2>9 DEF Required, ToSet
  <2>11. o \in DOMAIN q.facts
    BY <1>2, <1>3, <2>10 DEF WindowForm
  <2>12. q.facts[o].kind = "awaiting" /\ (wave = "parents" <=> q.facts[o].source = "parent")
    BY <2>6 DEF Selectable
  <2>13. o \in Askable(p, wave)
    <3>1. o \in Askable(q, wave)
      BY <2>11, <2>12 DEF Askable
    <3> HIDE DEF q, o
    <3> QED
      BY <1>2, <3>1, TurnedAskable
  <2>14. moved = [rotated EXCEPT !.cursor[v] = (q.cursor[v] + k + 1) % n]
    BY <1>5
  <2>15. (q.cursor[v] + k + 1) % n \in Nat
    <3>1. q.cursor[v] + k + 1 \in Nat
      BY <2>1, <2>7
    <3>2. (q.cursor[v] + k + 1) % n \in 0 .. n - 1
      BY <2>7, <3>1, Remainder
    <3> QED
      BY <2>7, <3>2
  <2> HIDE DEF rotated, moved, o, q
  <2>16. Turned(moved, rotated) /\ moved.facts = rotated.facts
    BY <1>6, <2>14, <2>15, MovedTurns
  <2>17. SliceOK(moved) /\ Turned(moved, p)
    BY <1>6, <2>16, TurnedSame, TurnedAgain DEF SameWindow
  <2> QED
    BY <1>5, <2>13, <2>16, <2>17 DEF SliceOK
<1> HIDE DEF moved, rotated, q, o, left, added, offsets, x
<1>9. CASE offsets # {} /\ x = [w EXCEPT !.slice = moved, !.left = left - 1, !.added = added]
  <2>1. /\ x = [slice |-> x.slice, selected |-> x.selected, left |-> x.left, added |-> x.added]
        /\ x.slice = moved /\ x.selected = w.selected
    BY <1>9 DEF WaveOK
  <2>2. WaveOK(x, p, wave)
    BY <1>8, <1>9, <2>1 DEF WaveOK
  <2> QED
    BY <2>2 DEF x
<1>10. CASE offsets # {} /\ x = [slice |-> last, selected |-> more, left |-> left - 1, added |-> TRUE]
  <2>1. Turned(last, p)
    <3>1. o \in DOMAIN moved.facts /\ moved.facts[o].kind = "awaiting"
      <4>1. o \in Askable(moved, wave)
        BY <1>8, <1>10, TurnedAskable
      <4> QED
        BY <4>1 DEF Askable
    <3>2. Turned(last, moved)
      BY <1>8, <1>10, <3>1, RecordAttemptTurns
    <3> HIDE DEF last
    <3> QED
      BY <1>8, <1>10, <3>2, TurnedAgain
  <2> HIDE DEF last
  <2>2. WaveOK(x, p, wave)
    BY <1>8, <1>10, <2>1 DEF WaveOK
  <2> QED
    BY <2>2 DEF x
<1> QED
  BY <1>1, <1>7, <1>9, <1>10 DEF x

\* A finished wave: it asks only for facts that are awaited.
WaveFor(w, p, wave) ==
    Turned(w.slice, p) /\ w.selected \subseteq Askable(p, wave)

LEMMA NewWaveOK ==
    ASSUME NEW p, WindowForm(p), NEW wave
    PROVE  WaveOK(NewWave(p), p, wave)
<1> DEFINE w == NewWave(p)
<1>1. w = [slice |-> p, selected |-> {}, left |-> Cardinality(Active(p)), added |-> FALSE]
  BY DEF NewWave
<1>2. Turned(p, p)
  BY DEF Turned, WindowForm, SameFact
<1>3. Active(p) = {} => Cardinality(Active(p)) = 0
  BY FS_EmptySet
<1> HIDE DEF w
<1>4. WaveOK(w, p, wave)
  BY <1>1, <1>2, <1>3 DEF WaveOK
<1> QED
  BY <1>4 DEF w

LEMMA SelectWaveOK ==
    ASSUME NEW p, SliceOK(p), NEW wave, NEW mempool, NEW maximum \in Nat
    PROVE  WaveFor(SelectWave(p, wave, mempool, maximum), p, wave)
<1> DEFINE most == Cardinality(Active(p)) * (maximum + 1)
           a == <<maximum, wave, mempool>>
           after == RunOf("wave", a, NewWave(p), most)
           G == {n \in 0 .. most : WaveOK(after[n], p, wave)}
<1>1. most \in Nat
  <2>1. Cardinality(Active(p)) \in Nat
    BY FS_CardinalityType DEF SliceOK, WindowForm
  <2> QED
    BY <2>1
<1>2. \A x : LoopTurn("wave", a, x) =
               IF WaveEnded(x, maximum) THEN x ELSE TakeTurn(x, wave, mempool)
  BY DEF LoopTurn
<1>3. SelectWave(p, wave, mempool, maximum) = after[most]
  BY <1>2 DEF SelectWave, RunOf, Loop
<1> HIDE DEF a, most
<1>4. /\ after[0] = NewWave(p)
      /\ \A n \in 1 .. most : after[n] = LoopTurn("wave", a, after[n - 1])
  BY <1>1, RunsOn
<1> HIDE DEF after
<1>5. 0 \in G
  BY <1>1, <1>4, NewWaveOK DEF SliceOK
<1>6. ASSUME NEW n \in 1 .. most, n - 1 \in G PROVE n \in G
  <2> DEFINE w == after[n - 1]
  <2>1. WaveOK(w, p, wave) /\ n \in 0 .. most
    BY <1>1, <1>6
  <2>2. after[n] = IF WaveEnded(w, maximum) THEN w ELSE TakeTurn(w, wave, mempool)
    BY <1>2, <1>4
  <2> HIDE DEF w
  <2>3. CASE WaveEnded(w, maximum)
    BY <2>1, <2>2, <2>3
  <2>4. CASE ~ WaveEnded(w, maximum)
    <3>1. Active(p) # {}
      BY <2>1, <2>4 DEF WaveOK, WaveEnded
    <3> QED
      BY <2>1, <2>2, <2>4, <3>1, TakeTurnOK
  <2> QED
    BY <2>3, <2>4
<1>7. most \in G
  <2>1. most \in 0 .. most
    BY <1>1
  <2> HIDE DEF G
  <2> QED
    BY <1>1, <1>5, <1>6, <2>1, InductionTo
<1> QED
  BY <1>3, <1>7 DEF WaveOK, WaveFor

LEMMA NewWaveFor ==
    ASSUME NEW p, SliceOK(p), NEW wave
    PROVE  WaveFor(NewWave(p), p, wave)
BY NewWaveOK DEF WaveOK, WaveFor, SliceOK

LEMMA NextParentWaveOK ==
    ASSUME NEW p, SliceOK(p), NEW mempool
    PROVE  WaveFor(NextParentWave(p, mempool), p, "parents")
<1>1. MaxParentsPerWave \in Nat
  BY PendingSliceAssumption
<1> QED
  BY <1>1, NewWaveFor, SelectWaveOK DEF NextParentWave

LEMMA NextConfirmedWaveOK ==
    ASSUME NEW p, SliceOK(p), NEW mempool
    PROVE  WaveFor(NextConfirmedWave(p, mempool), p, "confirmed")
<1> DEFINE room == (MaxPendingBytes - PendingBytes(p)) \div GetTxOutBytes
           maximum == Max({1, Min({MaxConfirmedPerWave, room})})
<1>1. /\ MaxPendingBytes \in Nat /\ GetTxOutBytes \in Nat \ {0}
      /\ MaxConfirmedPerWave \in Nat
  BY PendingSliceAssumption
<1>2. PendingBytes(p) \in Nat /\ PendingBytes(p) <= MaxPendingBytes
  BY FactsFinite DEF SliceOK, WindowLimits
<1>3. room \in Nat
  <2>1. MaxPendingBytes - PendingBytes(p) \in Nat
    BY <1>1, <1>2
  <2> HIDE DEF room
  <2> QED
    BY <1>1, <2>1 DEF room
<1> HIDE DEF room
<1>4. Min({MaxConfirmedPerWave, room}) \in Nat
  <2> DEFINE S == {MaxConfirmedPerWave, room}
  <2>1. S \subseteq Nat /\ S # {}
    BY <1>1, <1>3
  <2> HIDE DEF S
  <2>2. Min(S) \in S
    BY <2>1, MinIsLeast
  <2> QED
    BY <2>1, <2>2 DEF S
<1>5. maximum \in Nat
  <2> DEFINE least == Min({MaxConfirmedPerWave, room})
             S == {1, least}
  <2> HIDE DEF least
  <2>1. S \subseteq Nat /\ S # {}
    BY <1>4 DEF least
  <2>2. IsFiniteSet(S)
    <3>1. IsFiniteSet({1}) /\ IsFiniteSet({least}) /\ S = {1} \cup {least}
      BY FS_Singleton
    <3> HIDE DEF S
    <3> QED
      BY <3>1, FS_Union
  <2>3. maximum = Max(S)
    BY DEF least
  <2> HIDE DEF S, maximum
  <2>4. Max(S) \in S
    BY <2>1, <2>2, MaxIsGreatest
  <2> QED
    BY <2>1, <2>3, <2>4
<1> HIDE DEF maximum
<1>6. NextConfirmedWave(p, mempool) =
        IF HasCapacity(p) THEN SelectWave(p, "confirmed", mempool, maximum) ELSE NewWave(p)
  BY DEF NextConfirmedWave, maximum, room
<1> QED
  BY <1>5, <1>6, NewWaveFor, SelectWaveOK

-----------------------------------------------------------------------------
(* The local state of a slice *)

TxidsOf(mempool) == {TxidOf[v] : v \in mempool}

\* A slice in progress is a record of its fields.
LocalForm(s) ==
    s = [pc |-> s.pc, generation |-> s.generation, requests |-> s.requests,
         work |-> s.work, outputs |-> s.outputs, scripts |-> s.scripts,
         results |-> s.results, systemic |-> s.systemic]

\* It works on the transactions of its membership, and calls no output of one
\* of them missing.
LocalOK(s, mempool) ==
    /\ LocalForm(s)
    /\ SliceOK(s.work) /\ FactsOK(s.work, TxidsOf(mempool))
    /\ Candidates(s.work) \subseteq mempool
    /\ s.outputs \subseteq mempool
    /\ DOMAIN s.results \subseteq mempool
    /\ \A v \in DOMAIN s.results : \A o \in s.results[v] : ParentOf[o] \notin TxidsOf(mempool)

\* What is in the hands of a slice: the variants whose transactions it waits
\* for, and then its candidates.
Taken(s) == IF s.pc = "raw" THEN s.requests ELSE Candidates(s.work)

\* Whatever was tried is done, taken or given up; what is taken was tried and
\* is not given up.
Accounted(tried, done, taken, gone) ==
    /\ tried \subseteq done \cup taken \cup gone
    /\ taken \subseteq tried /\ gone \subseteq tried
    /\ taken \cap gone = {}

\* A slice of the current generation that waits for answers.
WaitingOK(s) ==
    /\ LocalOK(s, members)
    /\ s.pc \in {"raw", "parents", "confirmed"}
    /\ s.pc = "confirmed" => s.requests \subseteq Asked(s.work)
    /\ Accounted(attempted, DOMAIN classified \cup DOMAIN s.results, Taken(s), givenUp)

\* A slice whose generation was superseded: the new one has not begun.
StaleOK ==
    /\ attempted = {} /\ givenUp = {} /\ pending = EmptySlice
    /\ status = "continue"

\* No slice is in progress.
BetweenSlices ==
    /\ slice = Idle
    /\ Accounted(attempted, DOMAIN classified, Candidates(pending), givenUp)
    /\ NothingLost /\ FetchedScriptsAreUsed

\* Each attempt counts once, for a variant that is tried or for its retry.
RequestsCounted ==
    /\ rawRequests \in [Variants -> Nat]
    /\ \A v \in Variants :
         rawRequests[v] <= (IF v \in retryUsed THEN 1 ELSE 0)
                             + (IF v \in attempted THEN 1 ELSE 0)

-----------------------------------------------------------------------------
(* Steps inside a slice *)

\* t is s after a step that asks nobody: a candidate may get a result or leave.
Follows(t, s, mempool) ==
    /\ LocalOK(t, mempool)
    /\ t.generation = s.generation /\ t.outputs = s.outputs /\ t.scripts = s.scripts
    /\ t.systemic = s.systemic /\ t.work.raw = s.work.raw
    /\ Candidates(t.work) \subseteq Candidates(s.work)
    /\ DOMAIN s.results \subseteq DOMAIN t.results
    /\ DOMAIN t.results \subseteq DOMAIN s.results \cup Candidates(s.work)

\* No candidate left without a result.
Keeps(t, s) == Candidates(s.work) \subseteq Candidates(t.work) \cup DOMAIN t.results

\* No candidate entered the window.
Shrinks(t, s) == Active(t.work) \subseteq Active(s.work)

LEMMA FollowsAgain ==
    ASSUME NEW s, NEW t, NEW u, NEW mempool, Follows(t, s, mempool), Follows(u, t, mempool)
    PROVE  Follows(u, s, mempool) /\ (Keeps(t, s) /\ Keeps(u, t) => Keeps(u, s))
BY DEF Follows, Keeps

\* Another slice of the same candidates, or of fewer.
LessWork(q, p, txids) ==
    /\ SliceOK(q) /\ (FactsOK(p, txids) => FactsOK(q, txids))
    /\ Candidates(q) \subseteq Candidates(p) /\ q.raw = p.raw

LEMMA WorkReplaced ==
    ASSUME NEW s, NEW mempool, LocalOK(s, mempool), NEW q, LessWork(q, s.work, TxidsOf(mempool)),
           NEW t, t = [s EXCEPT !.work = q]
    PROVE  Follows(t, s, mempool) /\ t.work = q /\ t.results = s.results
<1>1. LocalForm(s)
  BY DEF LocalOK
<1>2. /\ LocalForm(t) /\ t.work = q /\ t.results = s.results /\ t.outputs = s.outputs
      /\ t.scripts = s.scripts /\ t.systemic = s.systemic /\ t.generation = s.generation
  BY <1>1 DEF LocalForm
<1>3. LocalOK(t, mempool)
  BY <1>2 DEF LocalOK, LessWork
<1> QED
  BY <1>2, <1>3 DEF Follows, LessWork

LEMMA SameWindowIsLess ==
    ASSUME NEW p, NEW q, SameWindow(q, p), \A txids : FactsOK(p, txids) => FactsOK(q, txids)
    PROVE  \A txids : LessWork(q, p, txids)
BY DEF SameWindow, LessWork

LEMMA HydrateLess ==
    ASSUME NEW p, SliceOK(p), NEW parents, NEW scripts
    PROVE  LET q == Hydrate(p, parents, scripts)
           IN  SameWindow(q, p) /\ \A txids : LessWork(q, p, txids)
<1> DEFINE q == Hydrate(p, parents, scripts)
           K == Known(p, parents, scripts)
<1>1. Stowed(q, p, K) /\ K \subseteq Waiting(p)
  BY HydrateStows
<1> HIDE DEF q, K
<1>2. SameWindow(q, p) /\ \A txids : FactsOK(p, txids) => FactsOK(q, txids)
  BY <1>1, StowedSame
<1>3. \A txids : LessWork(q, p, txids)
  BY <1>2, SameWindowIsLess
<1> QED
  BY <1>2, <1>3 DEF q

\* s with its facts hydrated.
Hydrated(s, parents, scripts) == [s EXCEPT !.work = Hydrate(@, parents, scripts)]

LEMMA HydratedFollows ==
    ASSUME NEW s, NEW mempool, LocalOK(s, mempool), NEW parents, NEW scripts
    PROVE  LET t == Hydrated(s, parents, scripts)
           IN  Follows(t, s, mempool) /\ Keeps(t, s) /\ Shrinks(t, s) /\ t.results = s.results
<1> DEFINE q == Hydrate(s.work, parents, scripts)
           t == Hydrated(s, parents, scripts)
<1>1. SliceOK(s.work)
  BY DEF LocalOK
<1>2. SameWindow(q, s.work) /\ \A txids : LessWork(q, s.work, txids)
  BY <1>1, HydrateLess
<1>3. t = [s EXCEPT !.work = q]
  BY DEF Hydrated
<1> HIDE DEF q, t
<1>4. Follows(t, s, mempool) /\ t.work = q /\ t.results = s.results
  BY <1>2, <1>3, WorkReplaced
<1>5. Keeps(t, s) /\ Shrinks(t, s)
  BY <1>2, <1>4 DEF Keeps, Shrinks, SameWindow
<1> QED
  BY <1>4, <1>5 DEF t

LEMMA ActivateFollows ==
    ASSUME NEW s, LocalOK(s, members)
    PROVE  LET t == Activate(s)
           IN  Follows(t, s, members) /\ Keeps(t, s) /\ t.results = s.results
<1> DEFINE p == s.work
           q == ActivateWaiting(p, Txids)
           t == Activate(s)
<1>1. SliceOK(p) /\ Txids = TxidsOf(members)
  BY DEF LocalOK, Txids, TxidsOf
<1>2. /\ SliceOK(q)
      /\ \E N \in SUBSET ToSet(p.queued) : Entered(q, p, N)
      /\ \A o \in DOMAIN q.facts \ DOMAIN p.facts : NewFact(q.facts[o], o, Txids)
  BY <1>1, ActivateWaitingOK
<1>3. t = [s EXCEPT !.work = q]
  BY DEF Activate
<1> HIDE DEF q, t, p
<1>4. PICK N \in SUBSET ToSet(p.queued) : Entered(q, p, N)
  BY <1>2
<1>5. FactsOK(p, Txids) => FactsOK(q, Txids)
  BY <1>2, <1>4, EnteredFacts
<1>6. LessWork(q, p, TxidsOf(members)) /\ Candidates(q) = Candidates(p)
  BY <1>1, <1>2, <1>4, <1>5 DEF LessWork, Entered
<1>7. Follows(t, s, members) /\ t.work = q /\ t.results = s.results
  BY <1>3, <1>6, WorkReplaced DEF p
<1> QED
  BY <1>6, <1>7 DEF Keeps, t, p

LEMMA DiscardLess ==
    ASSUME NEW p, SliceOK(p), NEW gone
    PROVE  LET q == Discard(p, gone)
           IN  /\ Active(q) = Active(p) \ gone /\ q.queued = p.queued
               /\ \A txids : LessWork(q, p, txids)
<1> DEFINE q == Discard(p, gone)
<1>1. /\ SliceOK(q) /\ Active(q) = Active(p) \ gone
      /\ q.queued = p.queued /\ q.raw = p.raw
      /\ DOMAIN q.facts \subseteq DOMAIN p.facts
      /\ \A o \in DOMAIN q.facts : q.facts[o] = p.facts[o]
  BY DiscardOK
<1> HIDE DEF q
<1>2. \A txids : FactsOK(p, txids) => FactsOK(q, txids)
  BY <1>1 DEF FactsOK
<1>3. Candidates(q) \subseteq Candidates(p)
  BY <1>1 DEF Candidates
<1> QED
  BY <1>1, <1>2, <1>3 DEF LessWork, q

LEMMA ClassifyReadyOK ==
    ASSUME NEW p, SliceOK(p), NEW txids, FactsOK(p, txids)
    PROVE  LET c == ClassifyReady(p)
           IN  /\ LessWork(c.slice, p, txids) /\ Active(c.slice) \subseteq Active(p)
               /\ Candidates(p) = Candidates(c.slice) \cup DOMAIN c.results
               /\ \A v \in DOMAIN c.results : \A o \in c.results[v] : ParentOf[o] \notin txids
<1> DEFINE done == {v \in Active(p) : \A o \in Required(v) :
                      p.facts[o].kind \in {"ready", "missing"}}
           q == Discard(p, done)
           r == [v \in done |-> {o \in Required(v) : p.facts[o].kind = "missing"}]
           c == ClassifyReady(p)
<1>1. c.slice = q /\ c.results = r
  BY DEF ClassifyReady
<1>2. /\ Active(q) = Active(p) \ done /\ q.queued = p.queued
      /\ LessWork(q, p, txids)
  BY DiscardLess
<1>3. done \subseteq Active(p) /\ DOMAIN r = done
  OBVIOUS
<1>4. ASSUME NEW v \in done, NEW o \in r[v] PROVE ParentOf[o] \notin txids
  <2>1. o \in Required(v) /\ p.facts[o].kind = "missing" /\ v \in Active(p)
    OBVIOUS
  <2>2. o \in DOMAIN p.facts
    BY <2>1 DEF SliceOK, WindowForm
  <2>3. FactOK(p.facts[o], o, txids)
    BY <2>2 DEF FactsOK
  <2> QED
    BY <2>1, <2>3 DEF FactOK
<1> HIDE DEF done, q, r, c
<1>5. Candidates(p) = Candidates(q) \cup done
  BY <1>2, <1>3 DEF Candidates
<1> QED
  BY <1>1, <1>2, <1>3, <1>4, <1>5 DEF c

LEMMA ClassifyFollows ==
    ASSUME NEW s, NEW mempool, LocalOK(s, mempool)
    PROVE  LET t == Classify(s) IN Follows(t, s, mempool) /\ Keeps(t, s) /\ Shrinks(t, s)
<1> DEFINE c == ClassifyReady(s.work)
           r == Merge(s.results, c.results)
           t == Classify(s)
           T == TxidsOf(mempool)
<1>1. SliceOK(s.work) /\ FactsOK(s.work, T) /\ LocalForm(s)
  BY DEF LocalOK
<1>2. /\ LessWork(c.slice, s.work, T) /\ Active(c.slice) \subseteq Active(s.work)
      /\ Candidates(s.work) = Candidates(c.slice) \cup DOMAIN c.results
      /\ \A v \in DOMAIN c.results : \A o \in c.results[v] : ParentOf[o] \notin T
  BY <1>1, ClassifyReadyOK
<1>3. t = [s EXCEPT !.work = c.slice, !.results = r]
  BY DEF Classify, ClassifyIn
<1>4. /\ DOMAIN r = DOMAIN s.results \cup DOMAIN c.results
      /\ \A v \in DOMAIN r : r[v] = IF v \in DOMAIN c.results THEN c.results[v] ELSE s.results[v]
  BY DEF Merge
<1> HIDE DEF c, r, t
<1>5. /\ LocalForm(t) /\ t.work = c.slice /\ t.results = r /\ t.outputs = s.outputs
      /\ t.scripts = s.scripts /\ t.systemic = s.systemic /\ t.generation = s.generation
  BY <1>1, <1>3 DEF LocalForm
<1>6. \A v \in DOMAIN r : \A o \in r[v] : ParentOf[o] \notin T
  BY <1>2, <1>4 DEF LocalOK
<1>7. LocalOK(t, mempool)
  BY <1>1, <1>2, <1>4, <1>5, <1>6 DEF LocalOK, LessWork
<1>8. Follows(t, s, mempool)
  BY <1>2, <1>4, <1>5, <1>7 DEF Follows, LessWork
<1>9. Keeps(t, s) /\ Shrinks(t, s)
  BY <1>2, <1>4, <1>5 DEF Keeps, Shrinks
<1> QED
  BY <1>8, <1>9 DEF t

-----------------------------------------------------------------------------
(* Recovery and capacity pressure *)

LEMMA FollowsSelf ==
    ASSUME NEW s, NEW mempool, LocalOK(s, mempool)
    PROVE  Follows(s, s, mempool) /\ Keeps(s, s) /\ Shrinks(s, s)
BY DEF Follows, Keeps, Shrinks

LEMMA HydrateFromCachesFollows ==
    ASSUME NEW s, NEW mempool, LocalOK(s, mempool)
    PROVE  LET t == HydrateFromCaches(s) IN Follows(t, s, mempool) /\ Keeps(t, s) /\ Shrinks(t, s)
<1>1. HydrateFromCaches(s) = Hydrated(s, s.work.raw \cup outputs, confirmed)
  BY DEF HydrateFromCaches, Hydrated
<1> QED
  BY <1>1, HydratedFollows

LEMMA HydrateFromTransientFollows ==
    ASSUME NEW s, NEW mempool, LocalOK(s, mempool)
    PROVE  LET t == HydrateFromTransient(s) IN Follows(t, s, mempool) /\ Keeps(t, s) /\ Shrinks(t, s)
<1>1. HydrateFromTransient(s) = Hydrated(s, s.outputs, s.scripts)
  BY DEF HydrateFromTransient, Hydrated
<1> QED
  BY <1>1, HydratedFollows

LEMMA RecoverTurnFollows ==
    ASSUME NEW s, NEW mempool, NEW r, Follows(r.slice, s, mempool), Shrinks(r.slice, s)
    PROVE  LET t == RecoverTurn(r).slice IN Follows(t, s, mempool) /\ Shrinks(t, s)
<1> DEFINE a == r.slice
           b == HydrateFromCaches(a)
           c == HydrateFromTransient(b)
           d == Classify(c)
<1>1. RecoverTurn(r).slice = a \/ RecoverTurn(r).slice = d
  BY DEF RecoverTurn
<1>2. LocalOK(a, mempool)
  BY DEF Follows
<1>3. Follows(b, a, mempool) /\ Shrinks(b, a) /\ LocalOK(b, mempool)
  <2> HIDE DEF a
  <2> QED
    BY <1>2, HydrateFromCachesFollows DEF Follows
<1>4. Follows(c, b, mempool) /\ Shrinks(c, b) /\ LocalOK(c, mempool)
  <2> HIDE DEF b
  <2> QED
    BY <1>3, HydrateFromTransientFollows DEF Follows
<1>5. Follows(d, c, mempool) /\ Shrinks(d, c)
  <2> HIDE DEF c
  <2> QED
    BY <1>4, ClassifyFollows
<1> HIDE DEF a, b, c, d
<1>6. Follows(d, s, mempool) /\ Shrinks(d, s)
  <2>1. Follows(a, s, mempool) /\ Shrinks(a, s)
    BY DEF a
  <2>2. Follows(b, s, mempool)
    BY <1>3, <2>1, FollowsAgain
  <2>3. Follows(c, s, mempool)
    BY <1>4, <2>2, FollowsAgain
  <2>4. Follows(d, s, mempool)
    BY <1>5, <2>3, FollowsAgain
  <2> QED
    BY <1>3, <1>4, <1>5, <2>1, <2>4 DEF Shrinks
<1> QED
  BY <1>1, <1>6 DEF a

LEMMA RecoverFollows ==
    ASSUME NEW s, NEW mempool, LocalOK(s, mempool)
    PROVE  Follows(Recover(s), s, mempool) /\ Shrinks(Recover(s), s)
<1> DEFINE most == Cardinality(Active(s.work)) + 1
           first == [slice |-> s, more |-> TRUE]
           after == RunOf("recover", <<>>, first, most)
           Good(r) == Follows(r.slice, s, mempool) /\ Shrinks(r.slice, s)
           G == {n \in 0 .. most : Good(after[n])}
<1>1. most \in Nat
  <2>1. Cardinality(Active(s.work)) \in Nat
    BY FS_CardinalityType DEF LocalOK, SliceOK, WindowForm
  <2> QED
    BY <2>1
<1>2. \A x : LoopTurn("recover", <<>>, x) = RecoverTurn(x)
  BY DEF LoopTurn
<1>3. Recover(s) = after[most].slice
  BY <1>2 DEF Recover, RunOf, Loop
<1>4. Good(first)
  BY FollowsSelf
<1> HIDE DEF most, first
<1>5. /\ after[0] = first
      /\ \A n \in 1 .. most : after[n] = LoopTurn("recover", <<>>, after[n - 1])
  BY <1>1, RunsOn
<1> HIDE DEF after
<1>6. 0 \in G
  BY <1>1, <1>4, <1>5
<1>7. ASSUME NEW n \in 1 .. most, n - 1 \in G PROVE n \in G
  <2>1. Good(after[n - 1]) /\ n \in 0 .. most
    BY <1>1, <1>7
  <2>2. after[n] = RecoverTurn(after[n - 1])
    BY <1>2, <1>5
  <2> DEFINE r == after[n - 1]
  <2> HIDE DEF r
  <2>3. Good(RecoverTurn(r))
    BY <2>1, RecoverTurnFollows DEF r
  <2> QED
    BY <2>1, <2>2, <2>3 DEF r
<1>8. most \in G
  <2>1. most \in 0 .. most
    BY <1>1
  <2> HIDE DEF G
  <2> QED
    BY <1>1, <1>6, <1>7, <2>1, InductionTo
<1> QED
  BY <1>3, <1>8

LEMMA CapacityVictimOK ==
    ASSUME NEW p, SliceOK(p)
    PROVE  \/ CapacityVictim(p) = {} /\ \A v \in Active(p) : ~ HasBlockedFact(p, v)
           \/ \E x \in Active(p) : CapacityVictim(p) = {x}
<1> DEFINE B == {v \in Active(p) : HasBlockedFact(p, v)}
           f == [v \in B |-> FreedBytes(p, v)]
           best == {v \in B : \A w \in B : FreedBytes(p, w) <= FreedBytes(p, v)}
<1>1. CapacityVictim(p) = IF B = {} THEN {} ELSE {FirstOf(p, best)}
  BY DEF CapacityVictim
<1>2. CASE B = {}
  BY <1>1, <1>2
<1>3. CASE B # {}
  <2>1. WindowForm(p) /\ IsFiniteSet(Active(p)) /\ Active(p) \subseteq Variants
    BY DEF SliceOK, WindowForm
  <2>2. IsFiniteSet(B)
    <3>1. B \subseteq Active(p)
      OBVIOUS
    <3> HIDE DEF B
    <3> QED
      BY <2>1, <3>1, FS_Subset
  <2>3. ASSUME NEW v \in B PROVE FreedBytes(p, v) \in Nat
    <3> DEFINE F == {o \in Required(v) : /\ p.facts[o].kind = "ready"
                                         /\ \A w \in Active(p) \ {v} : o \notin Required(w)}
    <3>1. Required(v) \in SUBSET Outpoints /\ IsFiniteSet(Required(v))
      BY <2>1, RequiredFinite
    <3>2. F \subseteq Required(v)
      OBVIOUS
    <3>3. FreedBytes(p, v) = Bytes(F)
      BY DEF FreedBytes
    <3> HIDE DEF F
    <3>4. F \in SUBSET Outpoints /\ IsFiniteSet(F)
      BY <3>1, <3>2, FS_Subset
    <3> QED
      BY <3>3, <3>4, BytesType
  <2>4. \A v \in B : f[v] = FreedBytes(p, v)
    OBVIOUS
  <2> HIDE DEF f
  <2>5. \E x \in B : \A y \in B : f[y] <= f[x]
    <3>1. \A v \in B : f[v] \in Nat
      BY <2>3, <2>4
    <3> HIDE DEF B
    <3> QED
      BY <1>3, <2>2, <3>1, GreatestAt
  <2>6. best # {}
    BY <2>4, <2>5
  <2>7. best \in SUBSET Active(p)
    OBVIOUS
  <2> HIDE DEF best, B
  <2>8. FirstOf(p, best) \in Active(p)
    BY <2>1, <2>6, <2>7, FirstOfMember
  <2> QED
    BY <1>1, <1>3, <2>8
<1> QED
  BY <1>2, <1>3

LEMMA ResolvedLosesNothing ==
    ASSUME NEW r, SliceOK(r.slice.work), PressureResolved(r)
    PROVE  NothingFetchedIsBlocked(r.slice)
<1> DEFINE p == r.slice.work
<1>1. CASE r.deferred /\ NothingFetchedIsBlocked(r.slice)
  BY <1>1
<1>2. CASE CapacityVictim(p) = {}
  <2>1. \A v \in Active(p) : ~ HasBlockedFact(p, v)
    BY <1>2, CapacityVictimOK
  <2>2. DOMAIN p.facts = UNION {Required(v) : v \in Active(p)}
    BY DEF SliceOK, WindowForm
  <2>3. \A o \in DOMAIN p.facts : p.facts[o].kind # "blocked"
    BY <2>1, <2>2 DEF HasBlockedFact
  <2>4. ~ TransientBlocked(p, r.slice.outputs, r.slice.scripts)
    BY <2>3 DEF TransientBlocked
  <2> QED
    BY <2>4 DEF NothingFetchedIsBlocked
<1> QED
  BY <1>1, <1>2 DEF PressureResolved

LEMMA DeferTurnOK ==
    ASSUME NEW s, NEW mempool, NEW r, Follows(r.slice, s, mempool), ~ PressureResolved(r)
    PROVE  LET t == DeferTurn(r).slice
           IN  /\ Follows(t, s, mempool)
               /\ Cardinality(Active(t.work)) \in Nat
               /\ Cardinality(Active(r.slice.work)) \in Nat
               /\ Cardinality(Active(t.work)) < Cardinality(Active(r.slice.work))
<1> DEFINE a == r.slice
           q == Discard(a.work, CapacityVictim(a.work))
           b == [a EXCEPT !.work = q]
           t == Recover(b)
<1>1. DeferTurn(r).slice = t
  BY DEF DeferTurn
<1>2. LocalOK(a, mempool) /\ SliceOK(a.work)
  BY DEF Follows, LocalOK
<1>3. CapacityVictim(a.work) # {}
  BY DEF PressureResolved
<1>4. PICK x \in Active(a.work) : CapacityVictim(a.work) = {x}
  BY <1>2, <1>3, CapacityVictimOK
<1>5. Active(q) = Active(a.work) \ {x} /\ LessWork(q, a.work, TxidsOf(mempool))
  BY <1>2, <1>4, DiscardLess
<1> HIDE DEF q
<1>6. Follows(b, a, mempool) /\ b.work = q
  <2> HIDE DEF a
  <2> QED
    BY <1>2, <1>5, WorkReplaced
<1> HIDE DEF b
<1>7. Follows(t, b, mempool) /\ Shrinks(t, b)
  BY <1>6, RecoverFollows DEF Follows
<1> HIDE DEF t
<1>8. Follows(t, s, mempool)
  <2>1. Follows(a, s, mempool)
    BY DEF a
  <2> HIDE DEF a
  <2>2. Follows(b, s, mempool)
    BY <1>6, <2>1, FollowsAgain
  <2> QED
    BY <1>7, <2>2, FollowsAgain
<1>9. /\ Cardinality(Active(t.work)) \in Nat
      /\ Cardinality(Active(a.work)) \in Nat
      /\ Cardinality(Active(t.work)) < Cardinality(Active(a.work))
  <2> DEFINE A == Active(a.work)
             T == Active(t.work)
  <2>1. IsFiniteSet(A) /\ x \in A /\ T \subseteq A \ {x}
    BY <1>2, <1>5, <1>6, <1>7 DEF SliceOK, WindowForm, Shrinks
  <2> HIDE DEF A, T
  <2>2. /\ IsFiniteSet(A \ {x}) /\ Cardinality(A) \in Nat
        /\ Cardinality(A \ {x}) \in Nat /\ Cardinality(A \ {x}) = Cardinality(A) - 1
    BY <2>1, SmallerSubset, FS_Subset
  <2>3. Cardinality(T) \in Nat /\ Cardinality(T) <= Cardinality(A \ {x})
    BY <2>1, <2>2, FS_Subset, FS_CardinalityType
  <2>4. Cardinality(T) < Cardinality(A)
    BY <2>2, <2>3
  <2> QED
    BY <2>2, <2>3, <2>4 DEF A, T
<1> QED
  BY <1>1, <1>8, <1>9 DEF a

LEMMA ResolveFollows ==
    ASSUME NEW s, NEW mempool, LocalOK(s, mempool)
    PROVE  LET t == ResolveCapacityPressure(s)
           IN  Follows(t, s, mempool) /\ NothingFetchedIsBlocked(t)
<1> DEFINE first == [slice |-> Recover(s), deferred |-> FALSE]
           size(r) == Cardinality(Active(r.slice.work))
           most == size(first)
           after == RunOf("defer", <<>>, first, most)
           Good(r) == Follows(r.slice, s, mempool)
           G == {n \in 0 .. most : /\ Good(after[n])
                                   /\ PressureResolved(after[n]) \/ size(after[n]) + n <= most}
<1>0. \A r : Good(r) => size(r) \in Nat
  <2>1. \A r : Good(r) => IsFiniteSet(Active(r.slice.work))
    BY DEF Follows, LocalOK, SliceOK, WindowForm
  <2> QED
    BY <2>1, FS_CardinalityType
<1>1. Good(first)
  <2>1. first.slice = Recover(s)
    OBVIOUS
  <2> HIDE DEF first
  <2> QED
    BY <2>1, RecoverFollows
<1>2. most \in Nat
  BY <1>0, <1>1
<1>3. \A x : LoopTurn("defer", <<>>, x) = DeferTurn(x)
  BY DEF LoopTurn
<1>4. ResolveCapacityPressure(s) = after[most].slice
  <2> DEFINE turns == LET run[n \in 0 .. most] == IF n = 0 THEN first ELSE DeferTurn(run[n - 1])
                      IN  run
  <2>1. ResolveCapacityPressure(s) = turns[most].slice
    BY DEF ResolveCapacityPressure
  <2>2. turns = after
    <3> HIDE DEF first, most
    <3> QED
      BY <1>3 DEF RunOf, Loop
  <2> QED
    BY <2>1, <2>2
<1>5. size(first) + 0 <= most
  <2> HIDE DEF first
  <2> QED
    BY <1>2
<1> HIDE DEF most, first
<1>6. /\ after[0] = first
      /\ \A n \in 1 .. most : after[n] = LoopTurn("defer", <<>>, after[n - 1])
  BY <1>2, RunsOn
<1> HIDE DEF after
<1>7. 0 \in G
  BY <1>1, <1>2, <1>5, <1>6
<1>8. ASSUME NEW n \in 1 .. most, n - 1 \in G PROVE n \in G
  <2> DEFINE r == after[n - 1]
  <2>1. /\ Good(r) /\ n \in 0 .. most
        /\ PressureResolved(r) \/ size(r) + (n - 1) <= most
    BY <1>2, <1>8
  <2>2. after[n] = DeferTurn(r)
    BY <1>3, <1>6
  <2> HIDE DEF r
  <2>3. CASE PressureResolved(r)
    <3>1. after[n] = r
      BY <2>2, <2>3 DEF DeferTurn
    <3> QED
      BY <2>1, <2>3, <3>1
  <2>4. CASE ~ PressureResolved(r)
    <3> DEFINE d == DeferTurn(r)
    <3>1. Good(d) /\ size(d) \in Nat /\ size(r) \in Nat /\ size(d) < size(r)
      BY <2>1, <2>4, DeferTurnOK
    <3> HIDE DEF d, size
    <3>2. size(d) + n <= most
      BY <1>2, <2>1, <2>4, <3>1
    <3> QED
      BY <2>1, <2>2, <3>1, <3>2 DEF d
  <2> QED
    BY <2>3, <2>4
<1>9. most \in G
  <2>1. most \in 0 .. most
    BY <1>2
  <2> HIDE DEF G
  <2> QED
    BY <1>2, <1>7, <1>8, <2>1, InductionTo
<1> DEFINE z == after[most]
<1>10. Good(z) /\ (PressureResolved(z) \/ size(z) + most <= most)
  BY <1>9
<1> HIDE DEF z
<1>11. SliceOK(z.slice.work)
  BY <1>10 DEF Follows, LocalOK
<1>12. PressureResolved(z)
  <2> SUFFICES ASSUME ~ PressureResolved(z) PROVE FALSE
    OBVIOUS
  <2>1. size(z) = 0
    <3>1. size(z) \in Nat /\ size(z) + most <= most
      BY <1>0, <1>10
    <3> HIDE DEF size
    <3> QED
      BY <1>2, <3>1
  <2>2. IsFiniteSet(Active(z.slice.work))
    BY <1>11 DEF SliceOK, WindowForm
  <2>3. Active(z.slice.work) = {}
    BY <2>1, <2>2, FS_EmptySet
  <2>4. CapacityVictim(z.slice.work) = {}
    BY <1>11, <2>3, CapacityVictimOK
  <2> QED
    BY <2>4 DEF PressureResolved
<1>13. NothingFetchedIsBlocked(z.slice)
  BY <1>11, <1>12, ResolvedLosesNothing
<1> QED
  BY <1>4, <1>10, <1>13 DEF z

\* Before what is known is stored, nothing that was fetched is blocked.
LEMMA SettleSliceOK ==
    ASSUME NEW s, LocalOK(s, members)
    PROVE  LET t == SettleSlice(s) IN Follows(t, s, members) /\ NothingFetchedIsBlocked(t)
<1> DEFINE a == Classify(s)
           b == BlockOne(a)
           c == DeferExhausted(b)
           d == ResolveCapacityPressure(c)
           t == Activate(d)
<1>1. Follows(a, s, members) /\ LocalOK(a, members)
  BY ClassifyFollows DEF Follows
<1> HIDE DEF a
<1>2. Follows(b, a, members) /\ LocalOK(b, members)
  <2> DEFINE q == BlockOneFact(a.work)
  <2>0. SliceOK(a.work)
    BY <1>1 DEF LocalOK
  <2>1. SameWindow(q, a.work) /\ \A txids : FactsOK(a.work, txids) => FactsOK(q, txids)
    BY <2>0, BlockOneSame
  <2>2. b = [a EXCEPT !.work = q]
    BY DEF BlockOne
  <2> HIDE DEF q, b
  <2>3. LessWork(q, a.work, TxidsOf(members))
    BY <2>1, SameWindowIsLess
  <2> QED
    BY <1>1, <2>2, <2>3, WorkReplaced DEF Follows
<1> HIDE DEF b
<1>3. Follows(c, b, members) /\ LocalOK(c, members)
  <2> DEFINE q == Discard(b.work, Exhausted(b.work))
  <2>0. SliceOK(b.work)
    BY <1>2 DEF LocalOK
  <2>1. LessWork(q, b.work, TxidsOf(members))
    BY <2>0, DiscardLess
  <2>2. c = [b EXCEPT !.work = q]
    BY DEF DeferExhausted
  <2> HIDE DEF q, c
  <2> QED
    BY <1>2, <2>1, <2>2, WorkReplaced DEF Follows
<1> HIDE DEF c
<1>4. Follows(d, c, members) /\ LocalOK(d, members) /\ NothingFetchedIsBlocked(d)
  BY <1>3, ResolveFollows DEF Follows
<1> HIDE DEF d
<1>5. Follows(t, d, members)
  BY <1>4, ActivateFollows
<1>6. NothingFetchedIsBlocked(t)
  <2> DEFINE p == d.work
             q == ActivateWaiting(p, Txids)
  <2>1. SliceOK(p)
    BY <1>4 DEF LocalOK
  <2>2. /\ \E N \in SUBSET ToSet(p.queued) : Entered(q, p, N)
        /\ \A o \in DOMAIN q.facts \ DOMAIN p.facts : NewFact(q.facts[o], o, Txids)
    BY <2>1, ActivateWaitingOK
  <2>3. t.work = q /\ t.outputs = d.outputs /\ t.scripts = d.scripts
    <3>1. LocalForm(d) /\ t = [d EXCEPT !.work = q]
      BY <1>4 DEF LocalOK, Activate
    <3> HIDE DEF t, q
    <3> QED
      BY <3>1 DEF LocalForm
  <2> HIDE DEF t, p, q
  <2>4. q.raw = p.raw /\ \A o \in DOMAIN p.facts : q.facts[o] = p.facts[o]
    BY <2>2 DEF Entered
  <2>5. \A o \in DOMAIN q.facts : q.facts[o].kind = "blocked" =>
          o \in DOMAIN p.facts /\ q.facts[o] = p.facts[o]
    BY <2>2, <2>4, NewFactOK
  <2>6. ~ TransientBlocked(p, d.outputs, d.scripts)
    BY <1>4 DEF NothingFetchedIsBlocked, p
  <2>7. ~ TransientBlocked(q, d.outputs, d.scripts)
    BY <2>4, <2>5, <2>6 DEF TransientBlocked
  <2> QED
    BY <2>3, <2>7 DEF NothingFetchedIsBlocked
<1> HIDE DEF t
<1>7. Follows(t, s, members)
  <2>1. Follows(b, s, members)
    BY <1>1, <1>2, FollowsAgain
  <2>2. Follows(c, s, members)
    BY <1>3, <2>1, FollowsAgain
  <2>3. Follows(d, s, members)
    BY <1>4, <2>2, FollowsAgain
  <2> QED
    BY <1>5, <2>3, FollowsAgain
<1>8. SettleSlice(s) = t
  BY DEF SettleSlice, t, d, c, b, a
<1> QED
  BY <1>6, <1>7, <1>8

-----------------------------------------------------------------------------
(* The end of a slice *)

LEMMA EmptySliceOK ==
    /\ SliceOK(EmptySlice) /\ Candidates(EmptySlice) = {} /\ EmptySlice.raw = {}
    /\ DOMAIN EmptySlice.facts = {} /\ \A txids : FactsOK(EmptySlice, txids)
<1> DEFINE p == EmptySlice
<1>1. /\ p = [queued |-> <<>>, turn |-> <<>>, cursor |-> <<>>, facts |-> <<>>,
              deferred |-> {}, raw |-> {}]
      /\ p.queued = <<>> /\ p.turn = <<>> /\ p.cursor = <<>> /\ p.facts = <<>>
      /\ p.deferred = {} /\ p.raw = {}
  BY DEF EmptySlice
<1>2. DOMAIN <<>> = {} /\ <<>> \in [{} -> Nat] /\ <<>> = [o \in {} |-> <<>>[o]] /\ <<>> \in Seq(Variants)
  OBVIOUS
<1> HIDE DEF p
<1>3. SliceForm(p)
  BY <1>1 DEF SliceForm
<1>4. Active(p) = {} /\ DOMAIN p.facts = {}
  BY <1>1, <1>2 DEF Active
<1>5. Candidates(p) = {}
  <2>1. ToSet(<<>>) = {}
    BY <1>2 DEF ToSet
  <2> QED
    BY <1>1, <1>4, <2>1 DEF Candidates
<1>6. IsFiniteSet({}) /\ Cardinality({}) = 0
  BY FS_EmptySet
<1>7. WindowForm(p)
  <2>1. UNION {Required(v) : v \in Active(p)} = {}
    BY <1>4
  <2>2. p.turn \in [Active(p) -> Nat] /\ p.cursor \in [Active(p) -> Nat]
    BY <1>1, <1>2, <1>4
  <2>3. p.facts = [o \in DOMAIN p.facts |-> p.facts[o]]
    BY <1>1, <1>2, <1>4
  <2>4. p.queued \in Seq(Variants)
    BY <1>1, <1>2
  <2>5. Active(p) \subseteq Variants /\ IsFiniteSet(Active(p))
    BY <1>4, <1>6
  <2> QED
    BY <1>3, <1>4, <2>1, <2>2, <2>3, <2>4, <2>5 DEF WindowForm
<1>8. PendingBytes(p) <= MaxPendingBytes
  <2>1. ReadyFacts(p) = {}
    BY <1>4 DEF ReadyFacts
  <2>2. Bytes({}) = 0
    BY <1>6, BytesType
  <2>3. MaxPendingBytes \in Nat
    BY PendingSliceAssumption
  <2> QED
    BY <2>1, <2>2, <2>3 DEF PendingBytes
<1>9. WindowLimits(p)
  BY <1>4, <1>6, <1>8 DEF WindowLimits
<1>10. \A txids : FactsOK(p, txids)
  BY <1>4 DEF FactsOK
<1> QED
  BY <1>1, <1>4, <1>5, <1>7, <1>9, <1>10 DEF SliceOK, p

\* What FetchedScriptsAreUsed says of a slice.
UsesFetched(p, justOutputs, justScripts, keptOutputs, keptScripts) ==
    \A o \in DOMAIN p.facts :
        p.facts[o].kind = "blocked" =>
          IF p.facts[o].source = "parent"
          THEN o \notin NoScript /\ ParentOf[o] \in TxidsOf(justOutputs)
               => ParentOf[o] \in TxidsOf(keptOutputs \cup p.raw)
          ELSE o \in justScripts => o \in keptScripts

LEMMA HydrateUses ==
    ASSUME NEW p, SliceOK(p), NEW O, NEW S, ~ TransientBlocked(p, O, S), NEW kept, NEW scripts
    PROVE  UsesFetched(Hydrate(p, p.raw \cup kept, scripts), O, S, kept, scripts)
<1> DEFINE q == Hydrate(p, p.raw \cup kept, scripts)
           K == Known(p, p.raw \cup kept, scripts)
<1>1. Stowed(q, p, K) /\ K \subseteq Waiting(p)
  BY HydrateStows
<1>2. q.raw = p.raw /\ DOMAIN q.facts = DOMAIN p.facts
  BY <1>1 DEF Stowed, Refacted
<1>3. \A o \in K : IF p.facts[o].source = "parent"
                   THEN ParentOf[o] \in TxidsOf(kept \cup p.raw) ELSE o \in scripts
  BY DEF Known, TxidsOf
<1> HIDE DEF q, K
<1>4. ASSUME NEW o \in DOMAIN p.facts, q.facts[o].kind = "blocked"
      PROVE  IF q.facts[o].source = "parent"
             THEN o \notin NoScript /\ ParentOf[o] \in TxidsOf(O)
                  => ParentOf[o] \in TxidsOf(kept \cup q.raw)
             ELSE o \in S => o \in scripts
  <2>1. CASE o \in K
    <3>1. q.facts[o] = Blocked(p.facts[o].source)
      BY <1>1, <1>4, <2>1 DEF Stowed, Ready
    <3>2. q.facts[o].source = p.facts[o].source
      BY <3>1 DEF Blocked
    <3> QED
      BY <1>2, <1>3, <2>1, <3>2
  <2>2. CASE o \notin K
    <3>1. q.facts[o] = p.facts[o]
      BY <1>1, <2>2 DEF Stowed
    <3>2. ~ IF p.facts[o].source = "parent"
            THEN /\ o \notin NoScript
                 /\ ParentOf[o] \notin TxidsOf(p.raw)
                 /\ ParentOf[o] \in TxidsOf(O)
            ELSE o \in S
      BY <1>4, <3>1 DEF TransientBlocked, TxidsOf
    <3>3. TxidsOf(p.raw) \subseteq TxidsOf(kept \cup p.raw)
      BY DEF TxidsOf
    <3> QED
      BY <1>2, <3>1, <3>2, <3>3
  <2> QED
    BY <2>1, <2>2
<1>5. UsesFetched(q, O, S, kept, scripts)
  BY <1>2, <1>4 DEF UsesFetched
<1> QED
  BY <1>5 DEF q

\* A slice of the current generation may go on with this local state.
AskOK(s, tried, gone) ==
    /\ LocalOK(s, members) /\ s.generation = generation
    /\ tried \subseteq members
    /\ Accounted(tried, DOMAIN classified \cup DOMAIN s.results, Candidates(s.work), gone)

LEMMA AskFollows ==
    ASSUME NEW s, NEW t, NEW tried, NEW gone, AskOK(s, tried, gone),
           Follows(t, s, members), Keeps(t, s)
    PROVE  AskOK(t, tried, gone)
BY DEF AskOK, Follows, Keeps, Accounted

\* A result calls no output of a mempool transaction missing.
NullStep ==
    \A v \in DOMAIN classified' :
        v \notin DOMAIN classified \/ classified'[v] # classified[v] =>
          \A o \in classified'[v] : ParentOf[o] \notin Txids

\* The inductive invariant, but for the count of requests.
SliceInv ==
    /\ generation \in Nat
    /\ members \subseteq Variants /\ IsFiniteSet(members)
    /\ OnlyMembersKept
    /\ SliceOK(pending) /\ FactsOK(pending, TxidsOf(members))
    /\ SliceOK(slice.work)
    /\ slice.pc = "idle" => BetweenSlices
    /\ slice.pc # "idle" => /\ slice.generation \in 0 .. generation
                            /\ Current => WaitingOK(slice)
                            /\ ~ Current => StaleOK

\* The inductive invariant.
PipelineInv == SliceInv /\ RequestsCounted

LEMMA WaitOK ==
    ASSUME SliceInv, NEW s, NEW pc \in {"parents", "confirmed"}, NEW wave, NEW tried, NEW raw,
           AskOK(s, tried, givenUp \cup raw), WaveFor(wave, s.work, pc),
           Wait(s, pc, wave, tried, raw)
    PROVE  SliceInv' /\ NullStep
<1> DEFINE t == [s EXCEPT !.pc = pc, !.requests = wave.selected, !.work = wave.slice]
<1>1. /\ slice' = t /\ attempted' = tried /\ givenUp' = givenUp \cup raw
      /\ generation' = generation /\ members' = members /\ classified' = classified
      /\ pending' = pending /\ outputs' = outputs
  BY DEF Wait
<1>2. LocalOK(s, members) /\ LocalForm(s) /\ SliceOK(s.work)
  BY DEF AskOK, LocalOK
<1>3. /\ LocalForm(t) /\ t.pc = pc /\ t.requests = wave.selected /\ t.work = wave.slice
      /\ t.outputs = s.outputs /\ t.results = s.results /\ t.generation = s.generation
  <2> DEFINE S == wave.selected
             q == wave.slice
  <2> HIDE DEF S, q
  <2>1. t = [s EXCEPT !.pc = pc, !.requests = S, !.work = q]
    BY DEF S, q
  <2> HIDE DEF t
  <2> QED
    BY <1>2, <2>1 DEF LocalForm, S, q
<1> HIDE DEF t
<1>4. Turned(wave.slice, s.work) /\ wave.selected \subseteq Askable(s.work, pc)
  BY DEF WaveFor
<1>5. /\ SameWindow(wave.slice, s.work)
      /\ \A txids : FactsOK(s.work, txids) => FactsOK(wave.slice, txids)
  BY <1>2, <1>4, TurnedSame
<1>6. SliceOK(t.work) /\ Candidates(t.work) = Candidates(s.work)
  BY <1>3, <1>5 DEF SameWindow
<1>7. LocalOK(t, members)
  BY <1>2, <1>3, <1>5, <1>6 DEF LocalOK
<1>8. pc = "confirmed" => t.requests \subseteq Asked(t.work)
  <2>1. Askable(wave.slice, pc) = Askable(s.work, pc)
    BY <1>4, TurnedAskable
  <2> QED
    BY <1>3, <1>4, <2>1 DEF Askable, Asked
<1>9. Taken(t) = Candidates(s.work)
  BY <1>3, <1>6 DEF Taken
<1>10. WaitingOK(slice)'
  BY <1>1, <1>3, <1>7, <1>8, <1>9 DEF WaitingOK, AskOK
<1>11. slice'.generation = generation' /\ Current'
  BY <1>1, <1>3 DEF AskOK, Current
<1>12. slice'.pc # "idle"
  BY <1>1, <1>3
<1>13. /\ generation' \in Nat /\ members' \subseteq Variants /\ IsFiniteSet(members')
       /\ OnlyMembersKept' /\ SliceOK(pending') /\ FactsOK(pending', TxidsOf(members'))
  BY <1>1 DEF SliceInv, OnlyMembersKept, AskOK
<1>14. SliceOK(slice'.work)
  BY <1>1, <1>6
<1>15. slice'.generation \in 0 .. generation'
  BY <1>11, <1>13
<1>16. SliceInv'
  BY <1>10, <1>11, <1>12, <1>13, <1>14, <1>15 DEF SliceInv
<1>17. NullStep
  BY <1>1 DEF NullStep
<1> QED
  BY <1>16, <1>17

LEMMA IdleForm == Idle.pc = "idle" /\ Idle.work = EmptySlice
BY DEF Idle

LEMMA StoreOK ==
    ASSUME SliceInv, NEW s, NEW tried, NEW raw,
           AskOK(s, tried, givenUp \cup raw), StoreSlice(s, tried, raw)
    PROVE  SliceInv' /\ NullStep
<1> DEFINE t == SettleSlice(s)
           h == Hydrate(t.work, t.work.raw \cup outputs', confirmed')
           lost == Candidates(s.work) \ (Candidates(t.work) \cup DOMAIN t.results)
<1>1. Follows(t, s, members) /\ NothingFetchedIsBlocked(t)
  BY SettleSliceOK DEF AskOK
<1>2. /\ outputs' \subseteq outputs \cup t.outputs
      /\ classified' = Merge(classified, t.results)
      /\ pending' = RestOf(h) /\ attempted' = tried
      /\ status' = Disposition(t.systemic, Unstarted(classified', tried) \cup Candidates(pending'))
      /\ givenUp' = givenUp \cup raw \cup lost
      /\ fetched' = [outputs |-> t.outputs, scripts |-> t.scripts]
      /\ slice' = Idle /\ generation' = generation /\ members' = members
  BY DEF StoreSlice, Store
<1> HIDE DEF t
<1>3. LocalOK(t, members) /\ SliceOK(t.work) /\ FactsOK(t.work, TxidsOf(members))
  BY <1>1 DEF Follows, LocalOK
<1>4. SameWindow(h, t.work) /\ FactsOK(h, TxidsOf(members))
  BY <1>3, HydrateLess DEF LessWork
<1>5. UsesFetched(h, t.outputs, t.scripts, outputs', confirmed')
  <2>1. ~ TransientBlocked(t.work, t.outputs, t.scripts)
    BY <1>1 DEF NothingFetchedIsBlocked
  <2> QED
    BY <1>3, <2>1, HydrateUses
<1> HIDE DEF h
<1>6. pending' = h \/ (pending' = EmptySlice /\ Candidates(h) = {})
  BY <1>2 DEF RestOf
<1>7. /\ SliceOK(pending') /\ FactsOK(pending', TxidsOf(members))
      /\ Candidates(pending') = Candidates(t.work)
      /\ UsesFetched(pending', t.outputs, t.scripts, outputs', confirmed')
  <2>1. CASE pending' = h
    BY <1>4, <1>5, <2>1 DEF SameWindow
  <2>2. CASE pending' = EmptySlice /\ Candidates(h) = {}
    <3>1. UsesFetched(pending', t.outputs, t.scripts, outputs', confirmed')
      BY <2>2, EmptySliceOK DEF UsesFetched
    <3> QED
      BY <1>4, <2>2, <3>1, EmptySliceOK DEF SameWindow
  <2> QED
    BY <1>6, <2>1, <2>2
<1>8. /\ DOMAIN classified' = DOMAIN classified \cup DOMAIN t.results
      /\ \A v \in DOMAIN classified' :
           classified'[v] = IF v \in DOMAIN t.results THEN t.results[v] ELSE classified[v]
  BY <1>2 DEF Merge
<1>9. OnlyMembersKept'
  BY <1>2, <1>3, <1>7, <1>8 DEF OnlyMembersKept, SliceInv, LocalOK, AskOK
<1>10. Accounted(attempted', DOMAIN classified', Candidates(pending'), givenUp')
  <2>1. Accounted(tried, DOMAIN classified \cup DOMAIN s.results, Candidates(s.work),
                  givenUp \cup raw)
    BY DEF AskOK
  <2>2. /\ Candidates(t.work) \subseteq Candidates(s.work)
        /\ DOMAIN s.results \subseteq DOMAIN t.results
    BY <1>1 DEF Follows
  <2> QED
    BY <1>2, <1>7, <1>8, <2>1, <2>2 DEF Accounted
<1>11. NothingLost'
  <2>1. ASSUME status' = "complete" PROVE members' \subseteq DOMAIN classified' \cup givenUp'
    <3>1. Unstarted(classified', tried) = {} /\ Candidates(pending') = {}
      BY <1>2, <2>1 DEF Disposition
    <3>2. \A v \in members \ tried : v \in DOMAIN classified'
      BY <3>1 DEF Unstarted
    <3> QED
      BY <1>2, <1>10, <3>1, <3>2 DEF Accounted
  <2> QED
    BY <1>10, <2>1 DEF NothingLost, Accounted
<1>12. FetchedScriptsAreUsed'
  <2>1. fetched'.outputs = t.outputs /\ fetched'.scripts = t.scripts
    BY <1>2
  <2> QED
    BY <1>7, <2>1 DEF FetchedScriptsAreUsed, UsesFetched, TxidsOf
<1>13. BetweenSlices'
  BY <1>2, <1>10, <1>11, <1>12 DEF BetweenSlices
<1>14. slice'.pc = "idle" /\ SliceOK(slice'.work)
  BY <1>2, IdleForm, EmptySliceOK
<1>15. /\ generation' \in Nat /\ members' \subseteq Variants /\ IsFiniteSet(members')
  BY <1>2 DEF SliceInv
<1>16. SliceInv'
  BY <1>2, <1>7, <1>9, <1>13, <1>14, <1>15 DEF SliceInv
<1>17. NullStep
  <2>1. \A v \in DOMAIN t.results : \A o \in t.results[v] : ParentOf[o] \notin Txids
    BY <1>3 DEF LocalOK, Txids, TxidsOf
  <2> QED
    BY <1>8, <2>1 DEF NullStep
<1> QED
  BY <1>16, <1>17

LEMMA AskConfirmedOK ==
    ASSUME SliceInv, NEW s, NEW tried, NEW raw,
           AskOK(s, tried, givenUp \cup raw), AskConfirmed(s, tried, raw)
    PROVE  SliceInv' /\ NullStep
<1> DEFINE wave == NextConfirmedWave(s.work, members)
<1>1. WaveFor(wave, s.work, "confirmed")
  BY NextConfirmedWaveOK DEF AskOK, LocalOK
<1>2. \/ Wait(s, "confirmed", wave, tried, raw)
      \/ StoreSlice(s, tried, raw)
  BY DEF AskConfirmed, AskConfirmedWave
<1> HIDE DEF wave
<1> QED
  BY <1>1, <1>2, WaitOK, StoreOK

LEMMA AskParentsOK ==
    ASSUME SliceInv, NEW s, NEW tried, NEW raw,
           AskOK(s, tried, givenUp \cup raw), AskParents(s, tried, raw)
    PROVE  SliceInv' /\ NullStep
<1> DEFINE a == HydrateFromCaches(s)
           b == Classify(a)
           c == Activate(b)
           wave == NextParentWave(c.work, members)
           gone == givenUp \cup raw
<1>1. AskOK(a, tried, gone)
  <2>1. Follows(a, s, members) /\ Keeps(a, s)
    BY HydrateFromCachesFollows DEF AskOK
  <2> HIDE DEF a
  <2> QED
    BY <2>1, AskFollows
<1> HIDE DEF a
<1>2. AskOK(b, tried, gone)
  <2>1. Follows(b, a, members) /\ Keeps(b, a)
    BY <1>1, ClassifyFollows DEF AskOK
  <2> HIDE DEF b
  <2> QED
    BY <1>1, <2>1, AskFollows
<1> HIDE DEF b
<1>3. AskOK(c, tried, gone)
  <2>1. Follows(c, b, members) /\ Keeps(c, b)
    BY <1>2, ActivateFollows DEF AskOK
  <2> HIDE DEF c
  <2> QED
    BY <1>2, <2>1, AskFollows
<1>4. AskParentsOf(c, tried, raw)
  BY DEF AskParents, a, b, c
<1> HIDE DEF c
<1>5. WaveFor(wave, c.work, "parents")
  BY <1>3, NextParentWaveOK DEF AskOK, LocalOK
<1>6. \/ Wait(c, "parents", wave, tried, raw)
      \/ AskConfirmed(c, tried, raw)
  BY <1>4 DEF AskParentsOf, AskParentWave
<1> HIDE DEF wave
<1> QED
  BY <1>3, <1>5, <1>6, WaitOK, AskConfirmedOK

-----------------------------------------------------------------------------
(* Actions *)

LEMMA NewSliceOK ==
    ASSUME NEW found \in Seq(Variants), NEW txids
    PROVE  LET q == NewSlice(found, txids)
           IN  /\ SliceOK(q) /\ FactsOK(q, txids)
               /\ Candidates(q) = ToSet(found) /\ q.raw = ToSet(found)
<1> DEFINE e == EmptySlice
           all == ToSet(found)
           p == [e EXCEPT !.queued = found, !.raw = all]
           q == NewSlice(found, txids)
<1>1. q = ActivateWaiting(p, txids)
  BY DEF NewSlice
<1>2. /\ SliceOK(e) /\ SliceForm(e) /\ Candidates(e) = {} /\ DOMAIN e.facts = {}
  BY EmptySliceOK DEF SliceOK, WindowForm
<1> HIDE DEF all, e
<1>3. /\ SliceForm(p) /\ p.queued = found /\ p.raw = all
      /\ p.turn = e.turn /\ p.cursor = e.cursor /\ p.facts = e.facts
  <2>1. p = [e EXCEPT !.queued = found, !.raw = all]
    OBVIOUS
  <2> HIDE DEF p
  <2> QED
    BY <1>2, <2>1 DEF SliceForm
<1> HIDE DEF p, q
<1>4. Active(p) = Active(e) /\ Active(p) = {} /\ Candidates(p) = all
  BY <1>2, <1>3 DEF Active, Candidates, all
<1>5. WindowForm(p)
  BY <1>2, <1>3, <1>4 DEF SliceOK, WindowForm
<1>6. ReadyFacts(p) = ReadyFacts(e)
  BY <1>3 DEF ReadyFacts
<1>7. WindowLimits(p)
  BY <1>2, <1>3, <1>4, <1>6 DEF SliceOK, WindowLimits, PendingBytes
<1>8. SliceOK(p)
  BY <1>5, <1>7 DEF SliceOK
<1>9. /\ SliceOK(q)
      /\ \E N \in SUBSET ToSet(p.queued) : Entered(q, p, N)
      /\ \A o \in DOMAIN q.facts \ DOMAIN p.facts : NewFact(q.facts[o], o, txids)
  BY <1>1, <1>8, ActivateWaitingOK
<1>10. PICK N \in SUBSET ToSet(p.queued) : Entered(q, p, N)
  BY <1>9
<1>11. FactsOK(p, txids)
  BY <1>2, <1>3 DEF FactsOK
<1>12. FactsOK(q, txids)
  BY <1>9, <1>10, <1>11, EnteredFacts
<1>13. Candidates(q) = all /\ q.raw = all
  BY <1>3, <1>4, <1>10 DEF Entered
<1> QED
  BY <1>9, <1>12, <1>13 DEF q, all

LEMMA NextMembershipsOK ==
    ASSUME generation \in Nat, NEW m \in NextMemberships
    PROVE  m \subseteq Variants /\ IsFiniteSet(m)
<1>1. PICK h \in Collections : Len(h) > generation /\ m = h[generation + 1]
  BY DEF NextMemberships
<1>2. h \in Seq(SUBSET Variants)
  BY <1>1, PipelineAssumption
<1>3. generation + 1 \in 1 .. Len(h) /\ DOMAIN h = 1 .. Len(h)
  BY <1>1, <1>2
<1>4. m \in SUBSET Variants
  BY <1>1, <1>2, <1>3
<1>5. m \in ToSet(h)
  BY <1>1, <1>3 DEF ToSet
<1>6. m \in UNION {ToSet(g) : g \in Collections}
  BY <1>5
<1> QED
  BY <1>4, <1>6, PipelineAssumption

LEMMA InstallOK ==
    ASSUME PipelineInv, InstallSnapshot
    PROVE  PipelineInv'
<1>1. /\ generation' = generation + 1 /\ members' \in NextMemberships
      /\ classified' = [v \in DOMAIN classified \cap members' |-> classified[v]]
      /\ outputs' = outputs \cap members' /\ attempted' = {} /\ retryUsed' = {}
      /\ pending' = EmptySlice /\ status' = "continue" /\ givenUp' = {}
      /\ rawRequests' = [v \in Variants |-> 0] /\ slice' = slice
  BY DEF InstallSnapshot
<1>2. SliceInv /\ generation \in Nat /\ generation' \in Nat
  BY <1>1 DEF PipelineInv, SliceInv
<1>3. members' \subseteq Variants /\ IsFiniteSet(members')
  BY <1>1, <1>2, NextMembershipsOK
<1>4. SliceOK(pending') /\ FactsOK(pending', TxidsOf(members')) /\ Candidates(pending') = {}
  BY <1>1, EmptySliceOK
<1>5. OnlyMembersKept'
  <2>1. DOMAIN classified' = DOMAIN classified \cap members'
    BY <1>1
  <2> QED
    BY <1>1, <1>4, <2>1 DEF OnlyMembersKept
<1>6. SliceOK(slice'.work)
  BY <1>1, <1>2 DEF SliceInv
<1>7. ASSUME slice'.pc = "idle" PROVE BetweenSlices'
  <2>1. slice' = Idle
    BY <1>1, <1>2, <1>7 DEF SliceInv, BetweenSlices
  <2>2. Accounted(attempted', DOMAIN classified', Candidates(pending'), givenUp')
    BY <1>1, <1>4 DEF Accounted
  <2>3. NothingLost'
    BY <1>1, <1>4 DEF NothingLost
  <2>4. DOMAIN pending'.facts = {}
    BY <1>1, EmptySliceOK
  <2>5. FetchedScriptsAreUsed'
    BY <2>4 DEF FetchedScriptsAreUsed
  <2> QED
    BY <2>1, <2>2, <2>3, <2>5 DEF BetweenSlices
<1>8. ASSUME slice'.pc # "idle"
      PROVE  slice'.generation \in 0 .. generation' /\ ~ Current' /\ StaleOK'
  <2>1. slice.generation \in 0 .. generation
    BY <1>1, <1>2, <1>8 DEF SliceInv
  <2>2. slice'.generation \in 0 .. generation' /\ slice'.generation # generation'
    BY <1>1, <1>2, <2>1
  <2> QED
    BY <1>1, <2>2 DEF Current, StaleOK
<1>9. RequestsCounted'
  <2>1. rawRequests' \in [Variants -> Nat] /\ \A v \in Variants : rawRequests'[v] = 0
    BY <1>1
  <2> QED
    BY <2>1 DEF RequestsCounted
<1>10. SliceInv'
  BY <1>2, <1>3, <1>4, <1>5, <1>6, <1>7, <1>8 DEF SliceInv
<1> QED
  BY <1>9, <1>10 DEF PipelineInv

LEMMA SupersededOK ==
    ASSUME PipelineInv, Superseded
    PROVE  PipelineInv' /\ NullStep
<1>1. /\ slice.pc # "idle" /\ ~ Current /\ slice' = Idle
      /\ generation' = generation /\ members' = members /\ classified' = classified
      /\ attempted' = attempted /\ retryUsed' = retryUsed /\ pending' = pending
      /\ outputs' = outputs /\ confirmed' = confirmed /\ status' = status
      /\ rawRequests' = rawRequests /\ givenUp' = givenUp /\ fetched' = fetched
  BY DEF Superseded, workVars
<1>2. SliceInv /\ StaleOK
  BY <1>1 DEF PipelineInv, SliceInv
<1>3. /\ generation' \in Nat /\ members' \subseteq Variants /\ IsFiniteSet(members')
      /\ SliceOK(pending') /\ FactsOK(pending', TxidsOf(members'))
  BY <1>1, <1>2 DEF SliceInv
<1>4. OnlyMembersKept'
  BY <1>1, <1>2 DEF SliceInv, OnlyMembersKept
<1>5. slice'.pc = "idle" /\ SliceOK(slice'.work)
  BY <1>1, IdleForm, EmptySliceOK
<1>6. /\ attempted' = {} /\ givenUp' = {} /\ status' = "continue"
      /\ Candidates(pending') = {} /\ DOMAIN pending'.facts = {}
  BY <1>1, <1>2, EmptySliceOK DEF StaleOK
<1>7. BetweenSlices'
  <2>1. NothingLost' /\ FetchedScriptsAreUsed'
    BY <1>6 DEF NothingLost, FetchedScriptsAreUsed
  <2>2. Accounted(attempted', DOMAIN classified', Candidates(pending'), givenUp')
    BY <1>6 DEF Accounted
  <2> QED
    BY <1>1, <2>1, <2>2 DEF BetweenSlices
<1>8. SliceInv'
  BY <1>3, <1>4, <1>5, <1>7 DEF SliceInv
<1>9. RequestsCounted'
  BY <1>1 DEF PipelineInv, RequestsCounted
<1>10. NullStep
  BY <1>1 DEF NullStep
<1> QED
  BY <1>8, <1>9, <1>10 DEF PipelineInv

\* A slice that has just begun.
Fresh(t, pc, g, requests, p) ==
    t = [pc |-> pc, generation |-> g, requests |-> requests, work |-> p,
         outputs |-> {}, scripts |-> {}, results |-> <<>>, systemic |-> FALSE]

LEMMA FreshRaw ==
    ASSUME NEW t, NEW g, NEW requests,
           t = [Idle EXCEPT !.pc = "raw", !.generation = g, !.requests = requests]
    PROVE  Fresh(t, "raw", g, requests, EmptySlice)
BY DEF Idle, Fresh

LEMMA FreshResumed ==
    ASSUME NEW t, NEW g, NEW p, t = [Idle EXCEPT !.generation = g, !.work = p]
    PROVE  Fresh(t, "idle", g, {}, p)
BY DEF Idle, Fresh

LEMMA FreshLocal ==
    ASSUME NEW pc, NEW requests, NEW g, NEW p, NEW mempool,
           SliceOK(p), FactsOK(p, TxidsOf(mempool)), Candidates(p) \subseteq mempool,
           NEW t, Fresh(t, pc, g, requests, p)
    PROVE  /\ LocalOK(t, mempool) /\ t.pc = pc /\ t.generation = g
           /\ t.requests = requests /\ t.work = p /\ DOMAIN t.results = {}
<1>1. LocalForm(t)
  BY DEF Fresh, LocalForm
<1>2. /\ t.pc = pc /\ t.generation = g /\ t.requests = requests
      /\ t.work = p /\ t.outputs = {} /\ t.results = <<>>
  BY DEF Fresh
<1>3. DOMAIN t.results = {}
  BY <1>2
<1>4. LocalOK(t, mempool)
  BY <1>1, <1>2, <1>3 DEF LocalOK
<1> QED
  BY <1>2, <1>3, <1>4

LEMMA BeginRawOK ==
    ASSUME PipelineInv, slice.pc = "idle", pending = EmptySlice,
           NEW candidates \in SUBSET (members \ attempted), BeginRaw(candidates)
    PROVE  PipelineInv' /\ NullStep
<1> DEFINE t == [Idle EXCEPT !.pc = "raw", !.generation = generation, !.requests = candidates]
<1>1. /\ slice' = t /\ attempted' = attempted \cup candidates
      /\ rawRequests' = [v \in Variants |-> IF v \in candidates THEN rawRequests[v] + 1
                                                               ELSE rawRequests[v]]
      /\ generation' = generation /\ members' = members /\ classified' = classified
      /\ retryUsed' = retryUsed /\ pending' = pending /\ outputs' = outputs
      /\ givenUp' = givenUp
  BY DEF BeginRaw
<1>2. SliceInv /\ BetweenSlices /\ RequestsCounted
  BY DEF PipelineInv, SliceInv
<1>3. Fresh(t, "raw", generation, candidates, EmptySlice)
  BY FreshRaw
<1> HIDE DEF t
<1>4. /\ LocalOK(t, members) /\ t.pc = "raw" /\ t.generation = generation
      /\ t.requests = candidates /\ t.work = EmptySlice /\ DOMAIN t.results = {}
  BY <1>3, FreshLocal, EmptySliceOK
<1>5. Accounted(attempted, DOMAIN classified, {}, givenUp)
  BY <1>2, EmptySliceOK DEF BetweenSlices
<1>6. Taken(t) = candidates
  BY <1>4, EmptySliceOK DEF Taken
<1>7. Accounted(attempted', DOMAIN classified' \cup DOMAIN t.results, Taken(t), givenUp')
  BY <1>1, <1>4, <1>5, <1>6 DEF Accounted
<1>8. WaitingOK(slice)' /\ Current' /\ slice'.pc # "idle"
  BY <1>1, <1>4, <1>7 DEF WaitingOK, Current
<1>9. /\ generation' \in Nat /\ members' \subseteq Variants /\ IsFiniteSet(members')
      /\ OnlyMembersKept' /\ SliceOK(pending') /\ FactsOK(pending', TxidsOf(members'))
  BY <1>1, <1>2 DEF SliceInv, OnlyMembersKept
<1>10. SliceOK(slice'.work)
  BY <1>1, <1>4, EmptySliceOK
<1>11. slice'.generation \in 0 .. generation'
  BY <1>1, <1>4, <1>9
<1>12. SliceInv'
  BY <1>8, <1>9, <1>10, <1>11 DEF SliceInv
<1>13. RequestsCounted'
  <2>1. /\ rawRequests \in [Variants -> Nat]
        /\ \A v \in Variants : rawRequests[v] <= (IF v \in retryUsed THEN 1 ELSE 0)
                                                   + (IF v \in attempted THEN 1 ELSE 0)
    BY <1>2 DEF RequestsCounted
  <2>2. rawRequests' \in [Variants -> Nat]
    BY <1>1, <2>1
  <2>3. ASSUME NEW v \in Variants
        PROVE  rawRequests'[v] <= (IF v \in retryUsed' THEN 1 ELSE 0)
                                    + (IF v \in attempted' THEN 1 ELSE 0)
    <3>1. rawRequests[v] \in Nat
      BY <2>1
    <3>2. CASE v \in candidates
      BY <1>1, <2>1, <3>1, <3>2
    <3>3. CASE v \notin candidates
      BY <1>1, <2>1, <3>1, <3>3
    <3> QED
      BY <3>2, <3>3
  <2> QED
    BY <2>2, <2>3 DEF RequestsCounted
<1>14. NullStep
  BY <1>1 DEF NullStep
<1> QED
  BY <1>12, <1>13, <1>14 DEF PipelineInv

LEMMA BeginSliceOK ==
    ASSUME PipelineInv, BeginSlice
    PROVE  PipelineInv' /\ NullStep
<1>1. slice.pc = "idle"
  BY DEF BeginSlice, MayStart
<1>2. CASE pending = EmptySlice /\ BeginRaw(NextCandidates)
  <2>1. NextCandidates \in SUBSET (members \ attempted)
    BY DEF NextCandidates
  <2> QED
    BY <1>1, <1>2, <2>1, BeginRawOK
<1>3. CASE ResumePending
  <2> DEFINE t == [Idle EXCEPT !.generation = generation, !.work = pending]
  <2>1. AskParents(t, attempted, {}) /\ retryUsed' = retryUsed /\ rawRequests' = rawRequests
    BY <1>3 DEF ResumePending
  <2>2. SliceInv /\ BetweenSlices /\ RequestsCounted
    BY <1>1 DEF PipelineInv, SliceInv
  <2>3. Fresh(t, "idle", generation, {}, pending)
    BY FreshResumed
  <2> HIDE DEF t
  <2>4. /\ LocalOK(t, members) /\ t.generation = generation
        /\ t.work = pending /\ DOMAIN t.results = {}
    <3>1. /\ SliceOK(pending) /\ FactsOK(pending, TxidsOf(members))
          /\ Candidates(pending) \subseteq members
      BY <2>2 DEF SliceInv, OnlyMembersKept
    <3> QED
      BY <2>3, <3>1, FreshLocal
  <2>5. AskOK(t, attempted, givenUp \cup {})
    BY <2>2, <2>4 DEF AskOK, BetweenSlices, SliceInv, OnlyMembersKept, Accounted
  <2>6. SliceInv' /\ NullStep
    BY <2>1, <2>2, <2>5, AskParentsOK
  <2>7. attempted' = attempted
    BY <2>1 DEF AskParents, AskParentsOf, AskParentWave, AskConfirmed, AskConfirmedWave,
                Wait, StoreSlice, Store
  <2>8. RequestsCounted'
    BY <2>1, <2>2, <2>7 DEF RequestsCounted
  <2> QED
    BY <2>6, <2>8 DEF PipelineInv
<1> QED
  BY <1>2, <1>3 DEF BeginSlice

LEMMA AskParentsTried ==
    ASSUME NEW s, NEW tried, NEW raw, AskParents(s, tried, raw)
    PROVE  attempted' = tried
BY DEF AskParents, AskParentsOf, AskParentWave, AskConfirmed, AskConfirmedWave, Wait, StoreSlice, Store

LEMMA AskConfirmedTried ==
    ASSUME NEW s, NEW tried, NEW raw, AskConfirmed(s, tried, raw)
    PROVE  attempted' = tried
BY DEF AskConfirmed, AskConfirmedWave, Wait, StoreSlice, Store

\* The slice in progress, when its answers are applied.
LEMMA CurrentSlice ==
    ASSUME PipelineInv, slice.pc # "idle", Current
    PROVE  /\ SliceInv /\ RequestsCounted /\ WaitingOK(slice)
           /\ LocalOK(slice, members) /\ LocalForm(slice) /\ SliceOK(slice.work)
           /\ slice.generation = generation /\ attempted \subseteq members
BY DEF PipelineInv, SliceInv, WaitingOK, LocalOK, Current, OnlyMembersKept

LEMMA SequenceOf ==
    ASSUME NEW S, IsFiniteSet(S), NEW found \in SetToSeqs(S)
    PROVE  found \in Seq(S) /\ ToSet(found) \subseteq S
<1>1. Cardinality(S) \in Nat
  BY FS_CardinalityType
<1>2. found \in [1 .. Cardinality(S) -> S]
  BY DEF SetToSeqs
<1>3. found \in Seq(S)
  BY <1>1, <1>2
<1>4. ToSet(found) \subseteq S
  BY <1>2 DEF ToSet
<1> QED
  BY <1>3, <1>4

\* The transactions that were found, as a slice.
LEMMA FoundSliceOK ==
    ASSUME NEW found \in Seq(Variants), NEW txids
    PROVE  LET q == IF found = <<>> THEN EmptySlice ELSE NewSlice(found, txids)
           IN  /\ SliceOK(q) /\ FactsOK(q, txids)
               /\ Candidates(q) = ToSet(found) /\ q.raw = ToSet(found)
<1>1. CASE found = <<>>
  <2>1. ToSet(<<>>) = {}
    BY DEF ToSet
  <2> QED
    BY <1>1, <2>1, EmptySliceOK
<1>2. CASE found # <<>>
  BY <1>2, NewSliceOK
<1> QED
  BY <1>1, <1>2

LEMMA RawAnsweredOK ==
    ASSUME PipelineInv, RawAnswered
    PROVE  PipelineInv' /\ NullStep
<1>1. slice.pc = "raw" /\ Current
  BY DEF RawAnswered
<1>2. PICK answer \in [slice.requests -> RawAnswer] :
        \E found \in SetToSeqs({v \in DOMAIN answer : answer[v] = "found"}) :
          LET failed == {v \in DOMAIN answer : answer[v] = "retry"}
              dropped == DOMAIN answer \ (ToSet(found) \cup Retried(failed))
              work == IF found = <<>> THEN EmptySlice ELSE NewSlice(found, Txids)
          IN  /\ retryUsed' = retryUsed \cup failed
              /\ AskParents([slice EXCEPT
                               !.work = work,
                               !.outputs = work.raw,
                               !.systemic = \E v \in DOMAIN answer :
                                              answer[v] = "systemic"],
                            attempted \ Retried(failed), dropped)
              /\ UNCHANGED rawRequests
  BY DEF RawAnswered
<1> DEFINE S == {v \in DOMAIN answer : answer[v] = "found"}
           failed == {v \in DOMAIN answer : answer[v] = "retry"}
           systemic == \E v \in DOMAIN answer : answer[v] = "systemic"
<1>3. PICK found \in SetToSeqs(S) :
        LET dropped == DOMAIN answer \ (ToSet(found) \cup Retried(failed))
            work == IF found = <<>> THEN EmptySlice ELSE NewSlice(found, Txids)
        IN  /\ retryUsed' = retryUsed \cup failed
            /\ AskParents([slice EXCEPT !.work = work, !.outputs = work.raw,
                                        !.systemic = systemic],
                          attempted \ Retried(failed), dropped)
            /\ UNCHANGED rawRequests
  BY <1>2
<1> DEFINE R == Retried(failed)
           dropped == DOMAIN answer \ (ToSet(found) \cup R)
           q == IF found = <<>> THEN EmptySlice ELSE NewSlice(found, Txids)
           O == q.raw
           t == [slice EXCEPT !.work = q, !.outputs = O, !.systemic = systemic]
<1>4. /\ retryUsed' = retryUsed \cup failed /\ rawRequests' = rawRequests
      /\ AskParents(t, attempted \ R, dropped)
  BY <1>3
<1>5. /\ DOMAIN answer = slice.requests /\ S \subseteq slice.requests
      /\ failed \subseteq slice.requests /\ S \cap failed = {} /\ R = failed \ retryUsed
  BY DEF Retried
<1>6. /\ SliceInv /\ RequestsCounted /\ WaitingOK(slice)
      /\ LocalOK(slice, members) /\ LocalForm(slice) /\ SliceOK(slice.work)
      /\ slice.generation = generation /\ attempted \subseteq members
  BY <1>1, CurrentSlice
<1> HIDE DEF S, failed, systemic, R
<1>7. Accounted(attempted, DOMAIN classified \cup DOMAIN slice.results, slice.requests, givenUp)
  BY <1>1, <1>6 DEF WaitingOK, Taken
<1>8. slice.requests \subseteq members /\ members \subseteq Variants /\ IsFiniteSet(members)
  BY <1>6, <1>7 DEF Accounted, SliceInv
<1>9. IsFiniteSet(S) /\ S \subseteq Variants
  BY <1>5, <1>8, FS_Subset
<1>10. found \in Seq(Variants) /\ ToSet(found) \subseteq S
  <2>1. found \in Seq(S) /\ ToSet(found) \subseteq S
    BY <1>9, SequenceOf
  <2> QED
    BY <1>9, <2>1
<1>11. SliceOK(q) /\ FactsOK(q, Txids) /\ Candidates(q) = ToSet(found) /\ O = ToSet(found)
  BY <1>10, FoundSliceOK
<1> HIDE DEF q, O
<1>12. /\ LocalForm(t) /\ t.work = q /\ t.outputs = O /\ t.results = slice.results
       /\ t.generation = slice.generation
  <2>1. t = [slice EXCEPT !.work = q, !.outputs = O, !.systemic = systemic]
    OBVIOUS
  <2> HIDE DEF t
  <2> QED
    BY <1>6, <2>1 DEF LocalForm
<1> HIDE DEF t
<1>13. Txids = TxidsOf(members)
  BY DEF Txids, TxidsOf
<1>14. LocalOK(t, members)
  BY <1>5, <1>6, <1>8, <1>10, <1>11, <1>12, <1>13 DEF LocalOK
<1>15. Accounted(attempted \ R, DOMAIN classified \cup DOMAIN t.results, Candidates(t.work),
                 givenUp \cup dropped)
  BY <1>5, <1>7, <1>10, <1>11, <1>12 DEF Accounted
<1>16. AskOK(t, attempted \ R, givenUp \cup dropped)
  BY <1>6, <1>12, <1>14, <1>15 DEF AskOK
<1> HIDE DEF dropped
<1>17. SliceInv' /\ NullStep
  BY <1>4, <1>6, <1>16, AskParentsOK
<1>18. attempted' = attempted \ R
  BY <1>4, AskParentsTried
<1>19. RequestsCounted'
  <2>1. /\ rawRequests \in [Variants -> Nat]
        /\ \A v \in Variants : rawRequests[v] <= (IF v \in retryUsed THEN 1 ELSE 0)
                                                   + (IF v \in attempted THEN 1 ELSE 0)
    BY <1>6 DEF RequestsCounted
  <2>2. failed \subseteq attempted
    BY <1>5, <1>7 DEF Accounted
  <2>3. ASSUME NEW v \in Variants
        PROVE  rawRequests'[v] <= (IF v \in retryUsed' THEN 1 ELSE 0)
                                    + (IF v \in attempted' THEN 1 ELSE 0)
    <3>1. rawRequests[v] \in Nat
      BY <2>1
    <3>2. CASE v \in R
      <4>1. v \in attempted /\ v \notin retryUsed /\ v \in retryUsed' /\ v \notin attempted'
        BY <1>4, <1>5, <1>18, <2>2, <3>2
      <4> QED
        BY <1>4, <2>1, <3>1, <4>1
    <3>3. CASE v \notin R
      <4>1. (v \in attempted' <=> v \in attempted) /\ (v \in retryUsed => v \in retryUsed')
        BY <1>4, <1>18, <3>3
      <4> QED
        BY <1>4, <2>1, <3>1, <4>1
    <3> QED
      BY <3>2, <3>3
  <2> QED
    BY <1>4, <2>1, <2>3 DEF RequestsCounted
<1> QED
  BY <1>17, <1>19 DEF PipelineInv

\* An answer to a wave changes what is known of the facts.
LEMMA AnsweredAskOK ==
    ASSUME PipelineInv, slice.pc \in {"parents", "confirmed"}, Current,
           NEW q, LessWork(q, slice.work, TxidsOf(members)), SameWindow(q, slice.work),
           NEW t, LocalForm(t), t.work = q, t.results = slice.results,
           t.generation = slice.generation, t.outputs \subseteq members
    PROVE  AskOK(t, attempted, givenUp \cup {})
<1>1. /\ WaitingOK(slice) /\ LocalOK(slice, members)
      /\ slice.generation = generation /\ attempted \subseteq members
  BY CurrentSlice
<1>2. Candidates(q) = Candidates(slice.work) /\ givenUp \cup {} = givenUp
  BY DEF SameWindow
<1>3. LocalOK(t, members)
  BY <1>1, <1>2 DEF LocalOK, LessWork
<1>4. Accounted(attempted, DOMAIN classified \cup DOMAIN slice.results,
                Candidates(slice.work), givenUp)
  BY <1>1 DEF WaitingOK, Taken
<1> QED
  BY <1>1, <1>2, <1>3, <1>4 DEF AskOK

LEMMA ParentsAnsweredOK ==
    ASSUME PipelineInv, ParentsAnswered
    PROVE  PipelineInv' /\ NullStep
<1> DEFINE parents == {v \in members : \E o \in slice.requests : TxidOf[v] = ParentOf[o]}
<1>1. slice.pc = "parents" /\ Current
  BY DEF ParentsAnswered
<1>2. PICK answer \in [parents -> RawAnswer] :
        LET found == {v \in parents : answer[v] = "found"}
            txids == {TxidOf[v] : v \in found}
            systemic == \E v \in parents : answer[v] = "systemic"
            missing == IF systemic THEN {} ELSE {TxidOf[v] : v \in parents \ found}
        IN  \E place \in Orders(AwaitedFrom(slice.work, txids) \ NoScript) :
              /\ ByParent(place)
              /\ AskConfirmed([slice EXCEPT
                                 !.work = FallBack(ApplyParents(@, txids, place), missing),
                                 !.outputs = @ \cup found,
                                 !.systemic = systemic],
                              attempted, {})
              /\ UNCHANGED <<retryUsed, rawRequests>>
  BY DEF ParentsAnswered
<1> DEFINE found == {v \in parents : answer[v] = "found"}
           txids == {TxidOf[v] : v \in found}
           systemic == \E v \in parents : answer[v] = "systemic"
           missing == IF systemic THEN {} ELSE {TxidOf[v] : v \in parents \ found}
<1>3. PICK place \in Orders(AwaitedFrom(slice.work, txids) \ NoScript) :
        /\ AskConfirmed([slice EXCEPT
                           !.work = FallBack(ApplyParents(@, txids, place), missing),
                           !.outputs = @ \cup found,
                           !.systemic = systemic],
                        attempted, {})
        /\ UNCHANGED <<retryUsed, rawRequests>>
  BY <1>2
<1> DEFINE q == FallBack(ApplyParents(slice.work, txids, place), missing)
           O == slice.outputs \cup found
           t == [slice EXCEPT !.work = q, !.outputs = O, !.systemic = systemic]
<1>4. /\ AskConfirmed(t, attempted, {})
      /\ retryUsed' = retryUsed /\ rawRequests' = rawRequests
  BY <1>3
<1>5. /\ SliceInv /\ RequestsCounted /\ LocalOK(slice, members) /\ LocalForm(slice)
      /\ SliceOK(slice.work)
  BY <1>1, CurrentSlice
<1>6. O \subseteq members
  BY <1>5 DEF LocalOK
<1> HIDE DEF txids, missing, systemic, O
<1>7. SameWindow(q, slice.work) /\ \A T : FactsOK(slice.work, T) => FactsOK(q, T)
  BY <1>5, ApplyParentsOK
<1> HIDE DEF q
<1>8. LessWork(q, slice.work, TxidsOf(members))
  BY <1>7, SameWindowIsLess
<1>9. /\ LocalForm(t) /\ t.work = q /\ t.outputs = O /\ t.results = slice.results
      /\ t.generation = slice.generation
  <2>1. t = [slice EXCEPT !.work = q, !.outputs = O, !.systemic = systemic]
    OBVIOUS
  <2> HIDE DEF t
  <2> QED
    BY <1>5, <2>1 DEF LocalForm
<1> HIDE DEF t
<1>10. AskOK(t, attempted, givenUp \cup {})
  BY <1>1, <1>6, <1>7, <1>8, <1>9, AnsweredAskOK
<1>11. SliceInv' /\ NullStep
  BY <1>4, <1>5, <1>10, AskConfirmedOK
<1>12. attempted' = attempted
  BY <1>4, AskConfirmedTried
<1>13. RequestsCounted'
  BY <1>4, <1>5, <1>12 DEF RequestsCounted
<1> QED
  BY <1>11, <1>13 DEF PipelineInv

LEMMA ConfirmedAnsweredOK ==
    ASSUME PipelineInv, ConfirmedAnswered
    PROVE  PipelineInv' /\ NullStep
<1>1. slice.pc = "confirmed" /\ Current
  BY DEF ConfirmedAnswered
<1>2. PICK answer \in [slice.requests -> ConfirmedAnswer] :
        LET found == {o \in DOMAIN answer : answer[o] = "found"}
        IN  \E place \in Orders(found) :
              /\ StoreSlice([slice EXCEPT
                               !.work = ApplyConfirmed(@, answer, place),
                               !.scripts = found,
                               !.systemic = \E o \in DOMAIN answer : answer[o] = "systemic"],
                            attempted, {})
              /\ UNCHANGED <<retryUsed, rawRequests>>
  BY DEF ConfirmedAnswered
<1> DEFINE found == {o \in DOMAIN answer : answer[o] = "found"}
           systemic == \E o \in DOMAIN answer : answer[o] = "systemic"
<1>3. PICK place \in Orders(found) :
        /\ StoreSlice([slice EXCEPT !.work = ApplyConfirmed(@, answer, place),
                                    !.scripts = found, !.systemic = systemic],
                      attempted, {})
        /\ UNCHANGED <<retryUsed, rawRequests>>
  BY <1>2
<1> DEFINE q == ApplyConfirmed(slice.work, answer, place)
           t == [slice EXCEPT !.work = q, !.scripts = found, !.systemic = systemic]
<1>4. /\ StoreSlice(t, attempted, {})
      /\ retryUsed' = retryUsed /\ rawRequests' = rawRequests
  BY <1>3
<1>5. /\ SliceInv /\ RequestsCounted /\ LocalOK(slice, members) /\ LocalForm(slice)
      /\ SliceOK(slice.work) /\ WaitingOK(slice)
  BY <1>1, CurrentSlice
<1>6. DOMAIN answer \subseteq Asked(slice.work)
  BY <1>1, <1>5 DEF WaitingOK
<1>7. SameWindow(q, slice.work) /\ \A T : FactsOK(slice.work, T) => FactsOK(q, T)
  BY <1>5, <1>6, ApplyConfirmedOK
<1> HIDE DEF q, found, systemic
<1>8. LessWork(q, slice.work, TxidsOf(members))
  BY <1>7, SameWindowIsLess
<1>9. /\ LocalForm(t) /\ t.work = q /\ t.outputs = slice.outputs /\ t.results = slice.results
      /\ t.generation = slice.generation
  <2>1. t = [slice EXCEPT !.work = q, !.scripts = found, !.systemic = systemic]
    OBVIOUS
  <2> HIDE DEF t
  <2> QED
    BY <1>5, <2>1 DEF LocalForm
<1> HIDE DEF t
<1>10. t.outputs \subseteq members
  BY <1>5, <1>9 DEF LocalOK
<1>11. AskOK(t, attempted, givenUp \cup {})
  BY <1>1, <1>7, <1>8, <1>9, <1>10, AnsweredAskOK
<1>12. SliceInv' /\ NullStep
  BY <1>4, <1>5, <1>11, StoreOK
<1>13. attempted' = attempted
  BY <1>4 DEF StoreSlice, Store
<1>14. RequestsCounted'
  BY <1>4, <1>5, <1>13 DEF RequestsCounted
<1> QED
  BY <1>12, <1>14 DEF PipelineInv

-----------------------------------------------------------------------------
(* Theorems *)

LEMMA InitOK == Init => PipelineInv
<1> SUFFICES ASSUME Init PROVE PipelineInv
  OBVIOUS
<1>1. /\ generation = 0 /\ members = {} /\ classified = <<>> /\ attempted = {}
      /\ retryUsed = {} /\ pending = EmptySlice /\ outputs = {} /\ slice = Idle
      /\ status = "waiting" /\ rawRequests = [v \in Variants |-> 0] /\ givenUp = {}
  BY DEF Init
<1>2. DOMAIN classified = {}
  BY <1>1
<1>3. /\ SliceOK(pending) /\ FactsOK(pending, TxidsOf(members)) /\ Candidates(pending) = {}
      /\ DOMAIN pending.facts = {} /\ slice.pc = "idle" /\ SliceOK(slice.work)
  BY <1>1, EmptySliceOK, IdleForm
<1>4. BetweenSlices
  <2>1. NothingLost /\ FetchedScriptsAreUsed
    BY <1>1, <1>3 DEF NothingLost, FetchedScriptsAreUsed
  <2>2. Accounted(attempted, DOMAIN classified, Candidates(pending), givenUp)
    BY <1>1, <1>3 DEF Accounted
  <2> QED
    BY <1>1, <2>1, <2>2 DEF BetweenSlices
<1>5. OnlyMembersKept
  BY <1>1, <1>2, <1>3 DEF OnlyMembersKept
<1>6. IsFiniteSet(members)
  BY <1>1, FS_EmptySet
<1>7. SliceInv
  BY <1>1, <1>3, <1>4, <1>5, <1>6 DEF SliceInv
<1>8. RequestsCounted
  BY <1>1 DEF RequestsCounted
<1> QED
  BY <1>7, <1>8 DEF PipelineInv

LEMMA StutterOK ==
    ASSUME PipelineInv, UNCHANGED vars
    PROVE  PipelineInv' /\ NullStep
<1>1. /\ generation' = generation /\ members' = members /\ classified' = classified
      /\ attempted' = attempted /\ retryUsed' = retryUsed /\ pending' = pending
      /\ outputs' = outputs /\ confirmed' = confirmed /\ slice' = slice /\ status' = status
      /\ rawRequests' = rawRequests /\ givenUp' = givenUp /\ fetched' = fetched
  BY DEF vars, workVars
<1>2. NothingLost' = NothingLost /\ FetchedScriptsAreUsed' = FetchedScriptsAreUsed
  BY <1>1 DEF NothingLost, FetchedScriptsAreUsed
<1>3. BetweenSlices' = BetweenSlices /\ StaleOK' = StaleOK /\ Current' = Current
  BY <1>1, <1>2 DEF BetweenSlices, StaleOK, Current
<1>4. WaitingOK(slice)' = WaitingOK(slice) /\ OnlyMembersKept' = OnlyMembersKept
  BY <1>1 DEF WaitingOK, OnlyMembersKept
<1>5. SliceInv'
  BY <1>1, <1>3, <1>4 DEF PipelineInv, SliceInv
<1>6. RequestsCounted'
  BY <1>1 DEF PipelineInv, RequestsCounted
<1>7. NullStep
  BY <1>1 DEF NullStep
<1> QED
  BY <1>5, <1>6, <1>7 DEF PipelineInv

\* Every step keeps the invariant, and one that keeps the generation calls
\* no output of a mempool transaction missing.
LEMMA StepOK ==
    ASSUME PipelineInv, [Next]_vars
    PROVE  PipelineInv' /\ (generation' = generation => NullStep)
<1>1. CASE InstallSnapshot
  <2>1. generation' # generation
    BY <1>1 DEF InstallSnapshot, PipelineInv, SliceInv
  <2> QED
    BY <1>1, <2>1, InstallOK
<1>2. CASE BeginSlice
  BY <1>2, BeginSliceOK
<1>3. CASE RawAnswered
  BY <1>3, RawAnsweredOK
<1>4. CASE ParentsAnswered
  BY <1>4, ParentsAnsweredOK
<1>5. CASE ConfirmedAnswered
  BY <1>5, ConfirmedAnsweredOK
<1>6. CASE Superseded
  BY <1>6, SupersededOK
<1>7. CASE UNCHANGED vars
  BY <1>7, StutterOK
<1> QED
  BY <1>1, <1>2, <1>3, <1>4, <1>5, <1>6, <1>7 DEF Next, SliceSteps

\* The inductive invariant: every candidate of a generation is accounted for
\* through each wait of a slice, the window serves its candidates within its
\* limits, and no fact of a mempool parent may become missing.
THEOREM PipelineInvariant == Spec => []PipelineInv
<1>1. PipelineInv /\ [Next]_vars => PipelineInv'
  BY StepOK
<1> QED
  BY <1>1, InitOK, PTL DEF Spec

\* No transaction is lost, in any history of slices that are answered, fail or
\* are superseded: whatever was taken up is classified, pending or given up for
\* a reason, and a complete generation has nothing pending.
THEOREM NoTransactionIsLost == Spec => []NothingLost
<1>1. PipelineInv => NothingLost
  BY DEF PipelineInv, SliceInv, BetweenSlices, NothingLost
<1> QED
  BY <1>1, PipelineInvariant, PTL

\* The retained scripts, the facts of the window and the attempts at a
\* transaction stay within their limits, whatever the limits and the sizes are.
THEOREM LimitsAreKept == Spec => []WithinLimits
<1>1. ASSUME PipelineInv PROVE WithinLimits
  <2>1. SliceOK(Held)
    BY <1>1 DEF PipelineInv, SliceInv, Held
  <2>2. ASSUME NEW v \in Variants PROVE rawRequests[v] <= 2
    <3>1. /\ rawRequests[v] \in Nat
          /\ rawRequests[v] <= (IF v \in retryUsed THEN 1 ELSE 0)
                                 + (IF v \in attempted THEN 1 ELSE 0)
      BY <1>1 DEF PipelineInv, RequestsCounted
    <3> QED
      BY <3>1
  <2> QED
    BY <2>1, <2>2 DEF WithinLimits, SliceOK, WindowLimits
<1> QED
  BY <1>1, PipelineInvariant, PTL

\* A candidate in the window has a fact for each of its inputs, and every fact
\* serves one, so that the unreachable! of classify_ready is unreachable.
THEOREM FactsAlwaysServe == Spec => []FactsServeCandidates
<1>1. ASSUME PipelineInv PROVE FactsServeCandidates
  <2>1. SliceOK(Held)
    BY <1>1 DEF PipelineInv, SliceInv, Held
  <2> QED
    BY <2>1 DEF FactsServeCandidates, SliceOK, WindowForm
<1> QED
  BY <1>1, PipelineInvariant, PTL

\* What is kept belongs to the current membership, even when a slice of an
\* earlier generation ends late.
THEOREM OnlyMembersAreKept == Spec => []OnlyMembersKept
<1>1. PipelineInv => OnlyMembersKept
  BY DEF PipelineInv, SliceInv
<1> QED
  BY <1>1, PipelineInvariant, PTL

\* A script that was fetched is not lost while it waits for room: it is used,
\* or its candidate makes room for others, before the slice ends.
THEOREM NoFetchedScriptIsLost == Spec => []FetchedScriptsAreUsed
<1>1. PipelineInv => FetchedScriptsAreUsed
  BY DEF PipelineInv, SliceInv, BetweenSlices, FetchedScriptsAreUsed
<1> QED
  BY <1>1, PipelineInvariant, PTL

\* A result never rests on a null for an output of a mempool parent.
THEOREM NullsAreOutsideMempool == Spec => NullOnlyOutsideMempool
<1> DEFINE Step == generation' = generation =>
                     \A v \in DOMAIN classified' :
                       v \notin DOMAIN classified \/ classified'[v] # classified[v] =>
                         \A o \in classified'[v] : ParentOf[o] \notin Txids
<1>1. PipelineInv /\ [Next]_vars => [Step]_vars
  BY StepOK DEF NullStep
<1> HIDE DEF Step
<1>2. Spec => [][Step]_vars
  BY <1>1, PipelineInvariant, PTL DEF Spec
<1> QED
  BY <1>2 DEF NullOnlyOutsideMempool, Step
=============================================================================
