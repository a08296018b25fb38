------------------------ MODULE AuxiliaryCacheProofs ------------------------
(***************************************************************************)
(* Proofs about AuxiliaryCache, for any outpoints, scripts and sizes, any  *)
(* transactions and any budget: both caches stay within the one budget,    *)
(* retained outputs are current, and the stamps, their renumbering and the *)
(* running totals implement RecencyCache, which has none of them.          *)
(***************************************************************************)
EXTENDS AuxiliaryCache, TotalsProofs, SequenceTheorems

Entry == [script : Scripts, bytes : Nat, stamp : Nat]
EntryMaps == UNION {[S -> Entry] : S \in SUBSET Outpoints}
Caches ==
    [entries : EntryMaps, lru : SUBSET (Nat \X Outpoints), bytes : Nat, next : Nat]
Works == [outputs : Memberships, bytes : Nat]

\* What the scripts of some entries weigh, and some outputs.
ScriptWeights(entries, S) == [o \in S |-> ScriptBytes[entries[o].script]]
OutputWeights(outputs) == [t \in DOMAIN outputs |-> OutputBytes[outputs[t]]]

\* The pairs that entries S have in the index.
Links(entries, S) == {<<entries[o].stamp, o>> : o \in S}

\* The index holds the outpoints S, each with a stamp of its own that was
\* allocated.  In the middle of get the entry that is read is left out.
Indexed(c, S) ==
    /\ S \subseteq DOMAIN c.entries
    /\ c.lru = Links(c.entries, S)
    /\ \A o \in S : c.entries[o].stamp < c.next
    /\ \A o, p \in S : c.entries[o].stamp = c.entries[p].stamp => o = p

\* The running total is what the entries weigh.
Counted(c) ==
    /\ \A o \in DOMAIN c.entries :
          c.entries[o].bytes = ScriptBytes[c.entries[o].script]
    /\ c.bytes = Total(ScriptWeights(c.entries, DOMAIN c.entries))

CacheOK(c) ==
    /\ c \in Caches /\ c.next <= MaxStamp
    /\ Indexed(c, DOMAIN c.entries)
    /\ Counted(c)

WorkOK(w) ==
    /\ w \in Works
    /\ IsFiniteSet(DOMAIN w.outputs)
    /\ w.bytes = Total(OutputWeights(w.outputs))

CachesInv ==
    /\ present \in Memberships
    /\ CacheOK(cache)
    /\ WorkOK(work)
    /\ cache.bytes + work.bytes <= MaximumBytes
    /\ OutputsAreCurrent

-----------------------------------------------------------------------------
(* Entries and what they weigh *)

LEMMA EntriesTyped ==
    ASSUME NEW c \in Caches
    PROVE  /\ DOMAIN c.entries \subseteq Outpoints /\ IsFiniteSet(DOMAIN c.entries)
           /\ c.entries \in [DOMAIN c.entries -> Entry]
<1>1. PICK S \in SUBSET Outpoints : c.entries \in [S -> Entry]
  BY DEF Caches, EntryMaps
<1>2. DOMAIN c.entries = S
  BY <1>1
<1> QED
  BY <1>1, <1>2, FS_Subset, AuxiliaryCacheAssumption

LEMMA EntryMapTyped ==
    ASSUME NEW S \in SUBSET Outpoints, NEW f \in [S -> Entry]
    PROVE  f \in EntryMaps
BY DEF EntryMaps

LEMMA ScriptsWeigh ==
    ASSUME NEW c \in Caches, NEW S \in SUBSET DOMAIN c.entries
    PROVE  /\ IsWeighing(ScriptWeights(c.entries, S))
           /\ DOMAIN ScriptWeights(c.entries, S) = S
           /\ \A o \in S : /\ ScriptWeights(c.entries, S)[o] = ScriptBytes[c.entries[o].script]
                           /\ ScriptBytes[c.entries[o].script] \in Nat \ {0}
<1>1. \A o \in S : c.entries[o].script \in Scripts
  BY EntriesTyped DEF Entry
<1>2. \A o \in S : ScriptBytes[c.entries[o].script] \in Nat \ {0}
  BY <1>1, AuxiliaryCacheAssumption
<1>3. IsFiniteSet(S)
  BY EntriesTyped, FS_Subset
<1> QED
  BY <1>2, <1>3 DEF ScriptWeights, IsWeighing

\* An entry that leaves takes its weight with it.
LEMMA WeightWithout ==
    ASSUME NEW c \in Caches, NEW S \in SUBSET DOMAIN c.entries, NEW o \in S
    PROVE  /\ Total(ScriptWeights(c.entries, S)) \in Nat
           /\ Total(ScriptWeights(c.entries, S \ {o})) \in Nat
           /\ Total(ScriptWeights(c.entries, S))
                = ScriptBytes[c.entries[o].script]
                  + Total(ScriptWeights(c.entries, S \ {o}))
<1> DEFINE f == ScriptWeights(c.entries, S)
           h == ScriptWeights(c.entries, S \ {o})
<1>1. /\ IsWeighing(f) /\ DOMAIN f = S
      /\ \A p \in S : f[p] = ScriptBytes[c.entries[p].script]
  BY ScriptsWeigh
<1>2. /\ IsWeighing(h) /\ DOMAIN h = S \ {o}
      /\ \A p \in S \ {o} : h[p] = ScriptBytes[c.entries[p].script]
  <2> DEFINE T == S \ {o}
  <2>1. T \in SUBSET DOMAIN c.entries
    OBVIOUS
  <2> HIDE DEF T
  <2>2. /\ IsWeighing(ScriptWeights(c.entries, T))
        /\ DOMAIN ScriptWeights(c.entries, T) = T
        /\ \A p \in T : ScriptWeights(c.entries, T)[p] = ScriptBytes[c.entries[p].script]
    BY <2>1, ScriptsWeigh
  <2> QED
    BY <2>2 DEF T
<1> HIDE DEF f, h
<1>3. Total(f) = f[o] + Total(h)
  BY <1>1, <1>2, TotalSplit
<1>4. Total(f) \in Nat /\ Total(h) \in Nat
  BY <1>1, <1>2, TotalType
<1> QED
  BY <1>1, <1>3, <1>4 DEF f, h

\* Equal scripts weigh the same, whatever their stamps.
LEMMA SameWeights ==
    ASSUME NEW e, NEW f, NEW S, \A o \in S : e[o].script = f[o].script
    PROVE  ScriptWeights(e, S) = ScriptWeights(f, S)
BY DEF ScriptWeights

-----------------------------------------------------------------------------
(* Dropping entries *)

\* r is c with the entries K only.
CutTo(r, c, K) ==
    /\ CacheOK(r)
    /\ DOMAIN r.entries = K /\ K \subseteq DOMAIN c.entries
    /\ \A o \in K : r.entries[o] = c.entries[o]
    /\ r.next = c.next

LEMMA DroppedFields ==
    ASSUME NEW c \in Caches, NEW o \in DOMAIN c.entries
    PROVE  DropEntry(Unlink(c, o), o) =
               [entries |-> Without(c.entries, o),
                lru |-> c.lru \ {<<c.entries[o].stamp, o>>},
                bytes |-> SaturatingSub(c.bytes, c.entries[o].bytes),
                next |-> c.next]
<1> DEFINE u == Unlink(c, o)
<1>1. c = [entries |-> c.entries, lru |-> c.lru, bytes |-> c.bytes, next |-> c.next]
  BY DEF Caches
<1>2. u = [entries |-> c.entries, lru |-> c.lru \ {<<c.entries[o].stamp, o>>},
           bytes |-> c.bytes, next |-> c.next]
  BY <1>1 DEF Unlink
<1> HIDE DEF u
<1>3. DropEntry(u, o) =
        [entries |-> Without(c.entries, o),
         lru |-> c.lru \ {<<c.entries[o].stamp, o>>},
         bytes |-> SaturatingSub(c.bytes, c.entries[o].bytes),
         next |-> c.next]
  <2>1. /\ u.entries = c.entries /\ u.bytes = c.bytes /\ u.next = c.next
        /\ u.lru = c.lru \ {<<c.entries[o].stamp, o>>}
    BY <1>2
  <2>2. DropEntry(u, o) = [u EXCEPT !.entries = Without(c.entries, o),
                                    !.bytes = SaturatingSub(c.bytes, c.entries[o].bytes)]
    BY <2>1 DEF DropEntry
  <2> QED
    BY <1>2, <2>2
<1> QED
  BY <1>3 DEF u

LEMMA DroppedTyped ==
    ASSUME NEW c \in Caches, NEW o \in DOMAIN c.entries
    PROVE  /\ Without(c.entries, o) \in EntryMaps
           /\ DOMAIN Without(c.entries, o) = DOMAIN c.entries \ {o}
           /\ \A p \in DOMAIN c.entries \ {o} : Without(c.entries, o)[p] = c.entries[p]
<1>1. c.entries \in [DOMAIN c.entries -> Entry] /\ DOMAIN c.entries \subseteq Outpoints
  BY EntriesTyped
<1>2. Without(c.entries, o) \in [DOMAIN c.entries \ {o} -> Entry]
  BY <1>1 DEF Without
<1>3. DOMAIN c.entries \ {o} \in SUBSET Outpoints
  BY <1>1
<1> QED
  BY <1>2, <1>3, EntryMapTyped DEF Without

LEMMA Dropped ==
    ASSUME NEW c, CacheOK(c), NEW o \in DOMAIN c.entries
    PROVE  CutTo(DropEntry(Unlink(c, o), o), c, DOMAIN c.entries \ {o})
<1> DEFINE r == DropEntry(Unlink(c, o), o)
           D == DOMAIN c.entries
           K == D \ {o}
<1>1. c \in Caches /\ c.next <= MaxStamp /\ Indexed(c, D) /\ Counted(c)
  BY DEF CacheOK
<1>2. /\ r.entries = Without(c.entries, o)
      /\ r.lru = c.lru \ {<<c.entries[o].stamp, o>>}
      /\ r.bytes = SaturatingSub(c.bytes, c.entries[o].bytes)
      /\ r.next = c.next
      /\ r = [entries |-> r.entries, lru |-> r.lru, bytes |-> r.bytes, next |-> r.next]
  BY <1>1, DroppedFields
<1> HIDE DEF r
<1>3. /\ r.entries \in EntryMaps /\ DOMAIN r.entries = K
      /\ \A p \in K : r.entries[p] = c.entries[p]
  <2>1. /\ Without(c.entries, o) \in EntryMaps
        /\ DOMAIN Without(c.entries, o) = DOMAIN c.entries \ {o}
        /\ \A p \in DOMAIN c.entries \ {o} : Without(c.entries, o)[p] = c.entries[p]
    BY <1>1, DroppedTyped
  <2> QED
    BY <1>2, <2>1
<1>4. /\ c.bytes = Total(ScriptWeights(c.entries, D))
      /\ c.entries[o].bytes = ScriptBytes[c.entries[o].script]
  BY <1>1 DEF Counted
<1>5. /\ c.bytes \in Nat /\ Total(ScriptWeights(c.entries, K)) \in Nat
      /\ c.bytes = c.entries[o].bytes + Total(ScriptWeights(c.entries, K))
  <2>1. D \in SUBSET DOMAIN c.entries /\ o \in D
    OBVIOUS
  <2> HIDE DEF D
  <2>2. /\ Total(ScriptWeights(c.entries, D)) \in Nat
        /\ Total(ScriptWeights(c.entries, D \ {o})) \in Nat
        /\ Total(ScriptWeights(c.entries, D))
             = ScriptBytes[c.entries[o].script] + Total(ScriptWeights(c.entries, D \ {o}))
    BY <1>1, <2>1, WeightWithout
  <2> QED
    BY <1>4, <2>2
<1>6. c.entries[o].bytes \in Nat
  BY <1>1, EntriesTyped DEF Entry
<1>7. r.bytes = Total(ScriptWeights(c.entries, K)) /\ r.bytes \in Nat
  BY <1>2, <1>5, <1>6 DEF SaturatingSub
<1>8. ScriptWeights(r.entries, K) = ScriptWeights(c.entries, K)
  BY <1>3, SameWeights
<1>9. Counted(r)
  BY <1>1, <1>3, <1>7, <1>8 DEF Counted
<1>10. r.lru = Links(r.entries, K)
  <2>1. c.lru = Links(c.entries, D)
    BY <1>1 DEF Indexed
  <2>2. Links(c.entries, D) \ {<<c.entries[o].stamp, o>>} = Links(c.entries, K)
    BY DEF Links
  <2>3. Links(c.entries, K) = Links(r.entries, K)
    BY <1>3 DEF Links
  <2> QED
    BY <1>2, <2>1, <2>2, <2>3
<1>11. Indexed(r, K)
  <2>1. \A p \in K : r.entries[p].stamp < r.next
    BY <1>1, <1>2, <1>3 DEF Indexed
  <2>2. \A p, q \in K : r.entries[p].stamp = r.entries[q].stamp => p = q
    BY <1>1, <1>3 DEF Indexed
  <2> QED
    BY <1>3, <1>10, <2>1, <2>2 DEF Indexed
<1>12. r \in Caches
  <2>1. c.lru \in SUBSET (Nat \X Outpoints) /\ c.next \in Nat
    BY <1>1 DEF Caches
  <2>2. r.lru \in SUBSET (Nat \X Outpoints) /\ r.next \in Nat
    BY <1>2, <2>1
  <2> QED
    BY <1>2, <1>3, <1>7, <2>2 DEF Caches
<1>13. CacheOK(r)
  BY <1>1, <1>2, <1>3, <1>9, <1>11, <1>12 DEF CacheOK
<1> QED
  BY <1>2, <1>3, <1>13 DEF CutTo, r

LEMMA CutToAgain ==
    ASSUME NEW c, NEW r, NEW q, NEW K, NEW L, CutTo(r, c, K), CutTo(q, r, L)
    PROVE  CutTo(q, c, L)
BY DEF CutTo

LEMMA NothingCut ==
    ASSUME NEW c, CacheOK(c) PROVE CutTo(c, c, DOMAIN c.entries)
BY DEF CutTo

-----------------------------------------------------------------------------
(* shrink_to *)

\* The outpoints K were used last: with one, what was used after it.
LatestIn(c, K) ==
    /\ K \subseteq DOMAIN c.entries
    /\ \A o \in K : \A p \in DOMAIN c.entries :
          c.entries[o].stamp < c.entries[p].stamp => p \in K

Fits(c, K, target) ==
    LatestIn(c, K) /\ Total(ScriptWeights(c.entries, K)) <= target

\* The loop of shrink_to on its way from c to x: no outpoint is gone that
\* could have been kept.
Shrinking(x, c, target) ==
    /\ CutTo(x, c, DOMAIN x.entries)
    /\ LatestIn(c, DOMAIN x.entries)
    /\ \A L : Fits(c, L, target) => L \subseteq DOMAIN x.entries

\* The index is as large as the map.
LEMMA IndexSize ==
    ASSUME NEW c \in Caches, NEW S, Indexed(c, S)
    PROVE  /\ IsFiniteSet(c.lru) /\ IsFiniteSet(S)
           /\ Cardinality(c.lru) \in Nat
           /\ Cardinality(c.lru) = Cardinality(S)
           /\ Cardinality(c.lru) <= Cardinality(Outpoints)
           /\ (c.lru = {} <=> S = {})
<1> DEFINE f == [o \in S |-> <<c.entries[o].stamp, o>>]
<1>1. S \in SUBSET Outpoints /\ IsFiniteSet(Outpoints)
  BY EntriesTyped, AuxiliaryCacheAssumption DEF Indexed
<1>2. IsFiniteSet(S) /\ Cardinality(S) <= Cardinality(Outpoints)
  BY <1>1, FS_Subset
<1>3. c.lru = Links(c.entries, S)
  BY DEF Indexed
<1>4. f \in Bijection(S, c.lru)
  BY <1>3 DEF Links, Bijection, Injection, Surjection, IsInjective
<1>5. ExistsBijection(S, c.lru)
  BY <1>4 DEF ExistsBijection
<1>6. IsFiniteSet(c.lru) /\ Cardinality(c.lru) = Cardinality(S)
  BY <1>2, <1>5, FS_Bijection
<1>7. Cardinality(c.lru) \in Nat
  BY <1>6, FS_CardinalityType
<1>8. c.lru = {} <=> S = {}
  BY <1>3 DEF Links
<1> QED
  BY <1>2, <1>6, <1>7, <1>8

\* An index that is not empty has a first pair.
LEMMA FirstPair ==
    ASSUME NEW c, CacheOK(c), c.lru # {}
    PROVE  \E q \in c.lru : \A r \in c.lru \ {q} : Before(q, r)
<1> DEFINE D == DOMAIN c.entries
           T == {c.entries[o].stamp : o \in D}
<1>1. /\ c.lru = Links(c.entries, D) /\ c \in Caches
      /\ \A o, q \in D : c.entries[o].stamp = c.entries[q].stamp => o = q
  BY DEF CacheOK, Indexed
<1>2. \A o \in D : c.entries[o].stamp \in Nat
  BY <1>1, EntriesTyped DEF Entry
<1>3. T \subseteq Nat /\ T # {}
  <2>1. D # {}
    BY IndexSize DEF CacheOK
  <2> HIDE DEF D
  <2> QED
    BY <1>2, <2>1
<1>4. PICK n \in T : \A m \in T : n <= m
  BY <1>3, LeastNatural
<1>5. PICK o \in D : n = c.entries[o].stamp
  BY <1>4
<1>6. \A q \in D \ {o} : c.entries[o].stamp < c.entries[q].stamp
  <2> TAKE q \in D \ {o}
  <2>1. n <= c.entries[q].stamp /\ c.entries[q].stamp # n
    BY <1>1, <1>4, <1>5
  <2> QED
    BY <1>2, <1>5, <2>1
<1>7. \A r \in c.lru : \E q \in D : r = <<c.entries[q].stamp, q>>
  BY <1>1 DEF Links
<1>8. \E q \in c.lru : \A r \in c.lru \ {q} : Before(q, r)
  <2> DEFINE first == <<c.entries[o].stamp, o>>
  <2>1. first \in c.lru
    BY <1>1 DEF Links
  <2>2. ASSUME NEW r \in c.lru \ {first} PROVE Before(first, r)
    <3>1. PICK q \in D : r = <<c.entries[q].stamp, q>>
      BY <1>7
    <3>2. q # o
      BY <2>2, <3>1
    <3> QED
      BY <1>6, <3>1, <3>2 DEF Before
  <2> QED
    BY <2>1, <2>2
<1> QED
  BY <1>8

\* It is that of the entry used longest ago.
LEMMA OldestPair ==
    ASSUME NEW c, CacheOK(c), NEW p \in c.lru,
           \A r \in c.lru \ {p} : Before(p, r)
    PROVE  \E o \in DOMAIN c.entries :
              /\ p = <<c.entries[o].stamp, o>>
              /\ \A q \in DOMAIN c.entries \ {o} : c.entries[o].stamp < c.entries[q].stamp
<1> DEFINE D == DOMAIN c.entries
<1>1. /\ c.lru = Links(c.entries, D)
      /\ \A o, q \in D : c.entries[o].stamp = c.entries[q].stamp => o = q
  BY DEF CacheOK, Indexed
<1>2. PICK u \in D : p = <<c.entries[u].stamp, u>>
  BY <1>1 DEF Links
<1>3. ASSUME NEW q \in D \ {u} PROVE c.entries[u].stamp < c.entries[q].stamp
  <2>1. <<c.entries[q].stamp, q>> \in c.lru
    BY <1>1 DEF Links
  <2>2. <<c.entries[q].stamp, q>> # p
    BY <1>2
  <2>3. Before(<<c.entries[u].stamp, u>>, <<c.entries[q].stamp, q>>)
    BY <1>2, <2>1, <2>2
  <2>4. c.entries[q].stamp # c.entries[u].stamp
    BY <1>1
  <2> QED
    BY <2>3, <2>4 DEF Before
<1> QED
  BY <1>2, <1>3

LEMMA ShrinkTurnDrops ==
    ASSUME NEW x, CacheOK(x), NEW target \in Nat, ~ (x.bytes <= target)
    PROVE  /\ x.lru # {}
           /\ \E o \in DOMAIN x.entries :
                 /\ ShrinkTurn(x, target) = DropEntry(Unlink(x, o), o)
                 /\ \A q \in DOMAIN x.entries \ {o} :
                       x.entries[o].stamp < x.entries[q].stamp
<1>1. x \in Caches /\ Indexed(x, DOMAIN x.entries) /\ Counted(x)
  BY DEF CacheOK
<1>2. x.lru # {}
  <2> SUFFICES ASSUME x.lru = {} PROVE FALSE
    OBVIOUS
  <2>1. DOMAIN x.entries = {}
    BY <1>1, IndexSize
  <2>2. x.bytes = Total(ScriptWeights(x.entries, DOMAIN x.entries))
    BY <1>1 DEF Counted
  <2>3. /\ IsWeighing(ScriptWeights(x.entries, DOMAIN x.entries))
        /\ DOMAIN ScriptWeights(x.entries, DOMAIN x.entries) = {}
    BY <1>1, <2>1, ScriptsWeigh
  <2>4. x.bytes = 0
    BY <2>2, <2>3, TotalType
  <2> QED
    BY <2>4
<1> DEFINE p == CHOOSE q \in x.lru : \A r \in x.lru \ {q} : Before(q, r)
<1>3. PICK o \in DOMAIN x.entries :
        /\ p = <<x.entries[o].stamp, o>>
        /\ \A q \in DOMAIN x.entries \ {o} : x.entries[o].stamp < x.entries[q].stamp
  <2>1. p \in x.lru /\ \A r \in x.lru \ {p} : Before(p, r)
    BY <1>2, FirstPair
  <2> HIDE DEF p
  <2> QED
    BY <2>1, OldestPair
<1>4. ShrinkTurn(x, target) =
        LET popped == [x EXCEPT !.lru = @ \ {p}]
            valid == p[2] \in DOMAIN x.entries /\ x.entries[p[2]].stamp = p[1]
        IN  IF valid THEN DropEntry(popped, p[2]) ELSE popped
  BY <1>2 DEF ShrinkTurn
<1> HIDE DEF p
<1>5. p[1] = x.entries[o].stamp /\ p[2] = o
  BY <1>3
<1>6. ShrinkTurn(x, target) = DropEntry([x EXCEPT !.lru = @ \ {p}], o)
  BY <1>4, <1>5
<1>7. Unlink(x, o) = [x EXCEPT !.lru = @ \ {p}]
  BY <1>3 DEF Unlink
<1> QED
  BY <1>2, <1>3, <1>6, <1>7

\* A turn loses the oldest entry only, which no set that fits can hold: it
\* would hold everything.
LEMMA ShrinkTurnStep ==
    ASSUME NEW c, CacheOK(c), NEW x, NEW target \in Nat, Shrinking(x, c, target),
           ~ (x.bytes <= target)
    PROVE  /\ Shrinking(ShrinkTurn(x, target), c, target)
           /\ Cardinality(ShrinkTurn(x, target).lru) = Cardinality(x.lru) - 1
<1> DEFINE D == DOMAIN x.entries
           r == ShrinkTurn(x, target)
<1>1. CutTo(x, c, D) /\ LatestIn(c, D) /\ CacheOK(x)
  BY DEF Shrinking, CutTo
<1>2. D \subseteq DOMAIN c.entries /\ \A o \in D : x.entries[o] = c.entries[o]
  BY <1>1 DEF CutTo
<1>3. PICK o \in D :
        /\ r = DropEntry(Unlink(x, o), o)
        /\ \A q \in D \ {o} : x.entries[o].stamp < x.entries[q].stamp
  BY <1>1, ShrinkTurnDrops
<1> DEFINE K == D \ {o}
<1>4. CutTo(r, x, K)
  BY <1>1, <1>3, Dropped
<1> HIDE DEF r
<1>5. DOMAIN r.entries = K /\ CacheOK(r) /\ \A q \in K : r.entries[q] = c.entries[q]
  BY <1>2, <1>4 DEF CutTo
<1>6. CutTo(r, c, K)
  BY <1>1, <1>4, CutToAgain
<1>7. LatestIn(c, K)
  <2>1. K \subseteq DOMAIN c.entries
    BY <1>2
  <2>2. ASSUME NEW q \in K, NEW p \in DOMAIN c.entries,
               c.entries[q].stamp < c.entries[p].stamp
        PROVE  p \in K
    <3>1. p \in D
      BY <1>1, <2>2 DEF LatestIn
    <3>2. c.entries[o].stamp < c.entries[q].stamp
      BY <1>2, <1>3
    <3>3. c.entries[o].stamp \in Nat /\ c.entries[q].stamp \in Nat
      BY <1>2, EntriesTyped DEF CacheOK, Entry
    <3>4. p # o
      BY <2>2, <3>2, <3>3
    <3> QED
      BY <3>1, <3>4
  <2> QED
    BY <2>1, <2>2 DEF LatestIn
<1>8. ASSUME NEW L, Fits(c, L, target) PROVE L \subseteq K
  <2>1. L \subseteq D
    BY <1>8 DEF Shrinking
  <2>2. o \notin L
    <3> SUFFICES ASSUME o \in L PROVE FALSE
      OBVIOUS
    <3>1. L = D
      <4>1. ASSUME NEW q \in D \ {o} PROVE q \in L
        <5>1. c.entries[o].stamp < c.entries[q].stamp
          BY <1>2, <1>3
        <5>2. q \in DOMAIN c.entries
          BY <1>2
        <5> QED
          BY <1>8, <5>1, <5>2 DEF Fits, LatestIn
      <4> QED
        BY <2>1, <4>1
    <3>2. ScriptWeights(x.entries, D) = ScriptWeights(c.entries, D)
      BY <1>2, SameWeights
    <3>3. x.bytes = Total(ScriptWeights(x.entries, D))
      BY <1>1 DEF CacheOK, Counted
    <3>4. Total(ScriptWeights(c.entries, L)) <= target
      BY <1>8 DEF Fits
    <3> QED
      BY <3>1, <3>2, <3>3, <3>4
  <2> QED
    BY <2>1, <2>2
<1>9. Shrinking(r, c, target)
  BY <1>5, <1>6, <1>7, <1>8 DEF Shrinking
<1>10. Cardinality(r.lru) = Cardinality(x.lru) - 1
  <2>1. x \in Caches /\ Indexed(x, D) /\ r \in Caches /\ Indexed(r, K)
    BY <1>1, <1>5 DEF CacheOK
  <2>2. /\ Cardinality(x.lru) = Cardinality(D) /\ IsFiniteSet(D)
        /\ Cardinality(x.lru) \in Nat
    BY <2>1, IndexSize
  <2>3. Cardinality(r.lru) = Cardinality(K)
    BY <2>1, IndexSize
  <2>4. Cardinality(K) = Cardinality(D) - 1
    BY <1>3, <2>2, FS_RemoveElement
  <2> QED
    BY <2>2, <2>3, <2>4
<1> QED
  BY <1>9, <1>10 DEF r

\* A run of the loop for n turns.
ShrinkRun(c, target, n, after) ==
    /\ after[0] = c
    /\ \A k \in 1..n : after[k] = ShrinkTurn(after[k - 1], target)

\* What shrink_to defines its run by.
ShrinkLoop(c, target, most, after) ==
    after = [n \in 0..most |->
               IF n = 0 THEN c ELSE ShrinkTurn(after[n - 1], target)]

LEMMA ShrinkRuns ==
    ASSUME NEW c, NEW target, NEW most \in Nat
    PROVE  \E after : ShrinkLoop(c, target, most, after)
<1> DEFINE Runs(n) == \E after : ShrinkRun(c, target, n, after)
           Bad == {n \in Nat : ~ Runs(n)}
<1>1. Runs(0)
  <2>1. ShrinkRun(c, target, 0, [k \in {0} |-> c])
    BY DEF ShrinkRun
  <2> QED
    BY <2>1
<1>2. ASSUME NEW n \in Nat, Runs(n) PROVE Runs(n + 1)
  <2>1. PICK old : ShrinkRun(c, target, n, old)
    BY <1>2
  <2> DEFINE after == [k \in 0..(n + 1) |->
                         IF k = n + 1 THEN ShrinkTurn(old[n], target) ELSE old[k]]
  <2>2. /\ \A k \in 0..n : after[k] = old[k]
        /\ after[n + 1] = ShrinkTurn(old[n], target)
    OBVIOUS
  <2> HIDE DEF after
  <2>3. after[0] = c
    BY <2>1, <2>2 DEF ShrinkRun
  <2>4. ASSUME NEW k \in 1..(n + 1)
        PROVE  after[k] = ShrinkTurn(after[k - 1], target)
    <3>1. CASE k = n + 1
      <4>1. k - 1 = n /\ after[n] = old[n]
        BY <2>2, <3>1
      <4> QED
        BY <2>2, <3>1, <4>1
    <3>2. CASE k # n + 1
      <4>1. k \in 1..n /\ k \in 0..n /\ k - 1 \in 0..n
        BY <3>2
      <4>2. after[k] = old[k] /\ after[k - 1] = old[k - 1]
        BY <2>2, <4>1
      <4>3. old[k] = ShrinkTurn(old[k - 1], target)
        BY <2>1, <4>1 DEF ShrinkRun
      <4> QED
        BY <4>2, <4>3
    <3> QED
      BY <3>1, <3>2
  <2>5. ShrinkRun(c, target, n + 1, after)
    BY <2>3, <2>4 DEF ShrinkRun
  <2> QED
    BY <2>5
<1> HIDE DEF Runs
<1>3. Bad = {}
  <2> SUFFICES ASSUME Bad # {} PROVE FALSE
    OBVIOUS
  <2>1. PICK n \in Bad : \A k \in Bad : n <= k
    BY LeastNatural
  <2>2. n \in Nat /\ ~ Runs(n) /\ n # 0
    BY <1>1, <2>1
  <2>3. n - 1 \in Nat /\ n - 1 \notin Bad
    BY <2>1, <2>2
  <2>4. Runs((n - 1) + 1)
    BY <1>2, <2>3
  <2> QED
    BY <2>2, <2>4
<1>4. PICK some : ShrinkRun(c, target, most, some)
  BY <1>3 DEF Runs
<1> DEFINE after == [k \in 0..most |-> some[k]]
<1>5. \A k \in 0..most : after[k] = some[k]
  OBVIOUS
<1>6. ASSUME NEW n \in 0..most
      PROVE  some[n] = IF n = 0 THEN c ELSE ShrinkTurn(after[n - 1], target)
  <2>1. CASE n = 0
    BY <1>4, <2>1 DEF ShrinkRun
  <2>2. CASE n # 0
    <3>1. n \in 1..most /\ n - 1 \in 0..most
      BY <2>2
    <3>2. after[n - 1] = some[n - 1]
      BY <1>5, <3>1
    <3>3. some[n] = ShrinkTurn(some[n - 1], target)
      BY <1>4, <3>1 DEF ShrinkRun
    <3> QED
      BY <2>2, <3>2, <3>3
  <2> QED
    BY <2>1, <2>2
<1>7. after = [n \in 0..most |->
                 IF n = 0 THEN c ELSE ShrinkTurn(after[n - 1], target)]
  BY <1>6
<1> QED
  BY <1>7 DEF ShrinkLoop

\* shrink_to leaves the most of the entries used last that fits.
LEMMA Shrunk ==
    ASSUME NEW c, CacheOK(c), NEW target \in Nat
    PROVE  /\ Shrinking(ShrinkTo(c, target), c, target)
           /\ ShrinkTo(c, target).bytes <= target
           /\ c.bytes <= target => ShrinkTo(c, target) = c
<1> DEFINE most == Cardinality(c.lru) + 1
           after == CHOOSE f : ShrinkLoop(c, target, most, f)
<1>1. c \in Caches /\ Indexed(c, DOMAIN c.entries)
  BY DEF CacheOK
<1>2. Cardinality(c.lru) \in Nat /\ most \in Nat
  BY <1>1, IndexSize
<1>3. ShrinkTo(c, target) = after[most]
  BY DEF ShrinkTo, ShrinkLoop
<1>4. ShrinkLoop(c, target, most, after)
  <2> HIDE DEF most
  <2> QED
    BY <1>2, ShrinkRuns
<1>5. after[0] = c /\ \A n \in 1..most : after[n] = ShrinkTurn(after[n - 1], target)
  <2> HIDE DEF after, most
  <2>1. 0 \in 0..most
    BY <1>2
  <2>2. ASSUME NEW n \in 1..most PROVE after[n] = ShrinkTurn(after[n - 1], target)
    <3>1. n \in 0..most /\ n # 0
      BY <1>2
    <3> QED
      BY <1>4, <3>1 DEF ShrinkLoop
  <2> QED
    BY <1>4, <2>1, <2>2 DEF ShrinkLoop
<1> HIDE DEF after
<1> DEFINE Good(n) ==
        /\ Shrinking(after[n], c, target)
        /\ c.bytes <= target => after[n] = c
        /\ after[n].bytes <= target
              \/ Cardinality(after[n].lru) + n = Cardinality(c.lru)
           Bad == {n \in 0..most : ~ Good(n)}
<1>6. Good(0)
  <2>1. Shrinking(c, c, target)
    BY NothingCut DEF Shrinking, LatestIn, Fits
  <2> QED
    BY <1>2, <1>5, <2>1
<1>7. ASSUME NEW n \in 1..most, Good(n - 1) PROVE Good(n)
  <2> DEFINE x == after[n - 1]
  <2>1. after[n] = ShrinkTurn(x, target) /\ Shrinking(x, c, target)
    BY <1>5, <1>7
  <2>2. CASE x.bytes <= target
    <3>1. after[n] = x
      BY <2>1, <2>2 DEF ShrinkTurn
    <3> QED
      BY <1>7, <2>2, <3>1
  <2>3. CASE ~ (x.bytes <= target)
    <3>1. /\ Shrinking(after[n], c, target)
          /\ Cardinality(after[n].lru) = Cardinality(x.lru) - 1
      BY <2>1, <2>3, ShrinkTurnStep
    <3>2. ~ (c.bytes <= target)
      BY <1>7, <2>3
    <3>3. Cardinality(x.lru) + (n - 1) = Cardinality(c.lru)
      BY <1>7, <2>3
    <3>4. Cardinality(x.lru) \in Nat
      BY <2>1, IndexSize DEF Shrinking, CutTo, CacheOK
    <3>5. Cardinality(after[n].lru) + n = Cardinality(c.lru)
      BY <1>2, <3>1, <3>3, <3>4
    <3> QED
      BY <3>1, <3>2, <3>5
  <2> QED
    BY <2>2, <2>3
<1> HIDE DEF Good
<1>8. Bad = {}
  <2> SUFFICES ASSUME Bad # {} PROVE FALSE
    OBVIOUS
  <2>0. Bad \subseteq Nat
    BY <1>2
  <2>1. PICK n \in Bad : \A k \in Bad : n <= k
    BY <2>0, LeastNatural
  <2>2. n \in 1..most /\ ~ Good(n)
    BY <1>2, <1>6, <2>1
  <2>3. n - 1 \in 0..most /\ n - 1 \notin Bad
    BY <1>2, <2>1, <2>2
  <2> QED
    BY <1>7, <2>2, <2>3
<1>9. Good(most)
  BY <1>2, <1>8
<1>10. Cardinality(after[most].lru) \in Nat
  BY <1>9, IndexSize DEF Good, Shrinking, CutTo, CacheOK
<1>11. after[most].bytes <= target
  BY <1>2, <1>9, <1>10 DEF Good
<1> QED
  BY <1>3, <1>9, <1>11 DEF Good

-----------------------------------------------------------------------------
(* allocate_stamp *)

\* r is c with other stamps: the entries keep their scripts, and the indexed
\* ones S their order.
Restamped(r, c, S) ==
    /\ r \in Caches /\ r.next < MaxStamp /\ r.bytes = c.bytes
    /\ DOMAIN r.entries = DOMAIN c.entries
    /\ \A o \in DOMAIN c.entries :
          /\ r.entries[o].script = c.entries[o].script
          /\ r.entries[o].bytes = c.entries[o].bytes
    /\ Indexed(r, S)
    /\ \A o, p \in S : r.entries[o].stamp < r.entries[p].stamp
                         <=> c.entries[o].stamp < c.entries[p].stamp

LEMMA LinksSize ==
    ASSUME NEW e, NEW S, IsFiniteSet(S)
    PROVE  IsFiniteSet(Links(e, S)) /\ Cardinality(Links(e, S)) = Cardinality(S)
<1> DEFINE f == [o \in S |-> <<e[o].stamp, o>>]
<1>1. f \in Bijection(S, Links(e, S))
  BY DEF Links, Bijection, Injection, Surjection, IsInjective
<1>2. ExistsBijection(S, Links(e, S))
  BY <1>1 DEF ExistsBijection
<1> QED
  BY <1>2, FS_Bijection

\* The place of a pair in the index.
Place(c, p) == Cardinality({q \in c.lru : Before(q, p)})

LEMMA PlacesAscend ==
    ASSUME NEW c \in Caches, IsFiniteSet(c.lru)
    PROVE  /\ Cardinality(c.lru) \in Nat
           /\ \A p \in c.lru : Place(c, p) \in Nat /\ Place(c, p) < Cardinality(c.lru)
           /\ \A p, q \in c.lru : Before(p, q) => Place(c, p) < Place(c, q)
<1>1. Cardinality(c.lru) \in Nat
  BY FS_CardinalityType
<1>2. \A p \in c.lru : p[1] \in Nat /\ p[2] \in Nat
  BY AuxiliaryCacheAssumption DEF Caches
<1>3. ASSUME NEW p \in c.lru
      PROVE  Place(c, p) \in Nat /\ Place(c, p) < Cardinality(c.lru)
  <2> DEFINE B == {q \in c.lru : Before(q, p)}
  <2>1. B \in SUBSET c.lru /\ p \notin B
    BY <1>2, <1>3 DEF Before
  <2> HIDE DEF B
  <2>2. /\ IsFiniteSet(B) /\ Cardinality(B) <= Cardinality(c.lru)
        /\ (Cardinality(c.lru) = Cardinality(B) => c.lru = B)
    BY <2>1, FS_Subset
  <2>3. Cardinality(B) \in Nat /\ Cardinality(B) < Cardinality(c.lru)
    BY <1>1, <1>3, <2>1, <2>2, FS_CardinalityType
  <2> QED
    BY <2>3 DEF Place, B
<1>4. ASSUME NEW p \in c.lru, NEW q \in c.lru, Before(p, q)
      PROVE  Place(c, p) < Place(c, q)
  <2> DEFINE B == {r \in c.lru : Before(r, p)}
             C == {r \in c.lru : Before(r, q)}
  <2>1. B \in SUBSET C
    <3> SUFFICES ASSUME NEW r \in B PROVE r \in C
      OBVIOUS
    <3>1. r \in c.lru /\ Before(r, p)
      OBVIOUS
    <3> QED
      BY <1>2, <1>4, <3>1 DEF Before
  <2>2. p \in C /\ p \notin B
    BY <1>2, <1>4 DEF Before
  <2>3. C \in SUBSET c.lru
    OBVIOUS
  <2>4. Place(c, p) = Cardinality(B) /\ Place(c, q) = Cardinality(C)
    BY DEF Place
  <2> HIDE DEF B, C
  <2>5. IsFiniteSet(C)
    BY <2>3, FS_Subset
  <2>6. /\ IsFiniteSet(B) /\ Cardinality(B) <= Cardinality(C)
        /\ (Cardinality(C) = Cardinality(B) => C = B)
    BY <2>1, <2>5, FS_Subset
  <2>7. Cardinality(B) \in Nat /\ Cardinality(C) \in Nat
    BY <2>5, <2>6, FS_CardinalityType
  <2>8. Cardinality(B) < Cardinality(C)
    BY <2>2, <2>6, <2>7
  <2> QED
    BY <2>4, <2>8
<1> QED
  BY <1>1, <1>3, <1>4

\* When the stamps are used up, an indexed entry is stamped with its place.
LEMMA RenumberedFields ==
    ASSUME NEW c \in Caches, NEW S, Indexed(c, S), ~ (c.next < MaxStamp)
    PROVE  LET link(o) == <<c.entries[o].stamp, o>>
               entries == [o \in DOMAIN c.entries |->
                             IF o \in S
                             THEN [c.entries[o] EXCEPT !.stamp = Place(c, link(o))]
                             ELSE c.entries[o]]
               lru == {<<Place(c, link(o)), o>> : o \in S}
           IN  Renumber(c) = [entries |-> entries, lru |-> lru, bytes |-> c.bytes,
                              next |-> Cardinality(lru)]
<1> DEFINE link(o) == <<c.entries[o].stamp, o>>
           linked == {p \in c.lru : p[2] \in DOMAIN c.entries}
           index == [p \in linked |-> Cardinality({q \in c.lru : Before(q, p)})]
           entries == [o \in DOMAIN c.entries |->
                         IF o \in S
                         THEN [c.entries[o] EXCEPT !.stamp = Place(c, link(o))]
                         ELSE c.entries[o]]
           lru == {<<Place(c, link(o)), o>> : o \in S}
<1>1. c.lru = {link(o) : o \in S} /\ S \subseteq DOMAIN c.entries
  BY DEF Indexed, Links
<1>2. linked = {link(o) : o \in S}
  BY <1>1
<1>3. \A o \in S : link(o) \in linked /\ link(o)[2] = o
  BY <1>2
<1>4. \A o \in S : index[link(o)] = Place(c, link(o))
  BY <1>3 DEF Place
<1>5. \A p \in linked : p[2] \in S /\ p = link(p[2])
  BY <1>2
<1> HIDE DEF linked, index, link
<1>6. \A o \in DOMAIN c.entries : (\E p \in linked : p[2] = o) <=> o \in S
  BY <1>3, <1>5
<1>7. \A o \in S : (CHOOSE p \in linked : p[2] = o) = link(o)
  <2> TAKE o \in S
  <2> DEFINE p == CHOOSE q \in linked : q[2] = o
  <2>1. p \in linked /\ p[2] = o
    BY <1>3
  <2> HIDE DEF p
  <2>2. p = link(o)
    BY <1>5, <2>1
  <2> QED
    BY <2>2 DEF p
<1>8. [o \in DOMAIN c.entries |->
         IF \E p \in linked : p[2] = o
         THEN [c.entries[o] EXCEPT !.stamp = index[CHOOSE p \in linked : p[2] = o]]
         ELSE c.entries[o]] = entries
  <2>1. ASSUME NEW o \in DOMAIN c.entries
        PROVE  (IF \E p \in linked : p[2] = o
                THEN [c.entries[o] EXCEPT !.stamp = index[CHOOSE p \in linked : p[2] = o]]
                ELSE c.entries[o])
               = IF o \in S THEN [c.entries[o] EXCEPT !.stamp = Place(c, link(o))]
                 ELSE c.entries[o]
    <3>1. CASE o \in S
      <4>1. index[CHOOSE p \in linked : p[2] = o] = Place(c, link(o))
        BY <1>4, <1>7, <3>1
      <4>2. \E p \in linked : p[2] = o
        BY <1>6, <3>1
      <4> QED
        BY <3>1, <4>1, <4>2
    <3>2. CASE o \notin S
      BY <1>6, <3>2
    <3> QED
      BY <3>1, <3>2
  <2> QED
    BY <2>1
<1>9. {<<index[p], p[2]>> : p \in linked} = lru
  <2>1. ASSUME NEW p \in linked PROVE <<index[p], p[2]>> \in lru
    BY <1>4, <1>5
  <2>2. ASSUME NEW o \in S PROVE <<Place(c, link(o)), o>> \in {<<index[p], p[2]>> : p \in linked}
    BY <1>3, <1>4
  <2> QED
    BY <2>1, <2>2
<1> HIDE DEF entries, lru
<1>10. Renumber(c) = [c EXCEPT !.entries = entries, !.lru = lru,
                               !.next = Cardinality(lru)]
  BY <1>8, <1>9 DEF Renumber, linked, index
<1>11. c = [entries |-> c.entries, lru |-> c.lru, bytes |-> c.bytes, next |-> c.next]
  BY DEF Caches
<1>12. Renumber(c) = [entries |-> entries, lru |-> lru, bytes |-> c.bytes,
                      next |-> Cardinality(lru)]
  BY <1>10, <1>11
<1> QED
  BY <1>12 DEF entries, lru, link

\* Stamps are never used up, and renumbering changes no order.
LEMMA Renumbered ==
    ASSUME NEW c \in Caches, NEW S, Indexed(c, S), c.next <= MaxStamp
    PROVE  Restamped(Renumber(c), c, S)
<1> DEFINE r == Renumber(c)
           e == c.entries
           link(o) == <<e[o].stamp, o>>
           D == DOMAIN c.entries
<1>1. c.next \in Nat /\ MaxStamp \in Nat /\ MaxStamp > Cardinality(Outpoints)
  BY AuxiliaryCacheAssumption DEF Caches
<1>2. CASE c.next < MaxStamp
  <2>1. r = c
    BY <1>2 DEF Renumber
  <2> QED
    BY <1>2, <2>1 DEF Restamped
<1>3. CASE ~ (c.next < MaxStamp)
  <2>0. /\ S \subseteq D /\ D \subseteq Outpoints /\ c.lru = Links(e, S)
        /\ \A o, p \in S : e[o].stamp = e[p].stamp => o = p
        /\ \A o \in D : e[o] \in Entry
    BY EntriesTyped DEF Indexed
  <2>1. /\ IsFiniteSet(c.lru) /\ IsFiniteSet(S)
        /\ Cardinality(c.lru) = Cardinality(S) /\ Cardinality(S) \in Nat
        /\ Cardinality(S) <= Cardinality(Outpoints)
    BY IndexSize
  <2>2. \A o \in S : link(o) \in c.lru
    BY <2>0 DEF Links
  <2>3. /\ \A o \in S : Place(c, link(o)) \in Nat /\ Place(c, link(o)) < Cardinality(S)
        /\ \A o, p \in S : Before(link(o), link(p)) => Place(c, link(o)) < Place(c, link(p))
    <3>1. /\ \A p \in c.lru : Place(c, p) \in Nat /\ Place(c, p) < Cardinality(c.lru)
          /\ \A p, q \in c.lru : Before(p, q) => Place(c, p) < Place(c, q)
      BY <2>1, PlacesAscend
    <3> HIDE DEF link
    <3> QED
      BY <2>1, <2>2, <3>1
  <2> DEFINE entries == [o \in D |-> IF o \in S
                                     THEN [e[o] EXCEPT !.stamp = Place(c, link(o))]
                                     ELSE e[o]]
             lru == {<<Place(c, link(o)), o>> : o \in S}
  <2>4. r = [entries |-> entries, lru |-> lru, bytes |-> c.bytes,
             next |-> Cardinality(lru)]
    BY <1>3, RenumberedFields
  <2> HIDE DEF r
  <2>5. /\ \A o \in D : /\ entries[o] \in Entry
                        /\ entries[o].script = e[o].script
                        /\ entries[o].bytes = e[o].bytes
        /\ \A o \in S : entries[o].stamp = Place(c, link(o))
        /\ DOMAIN entries = D
    <3>1. ASSUME NEW o \in D
          PROVE  /\ entries[o] \in Entry
                 /\ entries[o].script = e[o].script
                 /\ entries[o].bytes = e[o].bytes
                 /\ o \in S => entries[o].stamp = Place(c, link(o))
      <4>1. e[o] \in Entry
        BY <2>0
      <4>2. CASE o \in S
        <5> DEFINE n == Place(c, link(o))
        <5>1. n \in Nat /\ entries[o] = [e[o] EXCEPT !.stamp = n]
          BY <2>3, <4>2
        <5> HIDE DEF n, entries, e
        <5> QED
          BY <4>1, <5>1 DEF Entry, n
      <4>3. CASE o \notin S
        BY <4>1, <4>3
      <4> QED
        BY <4>2, <4>3
    <3> QED
      BY <2>0, <3>1
  <2>6. /\ r.entries = entries /\ r.lru = lru /\ r.bytes = c.bytes
        /\ r.next = Cardinality(lru)
    BY <2>4
  <2>7. lru = Links(entries, S)
    BY <2>5 DEF Links
  <2>8. entries \in EntryMaps
    <3>1. entries \in [D -> Entry]
      BY <2>5
    <3> HIDE DEF entries
    <3> QED
      BY <2>0, <3>1, EntryMapTyped
  <2> HIDE DEF entries, lru
  <2>9. Cardinality(lru) = Cardinality(S)
    BY <2>1, <2>7, LinksSize
  <2>10. lru \in SUBSET (Nat \X Outpoints)
    <3>1. \A o \in S : Place(c, link(o)) \in Nat /\ o \in Outpoints
      BY <2>0, <2>3
    <3>2. ASSUME NEW x \in lru PROVE x \in Nat \X Outpoints
      <4>1. PICK o \in S : x = <<Place(c, link(o)), o>>
        BY <3>2 DEF lru
      <4> HIDE DEF link
      <4> QED
        BY <3>1, <4>1
    <3> QED
      BY <3>2
  <2>11. r \in Caches
    <3>1. c.bytes \in Nat /\ Cardinality(lru) \in Nat
      BY <2>1, <2>9 DEF Caches
    <3> QED
      BY <2>4, <2>8, <2>10, <3>1 DEF Caches
  <2>12. \A o, p \in S : r.entries[o].stamp < r.entries[p].stamp
                           <=> e[o].stamp < e[p].stamp
    <3> SUFFICES ASSUME NEW o \in S, NEW p \in S
                 PROVE  Place(c, link(o)) < Place(c, link(p)) <=> e[o].stamp < e[p].stamp
      BY <2>5, <2>6
    <3>1. e[o].stamp \in Nat /\ e[p].stamp \in Nat
      BY <2>0 DEF Entry
    <3>2. e[o].stamp < e[p].stamp => Before(link(o), link(p))
      BY DEF Before
    <3>3. e[p].stamp < e[o].stamp => Before(link(p), link(o))
      BY DEF Before
    <3>4. Place(c, link(o)) \in Nat /\ Place(c, link(p)) \in Nat
      BY <2>3
    <3>5. e[o].stamp < e[p].stamp => Place(c, link(o)) < Place(c, link(p))
      BY <2>3, <3>2
    <3>6. e[p].stamp < e[o].stamp => Place(c, link(p)) < Place(c, link(o))
      BY <2>3, <3>3
    <3>7. e[o].stamp = e[p].stamp => o = p
      BY <2>0
    <3> HIDE DEF link, e
    <3> QED
      BY <3>1, <3>4, <3>5, <3>6, <3>7
  <2>13. \A o, p \in S : r.entries[o].stamp = r.entries[p].stamp => o = p
    <3> SUFFICES ASSUME NEW o \in S, NEW p \in S,
                        r.entries[o].stamp = r.entries[p].stamp
                 PROVE  o = p
      OBVIOUS
    <3>1. e[o].stamp \in Nat /\ e[p].stamp \in Nat
      BY <2>0 DEF Entry
    <3>2. r.entries[o].stamp \in Nat
      BY <2>3, <2>5, <2>6
    <3>3. ~ (e[o].stamp < e[p].stamp) /\ ~ (e[p].stamp < e[o].stamp)
      BY <2>12, <3>2
    <3> QED
      BY <2>0, <3>1, <3>3
  <2>14. \A o \in S : r.entries[o].stamp < r.next
    BY <2>3, <2>5, <2>6, <2>9
  <2>15. Indexed(r, S)
    BY <2>0, <2>5, <2>6, <2>7, <2>13, <2>14 DEF Indexed
  <2>16. r.next < MaxStamp
    <3>1. Cardinality(Outpoints) \in Nat
      BY FS_CardinalityType, AuxiliaryCacheAssumption
    <3> QED
      BY <1>1, <2>1, <2>6, <2>9, <3>1
  <2>17. Restamped(r, c, S)
    BY <2>5, <2>6, <2>11, <2>12, <2>15, <2>16 DEF Restamped
  <2> QED
    BY <2>17 DEF r
<1> QED
  BY <1>2, <1>3 DEF r

-----------------------------------------------------------------------------
(* get, remove_entry and insert *)

\* r is c after a use of o: the entries are the same, o is the newest, and
\* the others K keep their order.
Appended(r, c, K, o) ==
    /\ CacheOK(r)
    /\ DOMAIN r.entries = K \cup {o} /\ K \subseteq DOMAIN c.entries /\ o \notin K
    /\ \A p \in K : /\ r.entries[p].script = c.entries[p].script
                    /\ r.entries[p].stamp < r.entries[o].stamp
    /\ \A p, q \in K : r.entries[p].stamp < r.entries[q].stamp
                         <=> c.entries[p].stamp < c.entries[q].stamp

LEMMA UnlinkedFields ==
    ASSUME NEW c, CacheOK(c), NEW o \in DOMAIN c.entries
    PROVE  /\ Unlink(c, o) \in Caches
           /\ Unlink(c, o).entries = c.entries /\ Unlink(c, o).bytes = c.bytes
           /\ Unlink(c, o).next = c.next
           /\ Indexed(Unlink(c, o), DOMAIN c.entries \ {o})
<1> DEFINE u == Unlink(c, o)
           D == DOMAIN c.entries
<1>1. c \in Caches /\ Indexed(c, D)
  BY DEF CacheOK
<1>2. u = [entries |-> c.entries, lru |-> c.lru \ {<<c.entries[o].stamp, o>>},
           bytes |-> c.bytes, next |-> c.next]
  <2>1. c = [entries |-> c.entries, lru |-> c.lru, bytes |-> c.bytes, next |-> c.next]
    BY <1>1 DEF Caches
  <2> QED
    BY <2>1 DEF Unlink
<1> HIDE DEF u
<1>3. /\ u.entries = c.entries /\ u.bytes = c.bytes /\ u.next = c.next
      /\ u.lru = c.lru \ {<<c.entries[o].stamp, o>>}
  BY <1>2
<1>4. u \in Caches
  <2>1. /\ c.entries \in EntryMaps /\ c.lru \in SUBSET (Nat \X Outpoints)
        /\ c.bytes \in Nat /\ c.next \in Nat
    BY <1>1 DEF Caches
  <2> QED
    BY <1>2, <2>1 DEF Caches
<1>5. u.lru = Links(c.entries, D \ {o})
  BY <1>1, <1>3 DEF Indexed, Links
<1>6. Indexed(u, D \ {o})
  BY <1>1, <1>3, <1>5 DEF Indexed
<1> QED
  BY <1>3, <1>4, <1>6 DEF u

\* t is r with the entries e: those K of the index, and o with the next stamp.
Push(t, r, K, o, s, e) ==
    /\ r \in Caches /\ Indexed(r, K) /\ r.next < MaxStamp
    /\ o \in Outpoints /\ o \notin K /\ s \in Scripts
    /\ e \in [K \cup {o} -> Entry]
    /\ e[o] = [script |-> s, bytes |-> ScriptBytes[s], stamp |-> r.next]
    /\ \A p \in K : e[p] = r.entries[p] /\ e[p].bytes = ScriptBytes[e[p].script]
    /\ t = [entries |-> e, lru |-> r.lru \cup {<<r.next, o>>},
            bytes |-> Total(ScriptWeights(e, K \cup {o})), next |-> r.next + 1]

\* An entry with the next stamp goes to the end of the index.
LEMMA Pushed ==
    ASSUME NEW t, NEW r, NEW K, NEW o, NEW s, NEW e, Push(t, r, K, o, s, e)
    PROVE  /\ CacheOK(t) /\ DOMAIN t.entries = K \cup {o}
           /\ \A p \in K : t.entries[p] = r.entries[p]
                           /\ t.entries[p].stamp < t.entries[o].stamp
<1> SUFFICES ASSUME
       r \in Caches, Indexed(r, K), r.next < MaxStamp,
       o \in Outpoints, o \notin K, s \in Scripts,
       e \in [K \cup {o} -> Entry],
       e[o] = [script |-> s, bytes |-> ScriptBytes[s], stamp |-> r.next],
       \A p \in K : e[p] = r.entries[p] /\ e[p].bytes = ScriptBytes[e[p].script],
       t = [entries |-> e, lru |-> r.lru \cup {<<r.next, o>>},
            bytes |-> Total(ScriptWeights(e, K \cup {o})), next |-> r.next + 1]
     PROVE  /\ CacheOK(t) /\ DOMAIN t.entries = K \cup {o}
            /\ \A p \in K : t.entries[p] = r.entries[p]
                            /\ t.entries[p].stamp < t.entries[o].stamp
  BY DEF Push
<1> DEFINE D == K \cup {o}
<1>1. /\ t.entries = e /\ t.lru = r.lru \cup {<<r.next, o>>}
      /\ t.bytes = Total(ScriptWeights(e, D)) /\ t.next = r.next + 1
  OBVIOUS
<1>2. /\ r.next \in Nat /\ MaxStamp \in Nat /\ r.lru \in SUBSET (Nat \X Outpoints)
  BY AuxiliaryCacheAssumption DEF Caches
<1>3. /\ K \subseteq DOMAIN r.entries /\ r.lru = Links(r.entries, K)
      /\ \A p \in K : r.entries[p].stamp < r.next
      /\ \A p, q \in K : r.entries[p].stamp = r.entries[q].stamp => p = q
  BY DEF Indexed
<1>4. e[o].stamp = r.next /\ e[o].script = s /\ e[o].bytes = ScriptBytes[s]
  OBVIOUS
<1>5. DOMAIN e = D /\ D \in SUBSET Outpoints
  BY <1>3, EntriesTyped
<1>6. t.lru = Links(e, D)
  <2>1. Links(e, D) = Links(e, K) \cup {<<e[o].stamp, o>>}
    BY DEF Links
  <2>2. Links(e, K) = Links(r.entries, K)
    BY DEF Links
  <2> QED
    BY <1>1, <1>3, <1>4, <2>1, <2>2
<1>7. \A p \in K : e[p].stamp \in Nat /\ e[p].stamp < r.next
  BY <1>3 DEF Entry
<1>8. Indexed(t, D)
  <2>1. \A p \in D : t.entries[p].stamp < t.next
    BY <1>1, <1>2, <1>4, <1>7
  <2>2. \A p, q \in D : t.entries[p].stamp = t.entries[q].stamp => p = q
    <3> SUFFICES ASSUME NEW p \in D, NEW q \in D, e[p].stamp = e[q].stamp
                 PROVE  p = q
      BY <1>1
    <3>1. CASE p \in K /\ q \in K
      BY <1>3, <3>1
    <3>2. CASE p \notin K \/ q \notin K
      BY <1>2, <1>4, <1>7, <3>2
    <3> QED
      BY <3>1, <3>2
  <2> QED
    BY <1>1, <1>5, <1>6, <2>1, <2>2 DEF Indexed
<1>9. e \in EntryMaps
  BY <1>5, EntryMapTyped
<1> DEFINE x == [entries |-> e, lru |-> t.lru, bytes |-> 0, next |-> t.next]
<1>10. t.lru \in SUBSET (Nat \X Outpoints) /\ t.next \in Nat
  BY <1>1, <1>2
<1>11. x \in Caches
  BY <1>9, <1>10 DEF Caches
<1>12. IsWeighing(ScriptWeights(e, D))
  <2>1. x.entries = e
    OBVIOUS
  <2> HIDE DEF x
  <2> QED
    BY <1>5, <1>11, <2>1, ScriptsWeigh
<1>13. t.bytes \in Nat
  BY <1>1, <1>12, TotalType
<1>14. t \in Caches
  <2>1. t = [entries |-> t.entries, lru |-> t.lru, bytes |-> t.bytes, next |-> t.next]
    OBVIOUS
  <2> QED
    BY <1>1, <1>9, <1>10, <1>13, <2>1 DEF Caches
<1>15. Counted(t)
  BY <1>1, <1>4, <1>5 DEF Counted
<1>16. t.next <= MaxStamp
  BY <1>1, <1>2
<1>17. CacheOK(t)
  BY <1>1, <1>5, <1>8, <1>14, <1>15, <1>16 DEF CacheOK
<1> QED
  BY <1>1, <1>4, <1>5, <1>7, <1>17

LEMMA Touched ==
    ASSUME NEW c, CacheOK(c), NEW o \in DOMAIN c.entries
    PROVE  /\ Appended(Touch(c, o), c, DOMAIN c.entries \ {o}, o)
           /\ Touch(c, o).entries[o].script = c.entries[o].script
           /\ Touch(c, o).bytes = c.bytes
<1> DEFINE D == DOMAIN c.entries
           K == D \ {o}
           u == Unlink(c, o)
           r == Renumber(u)
           s == c.entries[o].script
           e == [r.entries EXCEPT ![o].stamp = r.next]
           t == Touch(c, o)
<1>0. t = [r EXCEPT !.entries[o].stamp = r.next, !.lru = @ \cup {<<r.next, o>>},
                    !.next = @ + 1]
  BY DEF Touch
<1>1. c \in Caches /\ c.next <= MaxStamp /\ Counted(c)
  BY DEF CacheOK
<1>2. /\ u \in Caches /\ u.entries = c.entries /\ u.bytes = c.bytes /\ u.next = c.next
      /\ Indexed(u, K)
  BY UnlinkedFields
<1> HIDE DEF u
<1>3. Restamped(r, u, K)
  BY <1>1, <1>2, Renumbered
<1> HIDE DEF r, t
<1>4. /\ r \in Caches /\ Indexed(r, K) /\ r.next < MaxStamp /\ r.bytes = c.bytes
      /\ DOMAIN r.entries = D
      /\ \A p \in D : /\ r.entries[p].script = c.entries[p].script
                      /\ r.entries[p].bytes = c.entries[p].bytes
      /\ \A p, q \in K : r.entries[p].stamp < r.entries[q].stamp
                           <=> c.entries[p].stamp < c.entries[q].stamp
  BY <1>2, <1>3 DEF Restamped
<1>5. /\ r.entries \in [D -> Entry] /\ r.next \in Nat /\ D \subseteq Outpoints
      /\ s \in Scripts
  BY <1>1, <1>4, EntriesTyped DEF Caches, Entry
<1>6. \A p \in D : c.entries[p].bytes = ScriptBytes[c.entries[p].script]
  BY <1>1 DEF Counted
<1>7. /\ e \in [D -> Entry]
      /\ e[o] = [script |-> s, bytes |-> ScriptBytes[s], stamp |-> r.next]
      /\ \A p \in K : e[p] = r.entries[p]
  <2>1. r.entries[o] \in Entry /\ r.entries[o].script = s
        /\ r.entries[o].bytes = ScriptBytes[s]
    BY <1>4, <1>5, <1>6
  <2>2. r.entries[o] = [script |-> s, bytes |-> ScriptBytes[s], stamp |-> r.entries[o].stamp]
    BY <2>1 DEF Entry
  <2> DEFINE n == [r.entries[o] EXCEPT !.stamp = r.next]
  <2>3. n = [script |-> s, bytes |-> ScriptBytes[s], stamp |-> r.next]
    BY <2>2
  <2>4. n \in Entry
    BY <1>5, <2>1, <2>3 DEF Entry
  <2>5. e = [r.entries EXCEPT ![o] = n]
    OBVIOUS
  <2> HIDE DEF n, e
  <2>6. e[o] = n /\ \A p \in K : e[p] = r.entries[p]
    BY <1>5, <2>5
  <2>7. e \in [D -> Entry]
    BY <1>5, <2>4, <2>5
  <2> QED
    BY <2>3, <2>6, <2>7
<1>8. t = [entries |-> e, lru |-> r.lru \cup {<<r.next, o>>},
           bytes |-> c.bytes, next |-> r.next + 1]
  <2>1. r = [entries |-> r.entries, lru |-> r.lru, bytes |-> r.bytes, next |-> r.next]
    BY <1>4 DEF Caches
  <2>2. t = [r EXCEPT !.entries = e, !.lru = @ \cup {<<r.next, o>>}, !.next = @ + 1]
    BY <1>0
  <2> HIDE DEF e
  <2> QED
    BY <1>4, <2>1, <2>2
<1> HIDE DEF e
<1>9. c.bytes = Total(ScriptWeights(e, K \cup {o}))
  <2>1. \A p \in D : e[p].script = c.entries[p].script
    BY <1>4, <1>7
  <2>2. ScriptWeights(e, D) = ScriptWeights(c.entries, D)
    BY <2>1, SameWeights
  <2>3. K \cup {o} = D
    OBVIOUS
  <2> QED
    BY <1>1, <2>2, <2>3 DEF Counted
<1>10. /\ CacheOK(t) /\ DOMAIN t.entries = K \cup {o}
       /\ \A p \in K : t.entries[p] = r.entries[p]
                       /\ t.entries[p].stamp < t.entries[o].stamp
  <2>1. e \in [K \cup {o} -> Entry]
    BY <1>7
  <2>2. \A p \in K : e[p] = r.entries[p] /\ e[p].bytes = ScriptBytes[e[p].script]
    BY <1>4, <1>6, <1>7
  <2>3. o \in Outpoints /\ o \notin K
    BY <1>5
  <2>4. t = [entries |-> e, lru |-> r.lru \cup {<<r.next, o>>},
             bytes |-> Total(ScriptWeights(e, K \cup {o})), next |-> r.next + 1]
    BY <1>8, <1>9
  <2>5. e[o] = [script |-> s, bytes |-> ScriptBytes[s], stamp |-> r.next]
    BY <1>7
  <2>6. r \in Caches /\ Indexed(r, K) /\ r.next < MaxStamp /\ s \in Scripts
    BY <1>4, <1>5
  <2>7. Push(t, r, K, o, s, e)
    BY <2>1, <2>2, <2>3, <2>4, <2>5, <2>6 DEF Push
  <2> HIDE DEF K, s
  <2> QED
    BY <2>7, Pushed
<1>11. t.entries = e /\ t.bytes = c.bytes
  BY <1>8
<1>12. t.entries[o].script = s
  BY <1>7, <1>11
<1>13. Appended(t, c, K, o)
  <2>1. \A p, q \in K : t.entries[p].stamp < t.entries[q].stamp
                          <=> c.entries[p].stamp < c.entries[q].stamp
    BY <1>4, <1>10
  <2>2. \A p \in K : t.entries[p].script = c.entries[p].script
    BY <1>4, <1>10
  <2> QED
    BY <1>10, <2>1, <2>2 DEF Appended
<1> QED
  BY <1>11, <1>12, <1>13 DEF t

\* Fewer entries never weigh more.
LEMMA CutWeighsLess ==
    ASSUME NEW c, CacheOK(c), NEW r, NEW K, CutTo(r, c, K)
    PROVE  r.bytes <= c.bytes
<1>1. /\ c \in Caches /\ c.bytes = Total(ScriptWeights(c.entries, DOMAIN c.entries))
      /\ r.bytes = Total(ScriptWeights(r.entries, K)) /\ K \in SUBSET DOMAIN c.entries
      /\ \A o \in K : r.entries[o] = c.entries[o]
  BY DEF CacheOK, CutTo, Counted
<1>2. ScriptWeights(r.entries, K) = ScriptWeights(c.entries, K)
  BY <1>1, SameWeights
<1> DEFINE D == DOMAIN c.entries
           f == ScriptWeights(c.entries, D)
           h == ScriptWeights(c.entries, K)
<1>3. /\ IsWeighing(f) /\ DOMAIN f = D
      /\ \A o \in D : f[o] = ScriptBytes[c.entries[o].script]
  BY <1>1, ScriptsWeigh
<1>4. /\ IsWeighing(h) /\ DOMAIN h = K
      /\ \A o \in K : h[o] = ScriptBytes[c.entries[o].script]
  BY <1>1, ScriptsWeigh
<1> HIDE DEF f, h
<1>5. Total(h) <= Total(f)
  BY <1>1, <1>3, <1>4, TotalOfPart
<1> QED
  BY <1>1, <1>2, <1>5 DEF f, h

\* An entry that is forgotten takes its weight with it, the others stay.
LEMMA Forgotten ==
    ASSUME NEW c, CacheOK(c), NEW o \in Outpoints
    PROVE  CutTo(Forget(c, o), c, DOMAIN c.entries \ {o}) /\ Forget(c, o).bytes <= c.bytes
<1> DEFINE D == DOMAIN c.entries
           r == Forget(c, o)
<1>1. c \in Caches /\ Counted(c)
  BY DEF CacheOK
<1>2. CutTo(r, c, D \ {o})
  <2>1. CASE o \in D
    <3>1. r = DropEntry(Unlink(c, o), o)
      BY <2>1 DEF Forget
    <3> HIDE DEF r
    <3> QED
      BY <2>1, <3>1, Dropped
  <2>2. CASE o \notin D
    <3>1. r = c /\ D \ {o} = D
      BY <2>2 DEF Forget
    <3> QED
      BY <3>1, NothingCut
  <2> QED
    BY <2>1, <2>2
<1> HIDE DEF r
<1>3. r.bytes <= c.bytes
  BY <1>2, CutWeighsLess
<1> QED
  BY <1>2, <1>3 DEF r

\* A script that conflicts with none and can fit becomes the newest entry;
\* of the others, the most is kept that leaves it room.
LEMMA Inserted ==
    ASSUME NEW c, CacheOK(c), NEW o \in Outpoints, NEW s \in Scripts,
           NEW reserved \in Nat,
           ~ (o \in DOMAIN c.entries /\ c.entries[o].script # s),
           ScriptBytes[s] <= Available(reserved)
    PROVE  \E K : 
             /\ Appended(InsertScript(c, o, s, reserved), c, K, o)
             /\ InsertScript(c, o, s, reserved).entries[o].script = s
             /\ InsertScript(c, o, s, reserved).bytes <= Available(reserved)
             /\ LET f == Forget(c, o)
                    room == Available(reserved) - ScriptBytes[s]
                IN  /\ Fits(f, K, room)
                    /\ \A L : Fits(f, L, room) => L \subseteq K
<1> DEFINE D == DOMAIN c.entries
           f == Forget(c, o)
           w == ScriptBytes[s]
           room == SaturatingSub(Available(reserved), w)
           x == ShrinkTo(f, room)
           r == Renumber(x)
           t == InsertScript(c, o, s, reserved)
           K == DOMAIN x.entries
           e == With(r.entries, o, [script |-> s, bytes |-> w, stamp |-> r.next])
<1>0. w \in Nat \ {0} /\ Available(reserved) \in Nat
  BY AuxiliaryCacheAssumption DEF Available, SaturatingSub
<1>1. room \in Nat /\ room = Available(reserved) - w
  BY <1>0 DEF SaturatingSub
<1>2. t = [entries |-> e, lru |-> r.lru \cup {<<r.next, o>>},
           bytes |-> r.bytes + w, next |-> r.next + 1]
  BY <1>0 DEF InsertScript
<1> HIDE DEF t
<1>3. CutTo(f, c, D \ {o}) /\ CacheOK(f)
  BY Forgotten DEF CutTo
<1> HIDE DEF f, room, w
<1>4. Shrinking(x, f, room) /\ x.bytes <= room
  BY <1>1, <1>3, Shrunk
<1> HIDE DEF x
<1>5. /\ CutTo(x, f, K) /\ LatestIn(f, K) /\ CacheOK(x)
      /\ \A L : Fits(f, L, room) => L \subseteq K
  BY <1>4 DEF Shrinking, CutTo
<1>6. /\ K \subseteq D /\ o \notin K
      /\ \A p \in K : x.entries[p] = c.entries[p] /\ x.entries[p] = f.entries[p]
  BY <1>3, <1>5 DEF CutTo
<1>7. Restamped(r, x, K)
  BY <1>5, Renumbered DEF CacheOK
<1> HIDE DEF r
<1>8. /\ r \in Caches /\ Indexed(r, K) /\ r.next < MaxStamp /\ r.bytes = x.bytes
      /\ DOMAIN r.entries = K
      /\ \A p \in K : /\ r.entries[p].script = x.entries[p].script
                      /\ r.entries[p].bytes = x.entries[p].bytes
      /\ \A p, q \in K : r.entries[p].stamp < r.entries[q].stamp
                           <=> x.entries[p].stamp < x.entries[q].stamp
  BY <1>7 DEF Restamped
<1>9. r.entries \in [K -> Entry] /\ r.next \in Nat /\ K \subseteq Outpoints
  BY <1>8, EntriesTyped DEF Caches
<1> DEFINE n == [script |-> s, bytes |-> w, stamp |-> r.next]
<1>10. e = [p \in K \cup {o} |-> IF p = o THEN n ELSE r.entries[p]]
  BY <1>8 DEF With
<1>11. n \in Entry
  BY <1>0, <1>9 DEF Entry
<1> HIDE DEF n, e
<1>12. e \in [K \cup {o} -> Entry] /\ e[o] = n /\ \A p \in K : e[p] = r.entries[p]
  BY <1>6, <1>9, <1>10, <1>11
<1>13. /\ x.bytes = Total(ScriptWeights(x.entries, K)) /\ x \in Caches
       /\ \A p \in K : x.entries[p].bytes = ScriptBytes[x.entries[p].script]
  BY <1>5 DEF CacheOK, Counted
<1>14. /\ Total(ScriptWeights(e, K \cup {o})) = r.bytes + w
       /\ Total(ScriptWeights(x.entries, K)) \in Nat
  <2> DEFINE y == [entries |-> e, lru |-> {}, bytes |-> 0, next |-> 0]
             S == K \cup {o}
  <2>1. e \in EntryMaps
    BY <1>9, <1>12, EntryMapTyped
  <2>2. y \in Caches /\ y.entries = e /\ DOMAIN e = S
    BY <1>12, <2>1 DEF Caches
  <2>3. S \in SUBSET DOMAIN y.entries /\ o \in S
    BY <2>2
  <2>4. S \ {o} = K
    BY <1>6
  <2> HIDE DEF y, S, K
  <2>5. /\ Total(ScriptWeights(e, S)) = ScriptBytes[e[o].script] + Total(ScriptWeights(e, K))
        /\ Total(ScriptWeights(e, K)) \in Nat
    BY <2>2, <2>3, <2>4, WeightWithout
  <2>6. ScriptBytes[e[o].script] = w
    BY <1>12 DEF n, w
  <2>7. ScriptWeights(e, K) = ScriptWeights(x.entries, K)
    BY <1>8, <1>12, SameWeights
  <2> QED
    BY <1>0, <1>8, <1>13, <2>5, <2>6, <2>7 DEF S
<1>15. /\ CacheOK(t) /\ DOMAIN t.entries = K \cup {o}
       /\ \A p \in K : t.entries[p] = r.entries[p]
                       /\ t.entries[p].stamp < t.entries[o].stamp
  <2>1. \A p \in K : e[p] = r.entries[p] /\ e[p].bytes = ScriptBytes[e[p].script]
    BY <1>8, <1>12, <1>13
  <2>2. t = [entries |-> e, lru |-> r.lru \cup {<<r.next, o>>},
             bytes |-> Total(ScriptWeights(e, K \cup {o})), next |-> r.next + 1]
    BY <1>2, <1>14
  <2>3. e[o] = [script |-> s, bytes |-> ScriptBytes[s], stamp |-> r.next]
    BY <1>12 DEF n, w
  <2>4. r \in Caches /\ Indexed(r, K) /\ r.next < MaxStamp /\ o \notin K
        /\ e \in [K \cup {o} -> Entry]
    BY <1>6, <1>8, <1>12
  <2>5. Push(t, r, K, o, s, e)
    BY <2>1, <2>2, <2>3, <2>4 DEF Push
  <2> HIDE DEF K
  <2> QED
    BY <2>5, Pushed
<1>16. t.entries = e /\ t.bytes = r.bytes + w
  BY <1>2
<1>17. t.entries[o].script = s
  BY <1>12, <1>16 DEF n
<1>18. t.bytes <= Available(reserved)
  BY <1>0, <1>1, <1>4, <1>8, <1>13, <1>14, <1>16
<1>19. Appended(t, c, K, o)
  <2>1. \A p, q \in K : t.entries[p].stamp < t.entries[q].stamp
                          <=> c.entries[p].stamp < c.entries[q].stamp
    BY <1>6, <1>8, <1>15
  <2>2. \A p \in K : t.entries[p].script = c.entries[p].script
    BY <1>6, <1>8, <1>15
  <2> QED
    BY <1>6, <1>15, <2>1, <2>2 DEF Appended
<1>20. Fits(f, K, room)
  <2>1. ScriptWeights(x.entries, K) = ScriptWeights(f.entries, K)
    BY <1>6, SameWeights
  <2> QED
    BY <1>4, <1>5, <1>13, <2>1 DEF Fits
<1> QED
  BY <1>1, <1>5, <1>17, <1>18, <1>19, <1>20 DEF f, t, room, w

-----------------------------------------------------------------------------
(* Retained outputs *)

LEMMA MembershipTyped ==
    ASSUME NEW f \in Memberships
    PROVE  DOMAIN f \subseteq Txids /\ f \in [DOMAIN f -> Wtxids]
<1>1. PICK S \in SUBSET Txids : f \in [S -> Wtxids]
  BY DEF Memberships
<1> QED
  BY <1>1

LEMMA OutputsWeigh ==
    ASSUME NEW f \in Memberships, IsFiniteSet(DOMAIN f)
    PROVE  /\ IsWeighing(OutputWeights(f))
           /\ DOMAIN OutputWeights(f) = DOMAIN f
           /\ \A t \in DOMAIN f : /\ OutputWeights(f)[t] = OutputBytes[f[t]]
                                  /\ OutputBytes[f[t]] \in Nat \ {0}
           /\ Total(OutputWeights(f)) \in Nat
<1>1. \A t \in DOMAIN f : f[t] \in Wtxids
  BY MembershipTyped
<1>2. \A t \in DOMAIN f : OutputBytes[f[t]] \in Nat \ {0}
  BY <1>1, AuxiliaryCacheAssumption
<1>3. IsWeighing(OutputWeights(f)) /\ DOMAIN OutputWeights(f) = DOMAIN f
  BY <1>2 DEF OutputWeights, IsWeighing
<1> QED
  BY <1>2, <1>3, TotalType DEF OutputWeights

\* The total that insert_outputs computes.
TotalWith(work_, t, w) ==
    SaturatingSub(work_.bytes, IF t \in DOMAIN work_.outputs
                               THEN OutputBytes[work_.outputs[t]] ELSE 0)
    + OutputBytes[w]

\* It is what the outputs will weigh: those of another variant are not counted
\* twice.
LEMMA OutputsCounted ==
    ASSUME NEW k, WorkOK(k), NEW t \in Txids, NEW w \in Wtxids
    PROVE  /\ With(k.outputs, t, w) \in Memberships
           /\ IsFiniteSet(DOMAIN With(k.outputs, t, w))
           /\ TotalWith(k, t, w) = Total(OutputWeights(With(k.outputs, t, w)))
           /\ TotalWith(k, t, w) \in Nat
<1> DEFINE f == k.outputs
           D == DOMAIN f
           n == With(f, t, w)
           rest == [u \in D \ {t} |-> f[u]]
           old == IF t \in D THEN OutputBytes[f[t]] ELSE 0
<1>1. /\ f \in Memberships /\ IsFiniteSet(D) /\ k.bytes = Total(OutputWeights(f))
      /\ k.bytes \in Nat
  BY DEF WorkOK, Works
<1>2. D \subseteq Txids /\ f \in [D -> Wtxids]
  BY <1>1, MembershipTyped
<1>3. n = [u \in D \cup {t} |-> IF u = t THEN w ELSE f[u]]
  BY DEF With
<1>4. n \in [D \cup {t} -> Wtxids] /\ D \cup {t} \in SUBSET Txids
  BY <1>2, <1>3
<1>5. n \in Memberships /\ DOMAIN n = D \cup {t}
  BY <1>4 DEF Memberships
<1>6. IsFiniteSet(DOMAIN n)
  BY <1>1, <1>5, FS_AddElement
<1>7. rest \in Memberships /\ DOMAIN rest = D \ {t} /\ IsFiniteSet(DOMAIN rest)
  <2>1. rest \in [D \ {t} -> Wtxids] /\ D \ {t} \in SUBSET Txids
    BY <1>2
  <2>2. IsFiniteSet(D \ {t})
    BY <1>1, FS_RemoveElement
  <2> HIDE DEF rest, D
  <2> QED
    BY <2>1, <2>2 DEF Memberships
<1>8. /\ IsWeighing(OutputWeights(n)) /\ DOMAIN OutputWeights(n) = D \cup {t}
      /\ \A u \in D \cup {t} : OutputWeights(n)[u] = OutputBytes[n[u]]
      /\ Total(OutputWeights(n)) \in Nat
  <2> HIDE DEF n
  <2> QED
    BY <1>5, <1>6, OutputsWeigh
<1>9. /\ IsWeighing(OutputWeights(rest)) /\ DOMAIN OutputWeights(rest) = D \ {t}
      /\ \A u \in D \ {t} : OutputWeights(rest)[u] = OutputBytes[f[u]]
      /\ Total(OutputWeights(rest)) \in Nat
  <2>1. \A u \in D \ {t} : rest[u] = f[u]
    OBVIOUS
  <2> HIDE DEF rest
  <2> QED
    BY <1>7, <2>1, OutputsWeigh
<1>10. /\ IsWeighing(OutputWeights(f)) /\ DOMAIN OutputWeights(f) = D
       /\ \A u \in D : OutputWeights(f)[u] = OutputBytes[f[u]]
       /\ \A u \in D : OutputBytes[f[u]] \in Nat
  BY <1>1, OutputsWeigh
<1>11. n[t] = w /\ \A u \in D \ {t} : n[u] = f[u]
  BY <1>3
<1>12. OutputBytes[w] \in Nat
  BY AuxiliaryCacheAssumption
<1> HIDE DEF n, rest
<1>13. Total(OutputWeights(n)) = OutputBytes[w] + Total(OutputWeights(rest))
  <2>1. \A u \in D \ {t} : OutputWeights(rest)[u] = OutputWeights(n)[u]
    BY <1>8, <1>9, <1>11
  <2>2. OutputWeights(n)[t] = OutputBytes[w]
    BY <1>8, <1>11
  <2>3. D \ {t} = (D \cup {t}) \ {t} /\ t \in D \cup {t}
    OBVIOUS
  <2> HIDE DEF D, f
  <2> QED
    BY <1>8, <1>9, <2>1, <2>2, <2>3, TotalSplit
<1>14. k.bytes = old + Total(OutputWeights(rest)) /\ old \in Nat
  <2>1. CASE t \in D
    <3>1. \A u \in D \ {t} : OutputWeights(rest)[u] = OutputWeights(f)[u]
      BY <1>9, <1>10
    <3>2. OutputWeights(f)[t] = OutputBytes[f[t]] /\ old = OutputBytes[f[t]]
      BY <1>10, <2>1
    <3> HIDE DEF D, f, old
    <3>3. Total(OutputWeights(f)) = OutputWeights(f)[t] + Total(OutputWeights(rest))
      BY <1>9, <1>10, <2>1, <3>1, TotalSplit
    <3> QED
      BY <1>1, <1>10, <2>1, <3>2, <3>3
  <2>2. CASE t \notin D
    <3>1. D \ {t} = D /\ old = 0
      BY <2>2
    <3>2. rest = f
      BY <1>2, <3>1 DEF rest
    <3> QED
      BY <1>1, <3>1, <3>2
  <2> QED
    BY <2>1, <2>2
<1>15. TotalWith(k, t, w) = SaturatingSub(k.bytes, old) + OutputBytes[w]
  BY DEF TotalWith
<1> HIDE DEF old
<1>16. TotalWith(k, t, w) = Total(OutputWeights(n))
  BY <1>1, <1>9, <1>12, <1>13, <1>14, <1>15 DEF SaturatingSub
<1> QED
  BY <1>5, <1>6, <1>8, <1>16 DEF n

\* insert_outputs keeps the budget: either nothing changes, or the outputs are
\* stored and the scripts shrink to what is left.
LEMMA OutputsInserted ==
    ASSUME NEW c, CacheOK(c), NEW k, WorkOK(k), c.bytes + k.bytes <= MaximumBytes,
           NEW t \in Txids, NEW w \in Wtxids,
           NEW both, both = InsertOutputs([cache |-> c, work |-> k], t, w)
    PROVE  \/ /\ TotalWith(k, t, w) > MaximumBytes
              /\ both.cache = c /\ both.work = k
           \/ /\ TotalWith(k, t, w) <= MaximumBytes
              /\ both.work = [outputs |-> With(k.outputs, t, w), bytes |-> TotalWith(k, t, w)]
              /\ both.cache = ShrinkTo(c, MaximumBytes - TotalWith(k, t, w))
              /\ WorkOK(both.work) /\ CacheOK(both.cache)
              /\ both.cache.bytes + both.work.bytes <= MaximumBytes
<1> DEFINE n == With(k.outputs, t, w)
           total == TotalWith(k, t, w)
<1>1. /\ n \in Memberships /\ IsFiniteSet(DOMAIN n)
      /\ total = Total(OutputWeights(n)) /\ total \in Nat
  BY OutputsCounted
<1>2. MaximumBytes \in Nat
  BY AuxiliaryCacheAssumption
<1>3. both = IF total > MaximumBytes THEN [cache |-> c, work |-> k]
             ELSE [cache |-> ShrinkTo(c, Available(total)),
                   work  |-> [outputs |-> n, bytes |-> total]]
  BY DEF InsertOutputs, TotalWith
<1> HIDE DEF n, total
<1>4. CASE total > MaximumBytes
  BY <1>3, <1>4 DEF total
<1>5. CASE ~ (total > MaximumBytes)
  <2>1. total <= MaximumBytes /\ Available(total) = MaximumBytes - total
        /\ Available(total) \in Nat
    BY <1>1, <1>2, <1>5 DEF Available, SaturatingSub
  <2>2. /\ both.cache = ShrinkTo(c, Available(total))
        /\ both.work = [outputs |-> n, bytes |-> total]
    BY <1>3, <1>5
  <2>3. WorkOK(both.work)
    BY <1>1, <2>2 DEF WorkOK, Works
  <2>4. CacheOK(both.cache) /\ both.cache.bytes <= Available(total)
    BY <2>1, <2>2, Shrunk DEF Shrinking, CutTo
  <2>5. both.cache.bytes \in Nat
    BY <2>4 DEF CacheOK, Caches
  <2>6. both.work.bytes = total
    BY <2>2
  <2>7. both.cache.bytes + both.work.bytes <= MaximumBytes
    BY <1>1, <1>2, <2>1, <2>4, <2>5, <2>6
  <2> QED
    BY <2>1, <2>2, <2>3, <2>4, <2>7 DEF total, n
<1> QED
  BY <1>4, <1>5

\* An order of a finite set holds each of its elements at one place.
LEMMA OrderHolds ==
    ASSUME NEW S, IsFiniteSet(S), NEW s \in SetToSeqs(S)
    PROVE  /\ Len(s) = Cardinality(S) /\ Len(s) \in Nat
           /\ DOMAIN s = 1..Len(s)
           /\ \A i \in 1..Len(s) : s[i] \in S
           /\ \A x \in S : \E i \in 1..Len(s) : s[i] = x
           /\ \A i, j \in 1..Len(s) : s[i] = s[j] => i = j
<1> DEFINE n == Cardinality(S)
           D == 1..n
<1>1. n \in Nat
  BY FS_CardinalityType
<1>2. s \in [D -> S] /\ \A i, j \in D : i # j => s[i] # s[j]
  BY DEF SetToSeqs
<1>3. s \in Injection(D, S)
  BY <1>2 DEF Injection, IsInjective
<1>4. Cardinality(D) = n
  BY <1>1, FS_Interval
<1>5. s \in Surjection(D, S)
  <2> HIDE DEF D, n
  <2>1. Cardinality(D) = Cardinality(S)
    BY <1>4 DEF n
  <2> QED
    BY <1>3, <2>1, FS_Injection
<1>6. \A x \in S : \E i \in D : s[i] = x
  BY <1>5 DEF Surjection
<1>7. s \in Seq(S) /\ Len(s) = n
  BY <1>1, <1>2
<1> QED
  BY <1>1, <1>2, <1>6, <1>7

\* Finitely many naturals have an ascending order: each has the place that as
\* many smaller ones leave it.
LEMMA AscendingOrder ==
    ASSUME NEW S, IsFiniteSet(S), S \subseteq Nat
    PROVE  Ascending(S) \in SetToSeqs(S)
<1> DEFINE n == Cardinality(S)
           D == 1..n
           Smaller(x) == {y \in S : y < x}
           rank == [x \in S |-> Cardinality(Smaller(x)) + 1]
<1>1. n \in Nat
  BY FS_CardinalityType
<1>2. \A x \in S : Smaller(x) \in SUBSET S /\ x \notin Smaller(x)
  OBVIOUS
<1>3. \A x \in S : IsFiniteSet(Smaller(x)) /\ Cardinality(Smaller(x)) \in Nat
                     /\ Cardinality(Smaller(x)) < n
  <2> TAKE x \in S
  <2> DEFINE B == Smaller(x)
  <2>1. B \in SUBSET S /\ B # S
    BY <1>2
  <2> HIDE DEF B
  <2>2. IsFiniteSet(B) /\ Cardinality(B) <= n /\ (n = Cardinality(B) => S = B)
    BY <2>1, FS_Subset
  <2>3. Cardinality(B) \in Nat
    BY <2>2, FS_CardinalityType
  <2>4. IsFiniteSet(B) /\ Cardinality(B) \in Nat /\ Cardinality(B) < n
    BY <1>1, <2>1, <2>2, <2>3
  <2> QED
    BY <2>4 DEF B
<1>4. \A x, y \in S : x < y => rank[x] < rank[y]
  <2> SUFFICES ASSUME NEW x \in S, NEW y \in S, x < y PROVE rank[x] < rank[y]
    OBVIOUS
  <2> DEFINE B == Smaller(x)
             C == Smaller(y)
  <2>0. x \in Nat /\ y \in Nat /\ \A z \in S : z \in Nat
    OBVIOUS
  <2>1. B \in SUBSET C /\ B # C
    <3>1. \A z \in B : z \in C
      BY <2>0
    <3>2. x \in C /\ x \notin B
      BY <2>0
    <3> QED
      BY <3>1, <3>2
  <2>2. IsFiniteSet(C) /\ Cardinality(B) \in Nat /\ Cardinality(C) \in Nat
    BY <1>3
  <2> HIDE DEF B, C
  <2>3. Cardinality(B) <= Cardinality(C) /\ (Cardinality(C) = Cardinality(B) => C = B)
    BY <2>1, <2>2, FS_Subset
  <2>4. Cardinality(B) < Cardinality(C)
    BY <2>1, <2>2, <2>3
  <2>5. rank[x] = Cardinality(B) + 1 /\ rank[y] = Cardinality(C) + 1
    BY DEF B, C
  <2> QED
    BY <2>2, <2>4, <2>5
<1>5. rank \in [S -> D]
  <2>1. \A x \in S : rank[x] = Cardinality(Smaller(x)) + 1
    OBVIOUS
  <2> HIDE DEF Smaller
  <2>2. \A x \in S : Cardinality(Smaller(x)) + 1 \in D
    BY <1>1, <1>3
  <2> QED
    BY <2>2
<1> HIDE DEF rank
<1>6. \A x, y \in S : rank[x] = rank[y] => x = y
  <2> SUFFICES ASSUME NEW x \in S, NEW y \in S, rank[x] = rank[y] PROVE x = y
    OBVIOUS
  <2>1. rank[x] \in Nat /\ rank[y] \in Nat
    BY <1>5
  <2>2. ~ (x < y) /\ ~ (y < x)
    BY <1>4, <2>1
  <2> QED
    BY <2>2
<1>7. \A i \in D : \E x \in S : rank[x] = i
  <2>1. rank \in Injection(S, D)
    BY <1>5, <1>6 DEF Injection, IsInjective
  <2>2. IsFiniteSet(D) /\ Cardinality(D) = n
    BY <1>1, FS_Interval
  <2> HIDE DEF D
  <2>3. rank \in Surjection(S, D)
    BY <2>1, <2>2, FS_Injection
  <2> QED
    BY <2>3 DEF Surjection
<1> DEFINE s == [i \in D |-> CHOOSE x \in S : rank[x] = i]
<1>8. s \in [D -> S] /\ \A i \in D : rank[s[i]] = i
  <2>1. \A i \in D : s[i] \in S /\ rank[s[i]] = i
    BY <1>7
  <2> QED
    BY <2>1
<1> HIDE DEF s
<1>9. s \in SetToSeqs(S)
  <2>1. \A i, j \in D : i # j => s[i] # s[j]
    BY <1>8
  <2> QED
    BY <1>8, <2>1 DEF SetToSeqs
<1>10. \A i, j \in DOMAIN s : i < j => s[i] < s[j]
  <2> SUFFICES ASSUME NEW i \in D, NEW j \in D, i < j PROVE s[i] < s[j]
    BY <1>8
  <2>1. s[i] \in S /\ s[j] \in S /\ rank[s[i]] = i /\ rank[s[j]] = j
    BY <1>8
  <2>2. s[i] \in Nat /\ s[j] \in Nat
    BY <2>1
  <2>3. ~ (s[j] < s[i]) /\ s[i] # s[j]
    <3>1. ~ (rank[s[j]] < rank[s[i]]) /\ rank[s[i]] # rank[s[j]]
      BY <2>1
    <3> QED
      BY <1>4, <2>1, <3>1
  <2> QED
    BY <2>2, <2>3
<1>11. \E z \in SetToSeqs(S) : \A i, j \in DOMAIN z : i < j => z[i] < z[j]
  BY <1>9, <1>10
<1> QED
  BY <1>11 DEF Ascending

\* What install_snapshot's loop over the carried outputs defines, for the
\* scripts c and the outputs f that were retained.
CarryLoop(c, f, order, after) ==
    after = [n \in 0..Len(order) |->
               IF n = 0 THEN [cache |-> c, work |-> EmptyWork]
               ELSE InsertOutputs(after[n - 1], order[n], f[order[n]])]

\* Its first n turns.
CarryRun(c, f, order, n, after) ==
    /\ after[0] = [cache |-> c, work |-> EmptyWork]
    /\ \A k \in 1..n : after[k] = InsertOutputs(after[k - 1], order[k], f[order[k]])

LEMMA CarryRuns ==
    ASSUME NEW c, NEW f, NEW order, Len(order) \in Nat
    PROVE  \E after : CarryLoop(c, f, order, after)
<1> DEFINE Runs(n) == \E after : CarryRun(c, f, order, n, after)
           Bad == {n \in Nat : ~ Runs(n)}
           start == [cache |-> c, work |-> EmptyWork]
<1>1. Runs(0)
  <2>1. CarryRun(c, f, order, 0, [k \in {0} |-> start])
    BY DEF CarryRun
  <2> QED
    BY <2>1
<1>2. ASSUME NEW n \in Nat, Runs(n) PROVE Runs(n + 1)
  <2>1. PICK old : CarryRun(c, f, order, n, old)
    BY <1>2
  <2> DEFINE last == InsertOutputs(old[n], order[n + 1], f[order[n + 1]])
             after == [k \in 0..(n + 1) |-> IF k = n + 1 THEN last ELSE old[k]]
  <2>2. (\A k \in 0..n : after[k] = old[k]) /\ after[n + 1] = last
    OBVIOUS
  <2> HIDE DEF after
  <2>3. after[0] = start
    BY <2>1, <2>2 DEF CarryRun
  <2>4. ASSUME NEW k \in 1..(n + 1)
        PROVE  after[k] = InsertOutputs(after[k - 1], order[k], f[order[k]])
    <3>1. CASE k = n + 1
      <4>1. k - 1 = n /\ after[n] = old[n]
        BY <2>2, <3>1
      <4> QED
        BY <2>2, <3>1, <4>1
    <3>2. CASE k # n + 1
      <4>1. k \in 1..n /\ k \in 0..n /\ k - 1 \in 0..n
        BY <3>2
      <4>2. after[k] = old[k] /\ after[k - 1] = old[k - 1]
        BY <2>2, <4>1
      <4>3. old[k] = InsertOutputs(old[k - 1], order[k], f[order[k]])
        BY <2>1, <4>1 DEF CarryRun
      <4> QED
        BY <4>2, <4>3
    <3> QED
      BY <3>1, <3>2
  <2>5. CarryRun(c, f, order, n + 1, after)
    BY <2>3, <2>4 DEF CarryRun
  <2> QED
    BY <2>5
<1> HIDE DEF Runs
<1>3. Bad = {}
  <2> SUFFICES ASSUME Bad # {} PROVE FALSE
    OBVIOUS
  <2>1. PICK n \in Bad : \A k \in Bad : n <= k
    BY LeastNatural
  <2>2. n \in Nat /\ ~ Runs(n) /\ n # 0
    BY <1>1, <2>1
  <2>3. n - 1 \in Nat /\ n - 1 \notin Bad
    BY <2>1, <2>2
  <2>4. Runs((n - 1) + 1)
    BY <1>2, <2>3
  <2> QED
    BY <2>2, <2>4
<1> DEFINE most == Len(order)
<1>4. PICK some : CarryRun(c, f, order, most, some)
  BY <1>3 DEF Runs
<1> DEFINE after == [k \in 0..most |-> some[k]]
<1>5. \A k \in 0..most : after[k] = some[k]
  OBVIOUS
<1>6. ASSUME NEW n \in 0..most
      PROVE  some[n] = IF n = 0 THEN start
                       ELSE InsertOutputs(after[n - 1], order[n], f[order[n]])
  <2>1. CASE n = 0
    BY <1>4, <2>1 DEF CarryRun
  <2>2. CASE n # 0
    <3>1. n \in 1..most /\ n - 1 \in 0..most
      BY <2>2
    <3>2. after[n - 1] = some[n - 1]
      BY <1>5, <3>1
    <3>3. some[n] = InsertOutputs(some[n - 1], order[n], f[order[n]])
      BY <1>4, <3>1 DEF CarryRun
    <3> QED
      BY <2>2, <3>2, <3>3
  <2> QED
    BY <2>1, <2>2
<1>7. CarryLoop(c, f, order, after)
  BY <1>6 DEF CarryLoop
<1> QED
  BY <1>7

\* The retained outputs of the transactions S.
Retaining(f, S) == [t \in S |-> f[t]]

\* Part of the retained outputs weighs no more than all of them.
LEMMA RetainedWeighsLess ==
    ASSUME NEW f \in Memberships, IsFiniteSet(DOMAIN f), NEW S \in SUBSET DOMAIN f
    PROVE  /\ Retaining(f, S) \in Memberships /\ DOMAIN Retaining(f, S) = S
           /\ IsFiniteSet(S)
           /\ Total(OutputWeights(Retaining(f, S))) \in Nat
           /\ Total(OutputWeights(Retaining(f, S))) <= Total(OutputWeights(f))
<1> DEFINE h == Retaining(f, S)
<1>1. DOMAIN f \subseteq Txids /\ f \in [DOMAIN f -> Wtxids]
  BY MembershipTyped
<1>2. h \in [S -> Wtxids] /\ S \in SUBSET Txids /\ \A t \in S : h[t] = f[t]
  BY <1>1 DEF Retaining
<1>3. h \in Memberships /\ DOMAIN h = S
  BY <1>2 DEF Memberships
<1>4. IsFiniteSet(S)
  BY FS_Subset
<1> HIDE DEF h
<1>5. /\ IsWeighing(OutputWeights(h)) /\ DOMAIN OutputWeights(h) = S
      /\ \A t \in S : OutputWeights(h)[t] = OutputBytes[h[t]]
      /\ Total(OutputWeights(h)) \in Nat
  BY <1>3, <1>4, OutputsWeigh
<1>6. /\ IsWeighing(OutputWeights(f)) /\ DOMAIN OutputWeights(f) = DOMAIN f
      /\ \A t \in DOMAIN f : OutputWeights(f)[t] = OutputBytes[f[t]]
  BY OutputsWeigh
<1>7. \A t \in S : OutputWeights(h)[t] = OutputWeights(f)[t]
  BY <1>2, <1>5, <1>6
<1>8. Total(OutputWeights(h)) <= Total(OutputWeights(f))
  BY <1>5, <1>6, <1>7, TotalOfPart
<1> QED
  BY <1>3, <1>4, <1>5, <1>8 DEF h

\* The loop has carried the outputs S of k, and kept the scripts c.
CarriedTo(x, c, k, S) ==
    /\ x.cache = c /\ x = [cache |-> x.cache, work |-> x.work]
    /\ WorkOK(x.work) /\ x.work.outputs = Retaining(k.outputs, S)

\* One turn of the loop: what was within the budget together stays within it
\* in part, and no script is lost.
LEMMA CarryTurn ==
    ASSUME NEW c, CacheOK(c), NEW k, WorkOK(k), c.bytes + k.bytes <= MaximumBytes,
           NEW S \in SUBSET DOMAIN k.outputs, NEW t \in DOMAIN k.outputs, t \notin S,
           NEW x, CarriedTo(x, c, k, S), NEW y, y = InsertOutputs(x, t, k.outputs[t])
    PROVE  CarriedTo(y, c, k, S \cup {t})
<1>0. /\ x.cache = c /\ x = [cache |-> x.cache, work |-> x.work]
      /\ WorkOK(x.work) /\ x.work.outputs = Retaining(k.outputs, S)
  BY DEF CarriedTo
<1> DEFINE f == k.outputs
           w == f[t]
           n == With(x.work.outputs, t, w)
           total == TotalWith(x.work, t, w)
           V == S \cup {t}
<1>1. /\ f \in Memberships /\ IsFiniteSet(DOMAIN f) /\ k.bytes = Total(OutputWeights(f))
      /\ k.bytes \in Nat /\ c.bytes \in Nat /\ MaximumBytes \in Nat
  BY AuxiliaryCacheAssumption DEF WorkOK, Works, CacheOK, Caches
<1>2. t \in Txids /\ w \in Wtxids
  BY <1>1, MembershipTyped
<1>3. n = Retaining(f, V)
  BY <1>0 DEF With, Retaining
<1>4. total = Total(OutputWeights(n)) /\ total \in Nat
  BY <1>0, <1>2, OutputsCounted
<1>5. total <= k.bytes
  <2>1. V \in SUBSET DOMAIN f
    OBVIOUS
  <2> HIDE DEF n, total, V, f
  <2> QED
    BY <1>1, <1>3, <1>4, <2>1, RetainedWeighsLess
<1>6. /\ x.work.bytes = Total(OutputWeights(Retaining(f, S))) /\ x.work.bytes \in Nat
  BY <1>0 DEF WorkOK, Works
<1>7. x.work.bytes <= k.bytes
  <2>1. S \in SUBSET DOMAIN f
    OBVIOUS
  <2> HIDE DEF f
  <2> QED
    BY <1>1, <1>6, <2>1, RetainedWeighsLess
<1>8. c.bytes + x.work.bytes <= MaximumBytes
  BY <1>1, <1>6, <1>7
<1>9. y = InsertOutputs([cache |-> c, work |-> x.work], t, w)
  BY <1>0
<1> HIDE DEF total, n, w
<1>10. ~ (total > MaximumBytes) /\ c.bytes <= MaximumBytes - total
       /\ MaximumBytes - total \in Nat
  BY <1>1, <1>4, <1>5
<1>11. /\ y.work = [outputs |-> n, bytes |-> total] /\ WorkOK(y.work)
       /\ y.cache = ShrinkTo(c, MaximumBytes - total)
  BY <1>0, <1>2, <1>8, <1>9, <1>10, OutputsInserted DEF total, n
<1>12. y.cache = c
  BY <1>10, <1>11, Shrunk
<1>13. y = [cache |-> y.cache, work |-> y.work]
  BY <1>9 DEF InsertOutputs
<1>14. y.work.outputs = Retaining(f, V)
  BY <1>3, <1>11
<1> QED
  BY <1>11, <1>12, <1>13, <1>14 DEF CarriedTo

\* A new membership costs no confirmed script, and keeps all the outputs it
\* may carry.
LEMMA CarriedOutputs ==
    ASSUME CachesInv, NEW members \in Memberships
    PROVE  /\ CarryOutputs(members).cache = cache
           /\ WorkOK(CarryOutputs(members).work)
           /\ CarryOutputs(members).work.outputs
                = Retaining(work.outputs, Carried(members))
<1> DEFINE f == work.outputs
           C == Carried(members)
           order == Ascending(C)
           most == Len(order)
           after == CHOOSE g : CarryLoop(cache, f, order, g)
           Visited(n) == {order[i] : i \in 1..n}
<1>1. /\ f \in Memberships /\ IsFiniteSet(DOMAIN f) /\ WorkOK(work)
      /\ CacheOK(cache) /\ cache.bytes + work.bytes <= MaximumBytes
  BY DEF CachesInv, WorkOK, Works
<1>2. C \in SUBSET DOMAIN f /\ C \subseteq Nat
  BY <1>1, MembershipTyped, AuxiliaryCacheAssumption DEF Carried
<1>3. IsFiniteSet(C)
  BY <1>1, <1>2, FS_Subset
<1> HIDE DEF C
<1>4. order \in SetToSeqs(C)
  BY <1>2, <1>3, AscendingOrder
<1> HIDE DEF order
<1>5. /\ most \in Nat
      /\ \A i \in 1..most : order[i] \in C
      /\ \A x \in C : \E i \in 1..most : order[i] = x
      /\ \A i, j \in 1..most : order[i] = order[j] => i = j
  BY <1>3, <1>4, OrderHolds
<1>6. CarryOutputs(members) = after[most]
  BY DEF CarryOutputs, CarryLoop, order, C
<1>7. CarryLoop(cache, f, order, after)
  BY <1>5, CarryRuns
<1> HIDE DEF after
<1>8. /\ after[0] = [cache |-> cache, work |-> EmptyWork]
      /\ \A n \in 1..most : after[n] = InsertOutputs(after[n - 1], order[n], f[order[n]])
  <2>1. ASSUME NEW n \in 1..most
        PROVE  after[n] = InsertOutputs(after[n - 1], order[n], f[order[n]])
    <3>1. n \in 0..most /\ n # 0
      BY <1>5
    <3> QED
      BY <1>7, <3>1 DEF CarryLoop
  <2>2. 0 \in 0..most
    BY <1>5
  <2> QED
    BY <1>7, <2>1, <2>2 DEF CarryLoop
<1> HIDE DEF most
<1> DEFINE Good(n) == CarriedTo(after[n], cache, work, Visited(n))
           Bad == {n \in 0..most : ~ Good(n)}
<1>9. Good(0)
  <2> DEFINE none == [t \in {} |-> f[t]]
  <2>1. after[0].cache = cache /\ after[0].work = EmptyWork
    BY <1>8
  <2>2. EmptyWork.outputs = none /\ EmptyWork.bytes = 0
        /\ EmptyWork = [outputs |-> EmptyWork.outputs, bytes |-> EmptyWork.bytes]
    BY DEF EmptyWork
  <2>3. none = Retaining(f, {}) /\ {} \in SUBSET DOMAIN f
    BY DEF Retaining
  <2>4. none \in Memberships /\ DOMAIN none = {} /\ IsFiniteSet({})
    <3> HIDE DEF none, f
    <3> QED
      BY <1>1, <2>3, RetainedWeighsLess
  <2> HIDE DEF none
  <2>5. Total(OutputWeights(none)) = 0
    BY <2>4, OutputsWeigh, TotalType
  <2>6. WorkOK(EmptyWork)
    BY <2>2, <2>4, <2>5 DEF WorkOK, Works
  <2>7. Visited(0) = {}
    OBVIOUS
  <2> QED
    BY <1>8, <2>1, <2>2, <2>3, <2>6, <2>7 DEF CarriedTo
<1>10. ASSUME NEW n \in 1..most, Good(n - 1) PROVE Good(n)
  <2> DEFINE x == after[n - 1]
             y == after[n]
             t == order[n]
             S == Visited(n - 1)
  <2>1. y = InsertOutputs(x, t, f[t])
    BY <1>8
  <2>2. S \in SUBSET DOMAIN f /\ t \in DOMAIN f
    <3>1. \A i \in 1..(n - 1) : i \in 1..most
      BY <1>5
    <3> QED
      BY <1>2, <1>5, <3>1
  <2>3. t \notin S
    <3> SUFFICES ASSUME NEW i \in 1..(n - 1), order[i] = t PROVE FALSE
      OBVIOUS
    <3>1. i \in 1..most /\ i # n
      BY <1>5
    <3> QED
      BY <1>5, <3>1
  <2>4. S \cup {t} = Visited(n)
    <3>1. \A i \in 1..n : i = n \/ i \in 1..(n - 1)
      BY <1>5
    <3>2. n \in 1..n /\ \A i \in 1..(n - 1) : i \in 1..n
      BY <1>5
    <3> QED
      BY <3>1, <3>2
  <2>5. CarriedTo(x, cache, work, S)
    BY <1>10
  <2> HIDE DEF x, y, t, S, Visited
  <2>6. CarriedTo(y, cache, work, S \cup {t})
    BY <1>1, <2>1, <2>2, <2>3, <2>5, CarryTurn
  <2> QED
    BY <2>4, <2>6 DEF y
<1> HIDE DEF Good
<1>11. Bad = {}
  <2> SUFFICES ASSUME Bad # {} PROVE FALSE
    OBVIOUS
  <2>1. Bad \subseteq Nat
    BY <1>5
  <2>2. PICK n \in Bad : \A k \in Bad : n <= k
    BY <2>1, LeastNatural
  <2>3. n \in 1..most /\ ~ Good(n)
    BY <1>5, <1>9, <2>2
  <2>4. n - 1 \in 0..most /\ n - 1 \notin Bad
    BY <1>5, <2>2, <2>3
  <2> QED
    BY <1>10, <2>3, <2>4
<1>12. Good(most)
  BY <1>5, <1>11
<1>13. Visited(most) = C
  BY <1>5
<1> QED
  BY <1>6, <1>12, <1>13 DEF Good, C, CarriedTo

-----------------------------------------------------------------------------
(* The invariant *)

LEMMA CachesTyped ==
    ASSUME CachesInv
    PROVE  /\ cache \in Caches /\ cache.bytes \in Nat /\ work.bytes \in Nat
           /\ MaximumBytes \in Nat /\ work.bytes <= MaximumBytes
           /\ cache.bytes <= MaximumBytes
           /\ Available(work.bytes) = MaximumBytes - work.bytes
           /\ work.outputs \in Memberships /\ IsFiniteSet(DOMAIN work.outputs)
           /\ work.bytes = Total(OutputWeights(work.outputs))
<1>1. /\ cache \in Caches /\ cache.bytes \in Nat /\ work.bytes \in Nat
      /\ MaximumBytes \in Nat /\ cache.bytes + work.bytes <= MaximumBytes
      /\ work.outputs \in Memberships /\ IsFiniteSet(DOMAIN work.outputs)
      /\ work.bytes = Total(OutputWeights(work.outputs))
  BY AuxiliaryCacheAssumption DEF CachesInv, CacheOK, Caches, WorkOK, Works
<1> QED
  BY <1>1 DEF Available, SaturatingSub

LEMMA CachesInitially == Init => CachesInv
<1> SUFFICES ASSUME Init PROVE CachesInv
  OBVIOUS
<1> DEFINE none == [x \in {} |-> x]
<1>1. <<>> = none /\ DOMAIN none = {}
  OBVIOUS
<1>2. none \in [{} -> Entry] /\ none \in [{} -> Wtxids]
      /\ {} \in SUBSET Outpoints /\ {} \in SUBSET Txids
  OBVIOUS
<1>3. none \in EntryMaps /\ none \in Memberships
  BY <1>2 DEF EntryMaps, Memberships
<1> HIDE DEF none
<1>4. /\ cache = [entries |-> none, lru |-> {}, bytes |-> 0, next |-> 0]
      /\ work = [outputs |-> none, bytes |-> 0] /\ present = none
  BY <1>1 DEF Init, EmptyCache, EmptyWork
<1>5. cache \in Caches /\ work \in Works
  BY <1>3, <1>4 DEF Caches, Works
<1>6. IsFiniteSet({})
  BY FS_EmptySet
<1>7. Total(ScriptWeights(none, {})) = 0
  <2>1. cache.entries = none
    BY <1>4
  <2>2. IsWeighing(ScriptWeights(none, {})) /\ DOMAIN ScriptWeights(none, {}) = {}
    BY <1>5, <2>1, ScriptsWeigh
  <2> QED
    BY <2>2, TotalType
<1>8. Total(OutputWeights(none)) = 0
  BY <1>1, <1>3, <1>6, OutputsWeigh, TotalType
<1>9. CacheOK(cache)
  <2>1. Indexed(cache, {})
    BY <1>1, <1>4 DEF Indexed, Links
  <2>2. Counted(cache)
    BY <1>1, <1>4, <1>7 DEF Counted
  <2>3. cache.next <= MaxStamp
    BY <1>4, AuxiliaryCacheAssumption
  <2> QED
    BY <1>1, <1>4, <1>5, <2>1, <2>2, <2>3 DEF CacheOK
<1>10. WorkOK(work)
  BY <1>1, <1>4, <1>5, <1>6, <1>8 DEF WorkOK
<1>11. cache.bytes + work.bytes <= MaximumBytes
  BY <1>4, AuxiliaryCacheAssumption
<1>12. OutputsAreCurrent
  BY <1>1, <1>4 DEF OutputsAreCurrent
<1> QED
  BY <1>3, <1>4, <1>9, <1>10, <1>11, <1>12 DEF CachesInv

LEMMA GetStep ==
    ASSUME CachesInv, NEW o \in Outpoints, Get(o) PROVE CachesInv'
<1>1. cache' = Touch(cache, o) /\ work' = work /\ present' = present
      /\ o \in DOMAIN cache.entries /\ CacheOK(cache)
  BY DEF Get, CachesInv
<1>2. CacheOK(cache') /\ cache'.bytes = cache.bytes
  BY <1>1, Touched DEF Appended
<1> QED
  BY <1>1, <1>2 DEF CachesInv, OutputsAreCurrent, WorkOK

\* The three ways in which insert ends.
LEMMA InsertOutcome ==
    ASSUME CachesInv, NEW o \in Outpoints, NEW s \in Scripts, Insert(o, s)
    PROVE  LET conflict == o \in DOMAIN cache.entries /\ cache.entries[o].script # s
           IN  /\ work' = work /\ present' = present
               /\ conflict => cache' = Forget(cache, o)
               /\ ~ conflict /\ ~ (ScriptBytes[s] <= Available(work.bytes))
                    => cache' = cache
<1>1. ScriptBytes[s] \in Nat /\ Available(work.bytes) \in Nat
  BY CachesTyped, AuxiliaryCacheAssumption
<1> QED
  BY <1>1 DEF Insert, InsertScript

LEMMA InsertStep ==
    ASSUME CachesInv, NEW o \in Outpoints, NEW s \in Scripts, Insert(o, s)
    PROVE  CachesInv'
<1> DEFINE conflict == o \in DOMAIN cache.entries /\ cache.entries[o].script # s
<1>1. /\ work' = work /\ present' = present
      /\ conflict => cache' = Forget(cache, o)
      /\ ~ conflict /\ ~ (ScriptBytes[s] <= Available(work.bytes)) => cache' = cache
  BY InsertOutcome
<1>2. cache' = InsertScript(cache, o, s, work.bytes) /\ CacheOK(cache)
  BY DEF Insert, CachesInv
<1>3. /\ cache.bytes \in Nat /\ work.bytes \in Nat /\ MaximumBytes \in Nat
      /\ cache.bytes + work.bytes <= MaximumBytes
      /\ Available(work.bytes) = MaximumBytes - work.bytes
  BY CachesTyped DEF CachesInv
<1>4. CacheOK(cache') /\ cache'.bytes + work.bytes <= MaximumBytes
  <2>1. CASE conflict
    <3>1. CacheOK(cache') /\ cache'.bytes <= cache.bytes
      BY <1>1, <1>2, <2>1, Forgotten DEF CutTo
    <3>2. cache'.bytes \in Nat
      BY <3>1 DEF CacheOK, Caches
    <3> QED
      BY <1>3, <3>1, <3>2
  <2>2. CASE ~ conflict /\ ~ (ScriptBytes[s] <= Available(work.bytes))
    BY <1>1, <1>2, <1>3, <2>2
  <2>3. CASE ~ conflict /\ ScriptBytes[s] <= Available(work.bytes)
    <3>1. CacheOK(cache') /\ cache'.bytes <= Available(work.bytes)
      BY <1>2, <1>3, <2>3, Inserted DEF Appended
    <3>2. cache'.bytes \in Nat
      BY <3>1 DEF CacheOK, Caches
    <3> QED
      BY <1>3, <3>1, <3>2
  <2> QED
    BY <2>1, <2>2, <2>3
<1> QED
  BY <1>1, <1>4 DEF CachesInv, OutputsAreCurrent, WorkOK

\* The two ways in which insert_outputs ends.
LEMMA StoreOutputsOutcome ==
    ASSUME CachesInv, NEW t \in DOMAIN present, StoreOutputs(t)
    PROVE  LET total == TotalWith(work, t, present[t])
           IN  /\ t \in Txids /\ present[t] \in Wtxids /\ present' = present
               /\ \/ /\ total > MaximumBytes
                     /\ cache' = cache /\ work' = work
                  \/ /\ total <= MaximumBytes
                     /\ work' = [outputs |-> With(work.outputs, t, present[t]),
                                 bytes |-> total]
                     /\ cache' = ShrinkTo(cache, MaximumBytes - total)
                     /\ WorkOK(work') /\ CacheOK(cache')
                     /\ cache'.bytes + work'.bytes <= MaximumBytes
<1> DEFINE both == InsertOutputs([cache |-> cache, work |-> work], t, present[t])
<1>1. t \in Txids /\ present[t] \in Wtxids
  BY MembershipTyped DEF CachesInv
<1>2. cache' = both.cache /\ work' = both.work /\ present' = present
  BY DEF StoreOutputs
<1>3. CacheOK(cache) /\ WorkOK(work) /\ cache.bytes + work.bytes <= MaximumBytes
  BY DEF CachesInv
<1> HIDE DEF both
<1> DEFINE total == TotalWith(work, t, present[t])
<1>4. \/ /\ total > MaximumBytes
         /\ both.cache = cache /\ both.work = work
      \/ /\ total <= MaximumBytes
         /\ both.work = [outputs |-> With(work.outputs, t, present[t]), bytes |-> total]
         /\ both.cache = ShrinkTo(cache, MaximumBytes - total)
         /\ WorkOK(both.work) /\ CacheOK(both.cache)
         /\ both.cache.bytes + both.work.bytes <= MaximumBytes
  BY <1>1, <1>3, OutputsInserted DEF both
<1> QED
  BY <1>1, <1>2, <1>4

LEMMA StoreOutputsStep ==
    ASSUME CachesInv, NEW t \in DOMAIN present, StoreOutputs(t) PROVE CachesInv'
<1> DEFINE total == TotalWith(work, t, present[t])
<1>1. /\ present' = present
      /\ \/ /\ total > MaximumBytes
            /\ cache' = cache /\ work' = work
         \/ /\ total <= MaximumBytes
            /\ work' = [outputs |-> With(work.outputs, t, present[t]), bytes |-> total]
            /\ cache' = ShrinkTo(cache, MaximumBytes - total)
            /\ WorkOK(work') /\ CacheOK(cache')
            /\ cache'.bytes + work'.bytes <= MaximumBytes
  BY StoreOutputsOutcome
<1>2. CASE cache' = cache /\ work' = work
  BY <1>1, <1>2 DEF CachesInv, OutputsAreCurrent
<1>3. CASE ~ (cache' = cache /\ work' = work)
  <2>1. work'.outputs = With(work.outputs, t, present[t])
    BY <1>1, <1>3
  <2>2. OutputsAreCurrent'
    BY <1>1, <2>1 DEF CachesInv, OutputsAreCurrent, With
  <2> QED
    BY <1>1, <1>3, <2>2 DEF CachesInv
<1> QED
  BY <1>2, <1>3

LEMMA InstallSnapshotStep ==
    ASSUME CachesInv, NEW members \in Memberships, InstallSnapshot(members)
    PROVE  CachesInv'
<1>1. /\ cache' = cache /\ present' = members /\ WorkOK(work')
      /\ work'.outputs = Retaining(work.outputs, Carried(members))
  BY CarriedOutputs DEF InstallSnapshot
<1>2. CacheOK(cache')
  BY <1>1 DEF CachesInv
<1>3. /\ cache.bytes \in Nat /\ work.bytes \in Nat /\ MaximumBytes \in Nat
      /\ cache.bytes + work.bytes <= MaximumBytes
      /\ work.outputs \in Memberships /\ IsFiniteSet(DOMAIN work.outputs)
      /\ work.bytes = Total(OutputWeights(work.outputs))
  BY CachesTyped DEF CachesInv
<1>4. Carried(members) \in SUBSET DOMAIN work.outputs
  BY DEF Carried
<1>5. work'.bytes = Total(OutputWeights(Retaining(work.outputs, Carried(members))))
      /\ work'.bytes \in Nat
  BY <1>1 DEF WorkOK, Works
<1>6. work'.bytes <= work.bytes
  BY <1>3, <1>4, <1>5, RetainedWeighsLess
<1>7. cache'.bytes + work'.bytes <= MaximumBytes
  BY <1>1, <1>3, <1>5, <1>6
<1>8. OutputsAreCurrent'
  BY <1>1 DEF OutputsAreCurrent, Retaining, Carried
<1> QED
  BY <1>1, <1>2, <1>7, <1>8 DEF CachesInv

\* The inductive invariant of the auxiliary caches: the index holds every entry
\* at a stamp of its own, the running totals are what is stored, and together
\* they are within the budget.
THEOREM CachesInvariant == Spec => []CachesInv
<1>1. ASSUME CachesInv, [Next]_vars PROVE CachesInv'
  <2>1. CASE Next
    BY <1>1, <2>1, GetStep, InsertStep, StoreOutputsStep, InstallSnapshotStep DEF Next
  <2>2. CASE UNCHANGED vars
    BY <1>1, <2>2 DEF vars, CachesInv, OutputsAreCurrent
  <2> QED
    BY <1>1, <2>1, <2>2
<1> QED
  BY <1>1, CachesInitially, PTL DEF Spec

\* The confirmed scripts and the retained outputs never weigh more together
\* than max_auxiliary_cache_bytes: InsertScript and InsertOutputs make room
\* before they store, by totals that never drift.
THEOREM CachesWithinBudget == Spec => []SharedBudget
<1>1. ASSUME CachesInv PROVE SharedBudget
  <2>1. cache.bytes = Total(ScriptWeights(cache.entries, DOMAIN cache.entries))
    BY <1>1 DEF CachesInv, CacheOK, Counted
  <2>2. work.bytes = Total(OutputWeights(work.outputs))
    BY <1>1 DEF CachesInv, WorkOK
  <2>3. cache.bytes + work.bytes <= MaximumBytes
    BY <1>1 DEF CachesInv
  <2> QED
    BY <2>1, <2>2, <2>3 DEF SharedBudget, ScriptWeights, OutputWeights
<1> QED
  BY <1>1, CachesInvariant, PTL

\* install_snapshot and insert_outputs retain outputs of the witness variant
\* that the current membership has, and of no other.
THEOREM RetainedOutputsAreCurrent == Spec => []OutputsAreCurrent
<1>1. CachesInv => OutputsAreCurrent
  BY DEF CachesInv
<1> QED
  BY <1>1, CachesInvariant, PTL

-----------------------------------------------------------------------------
(* The caches implement RecencyCache *)

ScriptsOf(c) == [o \in DOMAIN c.entries |-> c.entries[o].script]

OrderOf(c) ==
    {op \in Outpoints \X Outpoints :
        /\ op[1] \in DOMAIN c.entries /\ op[2] \in DOMAIN c.entries
        /\ c.entries[op[1]].stamp < c.entries[op[2]].stamp}

\* The index orders the entries by their stamps.
LEMMA IndexOrder ==
    ASSUME NEW c, CacheOK(c)
    PROVE  {op \in Outpoints \X Outpoints :
              \E p, q \in c.lru : p[2] = op[1] /\ q[2] = op[2] /\ Before(p, q)}
           = OrderOf(c)
<1> DEFINE D == DOMAIN c.entries
<1>1. /\ c.lru = Links(c.entries, D) /\ D \subseteq Outpoints
      /\ \A o, q \in D : c.entries[o].stamp = c.entries[q].stamp => o = q
      /\ \A o \in D : c.entries[o].stamp \in Nat
  BY EntriesTyped DEF CacheOK, Indexed, Entry
<1>2. \A p \in c.lru : p[2] \in D /\ p = <<c.entries[p[2]].stamp, p[2]>>
  BY <1>1 DEF Links
<1>3. \A o \in D : <<c.entries[o].stamp, o>> \in c.lru
  BY <1>1 DEF Links
<1>4. ASSUME NEW a \in Outpoints, NEW b \in Outpoints
      PROVE  (\E p, q \in c.lru : p[2] = a /\ q[2] = b /\ Before(p, q))
             <=> a \in D /\ b \in D /\ c.entries[a].stamp < c.entries[b].stamp
  <2>1. ASSUME NEW p \in c.lru, NEW q \in c.lru, p[2] = a, q[2] = b, Before(p, q)
        PROVE  a \in D /\ b \in D /\ c.entries[a].stamp < c.entries[b].stamp
    <3>1. a \in D /\ b \in D /\ p = <<c.entries[a].stamp, a>> /\ q = <<c.entries[b].stamp, b>>
      BY <1>2, <2>1
    <3>2. \/ c.entries[a].stamp < c.entries[b].stamp
          \/ c.entries[a].stamp = c.entries[b].stamp /\ a < b
      BY <2>1, <3>1 DEF Before
    <3>3. a \in Nat
      BY AuxiliaryCacheAssumption
    <3> QED
      BY <1>1, <3>1, <3>2, <3>3
  <2>2. ASSUME a \in D, b \in D, c.entries[a].stamp < c.entries[b].stamp
        PROVE  \E p, q \in c.lru : p[2] = a /\ q[2] = b /\ Before(p, q)
    <3> DEFINE p == <<c.entries[a].stamp, a>>
               q == <<c.entries[b].stamp, b>>
    <3>1. p \in c.lru /\ q \in c.lru /\ p[2] = a /\ q[2] = b
      BY <1>3, <2>2
    <3>2. Before(p, q)
      BY <2>2 DEF Before
    <3> QED
      BY <3>1, <3>2
  <2> QED
    BY <2>1, <2>2
<1> QED
  BY <1>4 DEF OrderOf

LEMMA OrderRelates ==
    ASSUME NEW c, CacheOK(c), NEW o, NEW p
    PROVE  <<o, p>> \in OrderOf(c) <=>
             /\ o \in DOMAIN c.entries /\ p \in DOMAIN c.entries
             /\ c.entries[o].stamp < c.entries[p].stamp
<1>1. DOMAIN c.entries \subseteq Outpoints
  BY EntriesTyped DEF CacheOK
<1> QED
  BY <1>1 DEF OrderOf

LEMMA RecencyTotal == ASSUME NEW f PROVE Recency!Total(f) = Total(f)
BY DEF Recency!Total, Total, Recency!MapThenSumSet, MapThenSumSet,
       Recency!MapThenFoldSet, MapThenFoldSet

\* The state that RecencyCache sees.
LEMMA RecencyState ==
    ASSUME CachesInv
    PROVE  /\ LruOrder = OrderOf(cache)
           /\ Recency!Cached = DOMAIN cache.entries
<1>1. CacheOK(cache)
  BY DEF CachesInv
<1>2. LruOrder = OrderOf(cache)
  BY <1>1, IndexOrder DEF LruOrder
<1> QED
  BY <1>2 DEF Recency!Cached

LEMMA CutOrder ==
    ASSUME NEW c, CacheOK(c), NEW r, NEW K, CutTo(r, c, K)
    PROVE  /\ OrderOf(r) = OrderOf(c) \cap (K \X K)
           /\ ScriptsOf(r) = [o \in K |-> ScriptsOf(c)[o]]
<1>1. /\ DOMAIN r.entries = K /\ K \subseteq DOMAIN c.entries
      /\ \A o \in K : r.entries[o] = c.entries[o]
  BY DEF CutTo
<1>2. OrderOf(r) = OrderOf(c) \cap (K \X K)
  BY <1>1 DEF OrderOf
<1> QED
  BY <1>1, <1>2 DEF ScriptsOf

LEMMA AppendedOrder ==
    ASSUME NEW c, CacheOK(c), NEW r, NEW K, NEW o, Appended(r, c, K, o)
    PROVE  OrderOf(r) = (OrderOf(c) \cap (K \X K)) \cup (K \X {o})
<1>1. /\ CacheOK(r) /\ DOMAIN r.entries = K \cup {o} /\ K \subseteq DOMAIN c.entries
      /\ o \notin K /\ \A p \in K : r.entries[p].stamp < r.entries[o].stamp
      /\ \A p, q \in K : r.entries[p].stamp < r.entries[q].stamp
                           <=> c.entries[p].stamp < c.entries[q].stamp
  BY DEF Appended
<1>2. /\ \A p \in K \cup {o} : r.entries[p].stamp \in Nat
      /\ K \cup {o} \subseteq Outpoints
  BY <1>1, EntriesTyped DEF CacheOK, Entry
<1>3. ASSUME NEW a \in Outpoints, NEW b \in Outpoints
      PROVE  <<a, b>> \in OrderOf(r)
             <=> <<a, b>> \in (OrderOf(c) \cap (K \X K)) \cup (K \X {o})
  <2>1. <<a, b>> \in OrderOf(r) <=> /\ a \in K \cup {o} /\ b \in K \cup {o}
                                    /\ r.entries[a].stamp < r.entries[b].stamp
    BY <1>1, OrderRelates
  <2>2. <<a, b>> \in OrderOf(c) <=>
          /\ a \in DOMAIN c.entries /\ b \in DOMAIN c.entries
          /\ c.entries[a].stamp < c.entries[b].stamp
    BY OrderRelates
  <2>3. CASE a \in K /\ b \in K
    BY <1>1, <2>1, <2>2, <2>3
  <2>4. CASE a \in K /\ b = o
    BY <1>1, <2>1, <2>4
  <2>5. CASE a \notin K
    <3>1. ~ (<<a, b>> \in (OrderOf(c) \cap (K \X K)) \cup (K \X {o}))
      BY <2>5
    <3>2. ~ (a = o /\ b \in K \cup {o} /\ r.entries[a].stamp < r.entries[b].stamp)
      BY <1>1, <1>2
    <3> QED
      BY <2>1, <2>5, <3>1, <3>2
  <2>6. CASE b \notin K \cup {o}
    BY <2>1, <2>6
  <2> QED
    BY <2>3, <2>4, <2>5, <2>6
<1>4. OrderOf(r) \subseteq Outpoints \X Outpoints
  BY DEF OrderOf
<1>5. (OrderOf(c) \cap (K \X K)) \cup (K \X {o}) \subseteq Outpoints \X Outpoints
  BY <1>2
<1> QED
  BY <1>3, <1>4, <1>5

\* Of the cached outpoints S, RecencyCache keeps those that shrink_to keeps.
LEMMA KeptIsLargest ==
    ASSUME CachesInv, NEW f, NEW S, CutTo(f, cache, S), NEW budget, NEW K,
           Fits(f, K, budget), \A L : Fits(f, L, budget) => L \subseteq K
    PROVE  Recency!Kept(S, budget) = K
<1> DEFINE D == DOMAIN cache.entries
           Best(M) == /\ Recency!LatestOf(M, S) /\ Recency!Weight(M) <= budget
                      /\ \A L \in SUBSET S :
                           Recency!LatestOf(L, S) /\ Recency!Weight(L) <= budget
                             => L \subseteq M
<1>1. /\ CacheOK(cache) /\ S \subseteq D /\ DOMAIN f.entries = S
      /\ \A o \in S : f.entries[o] = cache.entries[o]
  BY DEF CutTo, CachesInv
<1>2. LruOrder = OrderOf(cache)
  BY RecencyState
<1>3. ASSUME NEW M \in SUBSET S
      PROVE  Recency!LatestOf(M, S) /\ Recency!Weight(M) <= budget <=> Fits(f, M, budget)
  <2>1. Recency!LatestOf(M, S) <=> LatestIn(f, M)
    <3>1. \A o \in M, p \in S :
            <<o, p>> \in LruOrder <=> f.entries[o].stamp < f.entries[p].stamp
      BY <1>1, <1>2, OrderRelates
    <3> QED
      BY <1>1, <3>1 DEF Recency!LatestOf, LatestIn
  <2>2. Recency!Weight(M) = Total(ScriptWeights(f.entries, M))
    <3> DEFINE g == [o \in M |-> ScriptBytes[
                        [p \in DOMAIN cache.entries |-> cache.entries[p].script][o]]]
    <3>1. g = ScriptWeights(f.entries, M)
      BY <1>1 DEF ScriptWeights
    <3>2. Recency!Weight(M) = Recency!Total(g)
      BY DEF Recency!Weight
    <3> HIDE DEF g
    <3> QED
      BY <3>1, <3>2, RecencyTotal
  <2> QED
    BY <2>1, <2>2 DEF Fits
<1>4. \A L : Fits(f, L, budget) => L \in SUBSET S
  BY <1>1 DEF Fits, LatestIn
<1>5. Best(K) /\ K \in SUBSET S
  BY <1>3, <1>4
<1>6. \A M \in SUBSET S : Best(M) => M = K
  <2> TAKE M \in SUBSET S
  <2>1. ASSUME Best(M) PROVE M = K
    <3>1. Fits(f, M, budget) /\ K \subseteq M
      BY <1>3, <1>5, <2>1
    <3> QED
      BY <3>1
  <2> QED
    BY <2>1
<1>7. Recency!Kept(S, budget) = CHOOSE M \in SUBSET S : Best(M)
  BY DEF Recency!Kept
<1> HIDE DEF Best
<1> QED
  BY <1>5, <1>6, <1>7

LEMMA GetIsUse ==
    ASSUME CachesInv, CachesInv', NEW o \in Outpoints, Get(o) PROVE Recency!Use(o)
<1> DEFINE D == DOMAIN cache.entries
           K == D \ {o}
<1>1. cache' = Touch(cache, o) /\ work' = work /\ present' = present
      /\ o \in D /\ CacheOK(cache)
  BY DEF Get, CachesInv
<1>2. Appended(cache', cache, K, o) /\ cache'.entries[o].script = cache.entries[o].script
  BY <1>1, Touched
<1>3. LruOrder = OrderOf(cache) /\ Recency!Cached = D
  BY RecencyState
<1>4. LruOrder' = OrderOf(cache')
  BY IndexOrder DEF LruOrder, CachesInv
<1>5. OrderOf(cache') = (OrderOf(cache) \cap (K \X K)) \cup (K \X {o})
  BY <1>1, <1>2, AppendedOrder
<1>6. /\ DOMAIN cache'.entries = D
      /\ \A p \in D : cache'.entries[p].script = cache.entries[p].script
  BY <1>1, <1>2 DEF Appended
<1>7. [p \in DOMAIN cache'.entries |-> cache'.entries[p].script]
        = [p \in D |-> cache.entries[p].script]
  BY <1>6
<1>8. LruOrder' = Recency!Among(Recency!Cached \ {o})
                    \cup ((Recency!Cached \ {o}) \X {o})
  BY <1>3, <1>4, <1>5 DEF Recency!Among
<1> QED
  BY <1>1, <1>3, <1>7, <1>8 DEF Recency!Use

LEMMA RecencyOutputTotal ==
    ASSUME NEW f PROVE Recency!OutputTotal(f) = Total(OutputWeights(f))
BY RecencyTotal DEF Recency!OutputTotal, OutputWeights

\* Dropping entries is what RecencyCache's Keep does with the rest.
LEMMA CutIsKeep ==
    ASSUME CachesInv, CachesInv', CutTo(cache', cache, DOMAIN cache'.entries)
    PROVE  /\ LruOrder' = Recency!Among(DOMAIN cache'.entries)
           /\ [o \in DOMAIN cache'.entries |-> cache'.entries[o].script]
                = [o \in DOMAIN cache'.entries |->
                     [p \in DOMAIN cache.entries |-> cache.entries[p].script][o]]
<1> DEFINE K == DOMAIN cache'.entries
<1>1. CacheOK(cache)
  BY DEF CachesInv
<1>2. LruOrder = OrderOf(cache)
  BY RecencyState
<1>3. LruOrder' = OrderOf(cache')
  BY IndexOrder DEF LruOrder, CachesInv
<1>4. OrderOf(cache') = OrderOf(cache) \cap (K \X K)
  BY <1>1, CutOrder
<1>5. K \subseteq DOMAIN cache.entries /\ \A o \in K : cache'.entries[o] = cache.entries[o]
  BY DEF CutTo
<1>6. LruOrder' = Recency!Among(K)
  BY <1>2, <1>3, <1>4 DEF Recency!Among
<1> QED
  BY <1>5, <1>6

LEMMA InsertIsAbstract ==
    ASSUME CachesInv, CachesInv', NEW o \in Outpoints, NEW s \in Scripts, Insert(o, s)
    PROVE  Recency!Conflict(o, s) \/ Recency!Store(o, s) \/ UNCHANGED Recency!vars
<1> DEFINE D == DOMAIN cache.entries
           conflict == o \in D /\ cache.entries[o].script # s
           budget == MaximumBytes - work.bytes
           f == Forget(cache, o)
<1>1. /\ work' = work /\ present' = present
      /\ conflict => cache' = f
      /\ ~ conflict /\ ~ (ScriptBytes[s] <= Available(work.bytes)) => cache' = cache
      /\ cache' = InsertScript(cache, o, s, work.bytes)
  BY InsertOutcome DEF Insert
<1>2. CacheOK(cache) /\ CutTo(f, cache, D \ {o})
  BY Forgotten DEF CachesInv
<1>3. LruOrder = OrderOf(cache) /\ Recency!Cached = D
  BY RecencyState
<1>4. /\ Available(work.bytes) = budget /\ work.bytes \in Nat
      /\ work.bytes = Recency!OutputTotal(work.outputs)
  BY CachesTyped, RecencyOutputTotal
<1> HIDE DEF f
<1>5. CASE conflict
  <2>1. DOMAIN cache'.entries = D \ {o} /\ CutTo(cache', cache, DOMAIN cache'.entries)
    BY <1>1, <1>2, <1>5 DEF CutTo
  <2>2. /\ LruOrder' = Recency!Among(DOMAIN cache'.entries)
        /\ [p \in DOMAIN cache'.entries |-> cache'.entries[p].script]
             = [p \in DOMAIN cache'.entries |->
                  [q \in DOMAIN cache.entries |-> cache.entries[q].script][p]]
    BY <2>1, CutIsKeep
  <2>3. [p \in D |-> cache.entries[p].script][o] # s
    BY <1>5
  <2>4. Recency!Conflict(o, s)
    BY <1>1, <1>3, <1>5, <2>1, <2>2, <2>3 DEF Recency!Conflict, Recency!Keep
  <2> QED
    BY <2>4
<1>6. CASE ~ conflict /\ ~ (ScriptBytes[s] <= Available(work.bytes))
  <2>1. cache' = cache /\ work' = work /\ present' = present
    BY <1>1, <1>6
  <2> QED
    BY <2>1 DEF Recency!vars, LruOrder
<1>7. CASE ~ conflict /\ ScriptBytes[s] <= Available(work.bytes)
  <2>1. PICK K :
          /\ Appended(cache', cache, K, o) /\ cache'.entries[o].script = s
          /\ Fits(f, K, Available(work.bytes) - ScriptBytes[s])
          /\ \A L : Fits(f, L, Available(work.bytes) - ScriptBytes[s]) => L \subseteq K
    BY <1>1, <1>2, <1>4, <1>7, Inserted DEF f
  <2>2. Recency!Kept(D \ {o}, budget - ScriptBytes[s]) = K
    BY <1>2, <1>4, <2>1, KeptIsLargest
  <2>3. LruOrder' = OrderOf(cache')
    BY IndexOrder DEF LruOrder, CachesInv
  <2>4. OrderOf(cache') = (OrderOf(cache) \cap (K \X K)) \cup (K \X {o})
    BY <1>2, <2>1, AppendedOrder
  <2>5. /\ DOMAIN cache'.entries = K \cup {o} /\ K \subseteq D /\ o \notin K
        /\ \A p \in K : cache'.entries[p].script = cache.entries[p].script
    BY <2>1 DEF Appended
  <2>6. [p \in DOMAIN cache'.entries |-> cache'.entries[p].script]
          = [p \in K \cup {o} |->
               IF p = o THEN s ELSE [q \in D |-> cache.entries[q].script][p]]
    BY <2>1, <2>5
  <2>7. o \in D => [q \in D |-> cache.entries[q].script][o] = s
    BY <1>7
  <2>8. LruOrder' = Recency!Among(K) \cup (K \X {o})
    BY <1>3, <2>3, <2>4 DEF Recency!Among
  <2>9. Recency!Store(o, s)
    BY <1>1, <1>3, <1>4, <1>7, <2>2, <2>6, <2>7, <2>8 DEF Recency!Store
  <2> QED
    BY <2>9
<1> QED
  BY <1>5, <1>6, <1>7

LEMMA StoreOutputsIsAbstract ==
    ASSUME CachesInv, CachesInv', NEW t \in DOMAIN present, StoreOutputs(t)
    PROVE  Recency!RetainOutputs(t) \/ UNCHANGED Recency!vars
<1> DEFINE total == TotalWith(work, t, present[t])
           n == With(work.outputs, t, present[t])
           D == DOMAIN cache.entries
<1>1. /\ t \in Txids /\ present[t] \in Wtxids /\ present' = present
      /\ \/ /\ total > MaximumBytes
            /\ cache' = cache /\ work' = work
         \/ /\ total <= MaximumBytes
            /\ work' = [outputs |-> n, bytes |-> total]
            /\ cache' = ShrinkTo(cache, MaximumBytes - total)
  BY StoreOutputsOutcome
<1>2. CASE cache' = cache /\ work' = work
  BY <1>1, <1>2 DEF Recency!vars, LruOrder
<1>3. CASE ~ (cache' = cache /\ work' = work)
  <2>1. /\ total <= MaximumBytes /\ work'.outputs = n
        /\ cache' = ShrinkTo(cache, MaximumBytes - total)
    BY <1>1, <1>3
  <2>2. CacheOK(cache) /\ WorkOK(work) /\ MaximumBytes \in Nat
    BY CachesTyped DEF CachesInv
  <2>3. total = Recency!OutputTotal(n) /\ total \in Nat
    BY <1>1, <2>2, OutputsCounted, RecencyOutputTotal
  <2>4. n = [u \in DOMAIN work.outputs \cup {t} |->
               IF u = t THEN present[t] ELSE work.outputs[u]]
    BY DEF With
  <2> HIDE DEF n, total
  <2> DEFINE room == MaximumBytes - total
             K == DOMAIN cache'.entries
  <2>5. room \in Nat
    BY <2>1, <2>2, <2>3
  <2>6. Shrinking(cache', cache, room) /\ cache'.bytes <= room
    BY <2>1, <2>2, <2>5, Shrunk
  <2>7. /\ CutTo(cache', cache, K) /\ LatestIn(cache, K)
        /\ \A L : Fits(cache, L, room) => L \subseteq K
    BY <2>6 DEF Shrinking
  <2>8. Fits(cache, K, room)
    <3>1. cache'.bytes = Total(ScriptWeights(cache'.entries, K))
      BY <2>7 DEF CutTo, CacheOK, Counted
    <3>2. ScriptWeights(cache'.entries, K) = ScriptWeights(cache.entries, K)
      BY <2>7, SameWeights DEF CutTo
    <3> QED
      BY <2>6, <2>7, <3>1, <3>2 DEF Fits
  <2>9. CutTo(cache, cache, D)
    BY <2>2, NothingCut
  <2>10. Recency!Kept(D, room) = K
    BY <2>7, <2>8, <2>9, KeptIsLargest
  <2>11. /\ LruOrder' = Recency!Among(K)
         /\ [p \in K |-> cache'.entries[p].script]
              = [p \in K |-> [q \in DOMAIN cache.entries |-> cache.entries[q].script][p]]
    BY <2>7, CutIsKeep
  <2>12. Recency!Cached = D
    BY RecencyState
  <2>13. Recency!RetainOutputs(t)
    BY <1>1, <2>1, <2>3, <2>4, <2>10, <2>11, <2>12
       DEF Recency!RetainOutputs, Recency!Keep
  <2> QED
    BY <2>13
<1> QED
  BY <1>2, <1>3

LEMMA InstallIsNewMembership ==
    ASSUME CachesInv, NEW members \in Memberships, InstallSnapshot(members)
    PROVE  Recency!NewMembership
<1>1. /\ cache' = cache /\ present' = members
      /\ work'.outputs = Retaining(work.outputs, Carried(members))
  BY CarriedOutputs DEF InstallSnapshot
<1>2. Carried(members) = {u \in DOMAIN work.outputs \cap DOMAIN members :
                            work.outputs[u] = members[u]}
  BY DEF Carried
<1>3. LruOrder' = LruOrder
  BY <1>1 DEF LruOrder
<1> QED
  BY <1>1, <1>2, <1>3 DEF Recency!NewMembership, Retaining

LEMMA AbstractInitially == Init => Recency!Init
<1> SUFFICES ASSUME Init PROVE Recency!Init
  OBVIOUS
<1>1. /\ cache = [entries |-> <<>>, lru |-> {}, bytes |-> 0, next |-> 0]
      /\ work = [outputs |-> <<>>, bytes |-> 0] /\ present = <<>>
  BY DEF Init, EmptyCache, EmptyWork
<1>2. cache.entries = <<>> /\ cache.lru = {} /\ work.outputs = <<>>
  BY <1>1
<1>3. [o \in DOMAIN cache.entries |-> cache.entries[o].script] = <<>>
  BY <1>2
<1>4. LruOrder = {}
  BY <1>2 DEF LruOrder
<1> QED
  BY <1>1, <1>2, <1>3, <1>4 DEF Recency!Init

\* Every step of the caches is a step of RecencyCache or changes nothing it
\* can see: shrink_to evicts in true order of use and no more than the budget
\* needs, allocate_stamp's renumbering changes no order, and install_snapshot
\* costs no confirmed script.
THEOREM CachesRefineRecency == Spec => ImplementsRecencyCache
<1>1. ASSUME CachesInv, CachesInv', [Next]_vars PROVE [Recency!Next]_(Recency!vars)
  <2>1. CASE UNCHANGED vars
    BY <2>1 DEF vars, Recency!vars, LruOrder
  <2>2. ASSUME NEW o \in Outpoints, Get(o) PROVE Recency!Next
    BY <1>1, <2>2, GetIsUse DEF Recency!Next
  <2>3. ASSUME NEW o \in Outpoints, NEW s \in Scripts, Insert(o, s)
        PROVE  Recency!Next \/ UNCHANGED Recency!vars
    BY <1>1, <2>3, InsertIsAbstract DEF Recency!Next
  <2>4. ASSUME NEW t \in DOMAIN present, StoreOutputs(t)
        PROVE  Recency!Next \/ UNCHANGED Recency!vars
    BY <1>1, <2>4, StoreOutputsIsAbstract DEF Recency!Next
  <2>5. ASSUME NEW members \in Memberships, InstallSnapshot(members) PROVE Recency!Next
    BY <1>1, <2>5, InstallIsNewMembership DEF Recency!Next
  <2> QED
    BY <1>1, <2>1, <2>2, <2>3, <2>4, <2>5 DEF Next
<1> QED
  BY <1>1, AbstractInitially, CachesInvariant, PTL
     DEF Spec, ImplementsRecencyCache, Recency!Spec
=============================================================================
