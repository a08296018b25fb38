--------------------- MODULE MembershipCollectionProofs ---------------------
(***************************************************************************)
(* Proofs about MembershipCollection, for any sources and limits, any      *)
(* finite set of transactions, any number of threads and any bounds: the   *)
(* decoder stays within the limit of its source, an accepted snapshot is   *)
(* the whole mempool of the tip it is bound to, and a refused one is       *)
(* refused for what happened during its collection.                        *)
(***************************************************************************)
EXTENDS MembershipCollection, FiniteSetTheorems, SequenceTheorems,
        WellFoundedInduction, TLAPS

Tips == [height : Nat, hash : Nat]
Sendable == [id : Nat, tip : Tips, pool : SUBSET Txs]
Entries == [txid : Txs, wtxid : Nat, valid : BOOLEAN]
Errors == {"none", "limit", "invalid"}
Wires == [entries : Seq(Entries), observed : Nat, error : Errors]
Stages == {"idle", "start_tip", "size", "raw", "entries", "end_tip"}
Underway ==
    [pc : Stages, source : Sources \cup {0}, thread : Threads \cup {0},
     started : Nat, tip : Tips, wire : Wires,
     began : Tips, read : Tips, document : SUBSET Txs, listed : Nat]

CollectionTypeOK ==
    /\ tip \in Tips /\ pool \in SUBSET Txs /\ clock \in Nat
    /\ nextId \in Nat \ {0}
    /\ limit \in [Threads -> Nat]
    /\ col \in Underway
    /\ replay \in [{"chain", "raw"} -> Sendable]

\* An answer that may be repeated was given to an earlier request, so none that
\* is repeated can be taken for the answer to this one.
AnswersAreOld == \A m \in {"chain", "raw"} : replay[m].id < nextId

\* The tips a collection has read are in the order in which the node had them.
\* A hash is seen once, so tips that are equal had no other between them.
NotAfter(x, y) == x.hash <= y.hash /\ (x.hash = y.hash => x = y)
TipsInOrder ==
    /\ col.pc # "idle" => NotAfter(col.began, tip)
    /\ col.pc \in {"size", "raw", "entries", "end_tip"} =>
          NotAfter(col.began, col.tip) /\ NotAfter(col.tip, tip)
    /\ col.pc \in {"entries", "end_tip"} =>
          NotAfter(col.tip, col.read) /\ NotAfter(col.read, tip)

\* A limit is on a thread only from the decoding to the end of the collection.
LimitsAreReturned ==
    \A t \in Threads : limit[t] # MaxSupported =>
        /\ col.pc \in {"entries", "end_tip"} /\ col.thread = t
        /\ limit[t] = MaxEntries[col.source]

EntriesFit ==
    col.pc # "idle" =>
        /\ col.source \in Sources /\ col.thread \in Threads
        /\ Len(col.wire.entries) <= MaxEntries[col.source]

\* What was decoded without an error is all of the document, and only a document
\* that lists more than the limit exceeds it; once the entries were taken they are
\* sorted and nothing is there twice.
TxidsOf(s) == {s[i].txid : i \in DOMAIN s}
Strict(s) ==
    \A i, j \in DOMAIN s : i < j =>
        s[i].txid < s[j].txid /\ s[i].wtxid # s[j].wtxid
EntriesAreComplete ==
    /\ col.pc = "entries" /\ col.wire.error = "none" =>
          TxidsOf(col.wire.entries) = col.document
    /\ col.pc = "entries" /\ col.wire.error = "limit" =>
          MaxEntries[col.source] < col.listed
    /\ col.pc = "end_tip" =>
          TxidsOf(col.wire.entries) = col.document /\ Strict(col.wire.entries)

CollectionInv ==
    /\ CollectionTypeOK
    /\ AnswersAreOld
    /\ TipsInOrder
    /\ LimitsAreReturned
    /\ EntriesFit
    /\ EntriesAreComplete
    /\ SnapshotIsMempoolOfTip

-----------------------------------------------------------------------------
(* Orders of a set *)

\* A set of natural numbers that is not empty has a least element.
LEMMA LeastNumber ==
    ASSUME NEW T, T \subseteq Nat, T # {}
    PROVE  \E x \in T : \A y \in T : x <= y
<1>1. PICK x \in T : \A y \in T : ~ (<<y, x>> \in OpToRel(<, Nat))
  BY NatLessThanWellFounded, WFMin
<1>2. \A y \in T : ~ (y < x)
  BY <1>1 DEF OpToRel
<1> QED
  BY <1>2

\* An order of a finite set holds each of its elements at one place.
LEMMA SetToSeqsCover ==
    ASSUME NEW S, IsFiniteSet(S), NEW s \in SetToSeqs(S)
    PROVE  /\ s \in Seq(S) /\ Len(s) = Cardinality(S)
           /\ DOMAIN s = 1..Len(s)
           /\ \A x \in S : \E i \in DOMAIN s : s[i] = x
<1> DEFINE n == Cardinality(S)
           D == 1..n
<1>1. n \in Nat
  BY FS_CardinalityType
<1>2. s \in [D -> S] /\ \A i, j \in D : i # j => s[i] # s[j]
  BY DEF SetToSeqs
<1>3. s \in Injection(D, S)
  BY <1>2 DEF Injection, IsInjective
<1>4. Cardinality(D) = n
  BY <1>1, FS_Interval
<1>5. s \in Surjection(D, S)
  <2> HIDE DEF D, n
  <2>1. Cardinality(D) = Cardinality(S)
    BY <1>4 DEF n
  <2> QED
    BY <1>3, <2>1, FS_Injection
<1>6. \A x \in S : \E i \in D : s[i] = x
  BY <1>5 DEF Surjection
<1>7. s \in Seq(S) /\ Len(s) = n
  BY <1>1, <1>2
<1> QED
  BY <1>2, <1>6, <1>7

\* A finite set whose members have different txids can be put in the order of
\* txids: a member is preceded by as many as are smaller.
LEMMA AscendingExists ==
    ASSUME NEW S, IsFiniteSet(S), S \subseteq Entries,
           \A e, f \in S : e.txid = f.txid => e = f
    PROVE  \E s \in SetToSeqs(S) : Ascending(s)
<1> DEFINE n == Cardinality(S)
           D == 1..n
           Before(e) == {f \in S : f.txid < e.txid}
           rank == [e \in S |-> Cardinality(Before(e)) + 1]
<1>0. \A e \in S : e.txid \in Nat
  BY MembershipCollectionAssumption DEF Entries
<1>1. n \in Nat
  BY FS_CardinalityType
<1>2. \A e \in S : Before(e) \in SUBSET S /\ e \notin Before(e)
  BY <1>0
<1>3. \A e \in S : IsFiniteSet(Before(e)) /\ Cardinality(Before(e)) \in Nat
                     /\ Cardinality(Before(e)) < n
  <2> TAKE e \in S
  <2> DEFINE B == Before(e)
  <2>1. B \in SUBSET S /\ B # S
    BY <1>2
  <2> HIDE DEF B
  <2>2. IsFiniteSet(B) /\ Cardinality(B) <= n /\ (n = Cardinality(B) => S = B)
    BY <2>1, FS_Subset
  <2>3. Cardinality(B) \in Nat
    BY <2>2, FS_CardinalityType
  <2>4. IsFiniteSet(B) /\ Cardinality(B) \in Nat /\ Cardinality(B) < n
    BY <1>1, <2>1, <2>2, <2>3
  <2> QED
    BY <2>4 DEF B
<1>4. \A e, f \in S : e.txid < f.txid => rank[e] < rank[f]
  <2> SUFFICES ASSUME NEW e \in S, NEW f \in S, e.txid < f.txid
               PROVE  rank[e] < rank[f]
    OBVIOUS
  <2> DEFINE B == Before(e)
             C == Before(f)
  <2>1. B \in SUBSET C /\ B # C
    BY <1>0, <1>2
  <2>2. IsFiniteSet(C) /\ Cardinality(B) \in Nat /\ Cardinality(C) \in Nat
    BY <1>3
  <2> HIDE DEF B, C
  <2>3. Cardinality(B) <= Cardinality(C) /\ (Cardinality(C) = Cardinality(B) => C = B)
    BY <2>1, <2>2, FS_Subset
  <2>4. Cardinality(B) < Cardinality(C)
    BY <2>1, <2>2, <2>3
  <2>5. rank[e] = Cardinality(B) + 1 /\ rank[f] = Cardinality(C) + 1
    BY DEF B, C
  <2> QED
    BY <2>2, <2>4, <2>5
<1>5. rank \in [S -> D]
  <2>1. \A e \in S : rank[e] = Cardinality(Before(e)) + 1
    OBVIOUS
  <2> HIDE DEF Before
  <2>2. \A e \in S : Cardinality(Before(e)) + 1 \in D
    BY <1>1, <1>3
  <2> QED
    BY <2>2
<1>6. \A e, f \in S : rank[e] = rank[f] => e = f
  <2> SUFFICES ASSUME NEW e \in S, NEW f \in S, rank[e] = rank[f]
               PROVE  e = f
    OBVIOUS
  <2> HIDE DEF rank
  <2>1. rank[e] \in Nat /\ rank[f] \in Nat
    BY <1>5
  <2>2. ~ (e.txid < f.txid) /\ ~ (f.txid < e.txid)
    BY <1>4, <2>1
  <2> QED
    BY <1>0, <2>2
<1>7. \A i \in D : \E e \in S : rank[e] = i
  <2> HIDE DEF rank
  <2>1. rank \in Injection(S, D)
    BY <1>5, <1>6 DEF Injection, IsInjective
  <2>2. IsFiniteSet(D) /\ Cardinality(D) = n
    BY <1>1, FS_Interval
  <2> HIDE DEF D
  <2>3. rank \in Surjection(S, D)
    BY <2>1, <2>2, FS_Injection
  <2> QED
    BY <2>3 DEF Surjection
<1> DEFINE s == [i \in D |-> CHOOSE e \in S : rank[e] = i]
<1>8. s \in [D -> S] /\ \A i \in D : rank[s[i]] = i
  <2> HIDE DEF rank
  <2>1. \A i \in D : s[i] \in S /\ rank[s[i]] = i
    BY <1>7
  <2> QED
    BY <2>1
<1>9. s \in SetToSeqs(S)
  <2> HIDE DEF rank, s
  <2>1. \A i, j \in D : i # j => s[i] # s[j]
    BY <1>8
  <2> QED
    BY <1>8, <2>1 DEF SetToSeqs
<1>10. Ascending(s)
  <2> HIDE DEF rank, s
  <2> SUFFICES ASSUME NEW i \in D, NEW j \in D, i < j
               PROVE  s[i].txid < s[j].txid
    BY <1>8 DEF Ascending
  <2>1. s[i] \in S /\ s[j] \in S /\ rank[s[i]] = i /\ rank[s[j]] = j
    BY <1>8
  <2>2. ~ (s[j].txid < s[i].txid)
    BY <1>4, <2>1
  <2>3. s[i].txid # s[j].txid
    BY <2>1
  <2> QED
    BY <1>0, <2>1, <2>2, <2>3
<1> QED
  BY <1>9, <1>10

\* What into_entries makes of entries it does not refuse: the same entries, in
\* the order of txids, no two of which share a txid or a wtxid.
LEMMA SortedEntries ==
    ASSUME NEW entries \in Seq(Entries), NEW most \in Nat,
           EntriesError(entries, most) = "none"
    PROVE  /\ Sorted(entries) \in Seq(Entries)
           /\ Len(Sorted(entries)) <= Len(entries) /\ Len(entries) <= most
           /\ TxidsOf(Sorted(entries)) = TxidsOf(entries)
           /\ Strict(Sorted(entries))
<1> DEFINE S == ToSet(entries)
           s == Sorted(entries)
<1>1. /\ ~ (Len(entries) > most)
      /\ ~ \E i, j \in DOMAIN entries :
              i # j /\ (\/ entries[i].txid = entries[j].txid
                        \/ entries[i].wtxid = entries[j].wtxid)
  BY DEF EntriesError
<1>2. /\ Len(entries) \in Nat /\ DOMAIN entries = 1..Len(entries)
      /\ \A i \in 1..Len(entries) : entries[i] \in Entries
  BY LenProperties, ElementOfSeq
<1>3. S \subseteq Entries /\ \A e \in S : \E i \in DOMAIN entries : e = entries[i]
  BY <1>2 DEF ToSet
<1>4. \A e, f \in S : e # f => e.txid # f.txid /\ e.wtxid # f.wtxid
  BY <1>1, <1>3
<1>5. IsFiniteSet(S) /\ Cardinality(S) <= Len(entries)
  <2>1. IsFiniteSet(1..Len(entries)) /\ Cardinality(1..Len(entries)) = Len(entries)
    <3>1. 1 \in Int /\ Len(entries) \in Int /\ Len(entries) \in Nat
      BY <1>2
    <3>2. /\ IsFiniteSet(1..Len(entries))
          /\ Cardinality(1..Len(entries)) =
                IF 1 > Len(entries) THEN 0 ELSE Len(entries) - 1 + 1
      BY <3>1, FS_Interval
    <3> QED
      BY <3>1, <3>2
  <2>2. entries \in Surjection(1..Len(entries), S)
    BY <1>2 DEF Surjection, ToSet
  <2> HIDE DEF S
  <2> QED
    BY <2>1, <2>2, FS_Surjection
<1> HIDE DEF S
<1>6. \E x \in SetToSeqs(S) : Ascending(x)
  BY <1>3, <1>4, <1>5, AscendingExists
<1>7. s \in SetToSeqs(S) /\ Ascending(s)
  BY <1>6 DEF Sorted, S
<1> HIDE DEF s
<1>8. /\ s \in Seq(S) /\ Len(s) = Cardinality(S) /\ DOMAIN s = 1..Len(s)
      /\ \A x \in S : \E i \in DOMAIN s : s[i] = x
  BY <1>5, <1>7, SetToSeqsCover
<1>9. \A i \in DOMAIN s : s[i] \in S
  BY <1>8, ElementOfSeq
<1>10. s \in Seq(Entries)
  BY <1>3, <1>8, <1>9, LenProperties
<1>11. TxidsOf(s) = TxidsOf(entries)
  <2>1. ASSUME NEW x \in TxidsOf(s) PROVE x \in TxidsOf(entries)
    BY <1>3, <1>9 DEF TxidsOf
  <2>2. ASSUME NEW x \in TxidsOf(entries) PROVE x \in TxidsOf(s)
    <3>1. PICK i \in DOMAIN entries : x = entries[i].txid
      BY DEF TxidsOf
    <3>2. entries[i] \in S
      BY DEF S, ToSet
    <3>3. PICK k \in DOMAIN s : s[k] = entries[i]
      BY <1>8, <3>2
    <3> QED
      BY <3>1, <3>3 DEF TxidsOf
  <2> QED
    BY <2>1, <2>2
<1>12. Strict(s)
  <2> SUFFICES ASSUME NEW i \in DOMAIN s, NEW j \in DOMAIN s, i < j
               PROVE  s[i].txid < s[j].txid /\ s[i].wtxid # s[j].wtxid
    BY DEF Strict
  <2>1. s[i].txid < s[j].txid
    BY <1>7 DEF Ascending
  <2>2. s[i].txid \in Nat
    BY <1>3, <1>9, MembershipCollectionAssumption DEF Entries
  <2>3. s[i] # s[j]
    BY <2>1, <2>2
  <2> QED
    BY <1>4, <1>9, <2>1, <2>3
<1>13. Len(s) <= Len(entries) /\ Len(entries) <= most
  BY <1>1, <1>2, <1>5, <1>8
<1> QED
  BY <1>10, <1>11, <1>12, <1>13 DEF s

-----------------------------------------------------------------------------
(* Decoding a document *)

\* Whatever the node writes of a mempool names every transaction of it and no
\* other.
LEMMA DocumentIsPool ==
    ASSUME NEW xs \in SUBSET Txs, NEW s \in SetToSeqs(xs),
           NEW wtxid \in WtxidsOf(xs), NEW valid \in [xs -> BOOLEAN],
           NEW again \in BOOLEAN
    PROVE  /\ Document(s, wtxid, valid, again) \in Seq(Entries)
           /\ TxidsOf(Document(s, wtxid, valid, again)) = xs
<1> DEFINE plain == [i \in DOMAIN s |-> Entry(s[i], wtxid[s[i]], valid[s[i]])]
<1>1. IsFiniteSet(xs)
  BY MembershipCollectionAssumption, FS_Subset
<1>2. /\ s \in Seq(xs) /\ DOMAIN s = 1..Len(s) /\ Len(s) \in Nat
      /\ \A x \in xs : \E i \in DOMAIN s : s[i] = x
  BY <1>1, SetToSeqsCover, LenProperties
<1>3. \A i \in DOMAIN s : s[i] \in xs
  BY <1>2, ElementOfSeq
<1>4. \A x \in xs : wtxid[x] \in Nat
  <2>1. CASE wtxid = [x \in xs |-> x]
    BY <2>1, MembershipCollectionAssumption
  <2>2. CASE wtxid = [x \in xs |-> 0]
    BY <2>2
  <2> QED
    BY <2>1, <2>2 DEF WtxidsOf
<1>5. \A i \in DOMAIN s : /\ Entry(s[i], wtxid[s[i]], valid[s[i]]) \in Entries
                          /\ Entry(s[i], wtxid[s[i]], valid[s[i]]).txid = s[i]
  BY <1>3, <1>4 DEF Entry, Entries
<1>6. /\ \A i \in DOMAIN s : plain[i] \in Entries /\ plain[i].txid = s[i]
      /\ DOMAIN plain = DOMAIN s
  BY <1>5
<1>7. plain \in Seq(Entries) /\ Len(plain) = Len(s)
  <2>1. plain \in [1..Len(s) -> Entries]
    BY <1>2, <1>6
  <2> HIDE DEF plain
  <2> QED
    BY <1>2, <2>1
<1> HIDE DEF plain
<1>8. TxidsOf(plain) = xs
  BY <1>2, <1>3, <1>6 DEF TxidsOf
<1>9. CASE again /\ plain # <<>>
  <2> DEFINE d == Append(plain, plain[1])
  <2>1. Len(plain) \in Nat /\ Len(plain) # 0 /\ 1 \in DOMAIN plain
    BY <1>2, <1>6, <1>7, <1>9, EmptySeq
  <2>2. /\ d \in Seq(Entries) /\ Len(d) = Len(plain) + 1
        /\ \A i \in 1..Len(plain) : d[i] = plain[i]
        /\ d[Len(plain) + 1] = plain[1]
    BY <1>6, <1>7, <2>1, AppendProperties
  <2> HIDE DEF d
  <2>3. DOMAIN d = 1..(Len(plain) + 1)
    BY <2>1, <2>2, LenProperties
  <2>4. TxidsOf(d) = TxidsOf(plain)
    <3>1. \A i \in DOMAIN d : \E k \in DOMAIN plain : d[i] = plain[k]
      BY <1>2, <1>6, <1>7, <2>1, <2>2, <2>3
    <3>2. \A k \in DOMAIN plain : k \in DOMAIN d /\ d[k] = plain[k]
      BY <1>2, <1>6, <1>7, <2>1, <2>2, <2>3
    <3>3. ASSUME NEW x \in TxidsOf(d) PROVE x \in TxidsOf(plain)
      BY <3>1 DEF TxidsOf
    <3>4. ASSUME NEW x \in TxidsOf(plain) PROVE x \in TxidsOf(d)
      BY <3>2 DEF TxidsOf
    <3> QED
      BY <3>3, <3>4
  <2>5. Document(s, wtxid, valid, again) = d
    BY <1>9 DEF Document, d, plain
  <2> QED
    BY <1>8, <2>2, <2>4, <2>5
<1>10. CASE ~ (again /\ plain # <<>>)
  <2>1. Document(s, wtxid, valid, again) = plain
    BY <1>10 DEF Document, plain
  <2> QED
    BY <1>7, <1>8, <2>1
<1> QED
  BY <1>9, <1>10

\* The states of the decoder's loop.
Decodes(most, document, state) ==
    state = [n \in 0..Len(document) |->
                IF n = 0 THEN NoEntries ELSE Visit(most, state[n - 1], document[n])]

DecodesTo(most, document, m, state) ==
    /\ state[0] = NoEntries
    /\ \A k \in 1..m : state[k] = Visit(most, state[k - 1], document[k])

\* The loop has a run of every length: the one of the previous length and a turn.
LEMMA LoopRuns ==
    ASSUME NEW document \in Seq(Entries), NEW most \in Nat
    PROVE  \E state : Decodes(most, document, state)
<1> DEFINE Runs(m) == \E state : DecodesTo(most, document, m, state)
           Bad == {m \in Nat : ~ Runs(m)}
<1>1. Runs(0)
  <2>1. DecodesTo(most, document, 0, [k \in {0} |-> NoEntries])
    BY DEF DecodesTo
  <2> QED
    BY <2>1
<1>2. ASSUME NEW m \in Nat, Runs(m) PROVE Runs(m + 1)
  <2>1. PICK old : DecodesTo(most, document, m, old)
    BY <1>2
  <2> DEFINE state == [k \in 0..(m + 1) |->
                          IF k = m + 1 THEN Visit(most, old[m], document[m + 1])
                          ELSE old[k]]
  <2>2. /\ \A k \in 0..m : state[k] = old[k]
        /\ state[m + 1] = Visit(most, old[m], document[m + 1])
    OBVIOUS
  <2> HIDE DEF state
  <2>3. state[0] = NoEntries
    BY <2>1, <2>2 DEF DecodesTo
  <2>4. ASSUME NEW k \in 1..(m + 1)
        PROVE  state[k] = Visit(most, state[k - 1], document[k])
    <3>1. CASE k = m + 1
      <4>1. k - 1 = m /\ state[m] = old[m]
        BY <2>2, <3>1
      <4> QED
        BY <2>2, <3>1, <4>1
    <3>2. CASE k # m + 1
      <4>1. k \in 1..m /\ k \in 0..m /\ k - 1 \in 0..m
        BY <3>2
      <4>2. state[k] = old[k] /\ state[k - 1] = old[k - 1]
        BY <2>2, <4>1
      <4>3. old[k] = Visit(most, old[k - 1], document[k])
        BY <2>1, <4>1 DEF DecodesTo
      <4> QED
        BY <4>2, <4>3
    <3> QED
      BY <3>1, <3>2
  <2>5. DecodesTo(most, document, m + 1, state)
    BY <2>3, <2>4 DEF DecodesTo
  <2> QED
    BY <2>5
<1> HIDE DEF Runs
<1>3. Bad = {}
  <2> SUFFICES ASSUME Bad # {} PROVE FALSE
    OBVIOUS
  <2>1. PICK m \in Bad : \A k \in Bad : m <= k
    BY LeastNumber
  <2>2. m \in Nat /\ ~ Runs(m) /\ m # 0
    BY <1>1, <2>1
  <2>3. m - 1 \in Nat /\ m - 1 \notin Bad
    BY <2>1, <2>2
  <2>4. Runs(m - 1)
    BY <2>3
  <2>5. Runs((m - 1) + 1)
    BY <1>2, <2>3, <2>4
  <2> QED
    BY <2>2, <2>5
<1>4. Len(document) \in Nat
  BY LenProperties
<1>5. Runs(Len(document))
  BY <1>3, <1>4
<1>6. PICK some : DecodesTo(most, document, Len(document), some)
  BY <1>5 DEF Runs
<1> DEFINE state == [k \in 0..Len(document) |-> some[k]]
<1>7. \A k \in 0..Len(document) : state[k] = some[k]
  OBVIOUS
<1>8. state = [n \in 0..Len(document) |->
                  IF n = 0 THEN NoEntries ELSE Visit(most, state[n - 1], document[n])]
  <2>1. ASSUME NEW n \in 0..Len(document)
        PROVE  some[n] = IF n = 0 THEN NoEntries
                         ELSE Visit(most, state[n - 1], document[n])
    <3>1. CASE n = 0
      BY <1>6, <3>1 DEF DecodesTo
    <3>2. CASE n # 0
      <4>1. n \in 1..Len(document) /\ n - 1 \in 0..Len(document)
        BY <1>4, <3>2
      <4>2. state[n - 1] = some[n - 1]
        BY <1>7, <4>1
      <4>3. some[n] = Visit(most, some[n - 1], document[n])
        BY <1>6, <4>1 DEF DecodesTo
      <4> QED
        BY <3>2, <4>2, <4>3
    <3> QED
      BY <3>1, <3>2
  <2> QED
    BY <2>1
<1> QED
  BY <1>8 DEF Decodes

\* What the decoder has after n entries: within the limit, and all of them
\* unless there was an error; the limit is one only if they are more.
DecodedSoFar(most, document, n, w) ==
    /\ w \in Wires /\ Len(w.entries) <= most
    /\ w.error = "none" =>
          /\ w.observed = n /\ Len(w.entries) = n
          /\ \A i \in 1..n : w.entries[i] = document[i]
    /\ w.error = "limit" => most < n

\* One turn of visit_map.
LEMMA VisitDecodes ==
    ASSUME NEW document \in Seq(Entries), NEW most \in Nat, NEW n \in Nat,
           n + 1 <= Len(document), NEW w, DecodedSoFar(most, document, n, w)
    PROVE  DecodedSoFar(most, document, n + 1, Visit(most, w, document[n + 1]))
<1> DEFINE e == document[n + 1]
           v == Visit(most, w, e)
<1>1. e \in Entries
  BY LenProperties, ElementOfSeq
<1>2. /\ w \in Wires /\ w.entries \in Seq(Entries) /\ w.observed \in Nat
      /\ w.error \in Errors /\ Len(w.entries) <= most
  BY DEF DecodedSoFar, Wires
<1> HIDE DEF e
<1>3. CASE w.error # "none"
  <2>1. v = w
    BY <1>3 DEF Visit
  <2>2. w.error = "limit" => most < n + 1
    BY DEF DecodedSoFar
  <2> QED
    BY <1>2, <1>3, <2>1, <2>2 DEF DecodedSoFar, e
<1>4. CASE w.error = "none" /\ w.observed + 1 > most
  <2>1. v = [w EXCEPT !.observed = @ + 1, !.error = "limit"]
    BY <1>4 DEF Visit
  <2>2. v \in Wires /\ v.entries = w.entries /\ v.error = "limit"
    <3>1. w.observed + 1 \in Nat /\ "limit" \in Errors /\ v.error # "none"
      BY <1>2, <2>1 DEF Errors, Wires
    <3> QED
      BY <1>2, <2>1, <3>1, Zenon DEF Wires
  <2>3. most < n + 1
    BY <1>4 DEF DecodedSoFar
  <2> QED
    BY <1>2, <2>2, <2>3 DEF DecodedSoFar, e
<1>5. CASE w.error = "none" /\ ~ (w.observed + 1 > most) /\ ~ e.valid
  <2>1. v = [w EXCEPT !.observed = @ + 1, !.error = "invalid"]
    BY <1>5 DEF Visit
  <2>2. v \in Wires /\ v.entries = w.entries /\ v.error = "invalid"
    <3>1. w.observed + 1 \in Nat /\ "invalid" \in Errors /\ v.error # "none"
      BY <1>2, <2>1 DEF Errors, Wires
    <3> QED
      BY <1>2, <2>1, <3>1, Zenon DEF Wires
  <2> QED
    BY <1>2, <2>2 DEF DecodedSoFar, e
<1>6. CASE w.error = "none" /\ ~ (w.observed + 1 > most) /\ e.valid
  <2>1. v = [w EXCEPT !.observed = @ + 1, !.entries = Append(@, e)]
    BY <1>6 DEF Visit
  <2>2. /\ Append(w.entries, e) \in Seq(Entries)
        /\ Len(Append(w.entries, e)) = Len(w.entries) + 1
        /\ \A i \in 1..Len(w.entries) : Append(w.entries, e)[i] = w.entries[i]
        /\ Append(w.entries, e)[Len(w.entries) + 1] = e
    BY <1>1, <1>2, AppendProperties
  <2>3. /\ v.entries = Append(w.entries, e) /\ v.observed = w.observed + 1
        /\ v \in Wires /\ v.error = "none"
    <3>1. w.observed + 1 \in Nat
      BY <1>2
    <3> QED
      BY <1>2, <1>6, <2>1, <2>2, <3>1, Zenon DEF Wires
  <2>4. /\ w.observed = n /\ Len(w.entries) = n
        /\ \A i \in 1..n : w.entries[i] = document[i]
    BY <1>6 DEF DecodedSoFar
  <2> HIDE DEF v
  <2>5. v.observed = n + 1 /\ Len(v.entries) = n + 1 /\ Len(v.entries) <= most
    BY <1>6, <2>2, <2>3, <2>4
  <2>6. \A i \in 1..(n + 1) : v.entries[i] = document[i]
    BY <2>2, <2>3, <2>4 DEF e
  <2> QED
    BY <2>3, <2>5, <2>6 DEF DecodedSoFar, v, e
<1> QED
  BY <1>3, <1>4, <1>5, <1>6

\* The decoder never keeps more entries than its limit, keeps all of the document
\* if it reports no error, and reports the limit only of one that is longer.
LEMMA DecodedEntries ==
    ASSUME NEW document \in Seq(Entries), NEW most \in Nat
    PROVE  /\ Decoded(document, most) \in Wires
           /\ Len(Decoded(document, most).entries) <= most
           /\ Decoded(document, most).error = "none" =>
                 TxidsOf(Decoded(document, most).entries) = TxidsOf(document)
           /\ Decoded(document, most).error = "limit" => most < Len(document)
<1> DEFINE state == CHOOSE f : Decodes(most, document, f)
           Good(n) == DecodedSoFar(most, document, n, state[n])
           Bad == {n \in 0..Len(document) : ~ Good(n)}
           w == state[Len(document)]
<1>0. Len(document) \in Nat /\ DOMAIN document = 1..Len(document)
  BY LenProperties
<1>1. Decoded(document, most) = w
  BY DEF Decoded, Decodes
<1>2. Decodes(most, document, state)
  BY LoopRuns
<1> HIDE DEF state
<1>3. \A n \in 0..Len(document) :
          state[n] = IF n = 0 THEN NoEntries
                     ELSE Visit(most, state[n - 1], document[n])
  BY <1>2 DEF Decodes
<1>4. Good(0)
  <2>1. state[0] = NoEntries
    BY <1>0, <1>3
  <2>2. NoEntries \in Wires /\ Len(NoEntries.entries) = 0
    BY DEF NoEntries, Wires, Errors
  <2> QED
    BY <2>1, <2>2 DEF DecodedSoFar, NoEntries
<1>5. ASSUME NEW n \in Nat, n + 1 <= Len(document), Good(n) PROVE Good(n + 1)
  <2>1. state[n + 1] = Visit(most, state[n], document[n + 1])
    BY <1>0, <1>3, <1>5
  <2> QED
    BY <1>5, <2>1, VisitDecodes
<1> HIDE DEF Good
<1>6. Bad = {}
  <2> SUFFICES ASSUME Bad # {} PROVE FALSE
    OBVIOUS
  <2>1. Bad \subseteq Nat
    BY <1>0
  <2>2. PICK n \in Bad : \A k \in Bad : n <= k
    BY <2>1, LeastNumber
  <2>3. n \in Nat /\ n <= Len(document) /\ ~ Good(n) /\ n # 0
    BY <1>0, <1>4, <2>2
  <2>4. n - 1 \in 0..Len(document) /\ n - 1 \notin Bad
    BY <1>0, <2>2, <2>3
  <2>5. n - 1 \in Nat /\ Good(n - 1) /\ (n - 1) + 1 = n
    BY <2>3, <2>4
  <2> QED
    BY <1>5, <2>3, <2>5
<1>7. DecodedSoFar(most, document, Len(document), w)
  BY <1>0, <1>6 DEF Good
<1> HIDE DEF w
<1>8. ASSUME w.error = "none" PROVE TxidsOf(w.entries) = TxidsOf(document)
  <2>1. /\ Len(w.entries) = Len(document) /\ w.entries \in Seq(Entries)
        /\ \A i \in 1..Len(document) : w.entries[i] = document[i]
    BY <1>7, <1>8 DEF DecodedSoFar, Wires
  <2>2. DOMAIN w.entries = 1..Len(document)
    BY <2>1, LenProperties
  <2> QED
    BY <1>0, <2>1, <2>2 DEF TxidsOf
<1> QED
  BY <1>1, <1>7, <1>8 DEF DecodedSoFar

-----------------------------------------------------------------------------
(* The steps *)

LEMMA IdleTyped == Idle \in Underway
<1>1. NoTip \in Tips
  BY DEF NoTip, Tips
<1>2. NoEntries \in Wires
  BY DEF NoEntries, Wires, Errors
<1>3. "idle" \in Stages /\ 0 \in Nat /\ {} \in SUBSET Txs
  BY DEF Stages
<1> QED
  BY <1>1, <1>2, <1>3, Zenon DEF Idle, Underway

LEMMA CollectionTyped ==
    ASSUME CollectionTypeOK
    PROVE  /\ col.pc \in Stages /\ col.started \in Nat /\ col.tip \in Tips
           /\ col.wire \in Wires /\ col.read \in Tips /\ col.document \in SUBSET Txs
           /\ col.began \in Tips /\ col.listed \in Nat
           /\ col.wire.entries \in Seq(Entries) /\ col.wire.error \in Errors
BY DEF CollectionTypeOK, Underway, Wires

\* A source's limit is between one and what is supported.
LEMMA LimitTyped ==
    /\ MaxSupported \in Nat
    /\ \A s \in Sources : MaxEntries[s] \in Nat
BY MembershipCollectionAssumption

LEMMA CollectionInitially == Init => CollectionInv
<1> SUFFICES ASSUME Init PROVE CollectionInv
  OBVIOUS
<1>1. tip \in Tips /\ pool \in SUBSET Txs /\ clock \in Nat /\ nextId \in Nat \ {0}
  BY DEF Init, Tips
<1>2. limit \in [Threads -> Nat]
  BY LimitTyped DEF Init
<1>3. col \in Underway /\ col.pc = "idle"
  BY IdleTyped DEF Init, Idle
<1>4. NoAnswer \in Sendable /\ NoAnswer.id = 0
  <2>1. NoTip \in Tips
    BY DEF NoTip, Tips
  <2> QED
    BY <2>1 DEF NoAnswer, Sendable
<1>5. replay \in [{"chain", "raw"} -> Sendable] /\ AnswersAreOld
  BY <1>4 DEF Init, AnswersAreOld
<1>6. TipsInOrder /\ EntriesFit /\ EntriesAreComplete
  BY <1>3 DEF TipsInOrder, EntriesFit, EntriesAreComplete
<1>7. LimitsAreReturned
  BY DEF Init, LimitsAreReturned
<1>8. SnapshotIsMempoolOfTip
  BY DEF Init, NoResult, SnapshotIsMempoolOfTip, Snapshot
<1> QED
  BY <1>1, <1>2, <1>3, <1>5, <1>6, <1>7, <1>8 DEF CollectionInv, CollectionTypeOK

\* A snapshot stays what it is.
LEMMA ResultKept ==
    ASSUME SnapshotIsMempoolOfTip, result' = result
    PROVE  SnapshotIsMempoolOfTip'
BY Zenon DEF SnapshotIsMempoolOfTip, Snapshot

\* A step of the node or the clock: whatever becomes of the tip, those that were
\* read are not after it.
LEMMA EnvironmentStep ==
    ASSUME CollectionInv, UNCHANGED <<nextId, limit, col, result, replay>>,
           tip' \in Tips, pool' \in SUBSET Txs, clock' \in Nat,
           tip' = tip \/ tip'.hash = tip.hash + 1
    PROVE  CollectionInv'
<1>1. CollectionTypeOK'
  BY DEF CollectionInv, CollectionTypeOK
<1>2. AnswersAreOld'
  BY DEF CollectionInv, AnswersAreOld
<1>3. ASSUME NEW x \in Tips, NotAfter(x, tip) PROVE NotAfter(x, tip')
  <2>1. x.hash \in Nat /\ tip.hash \in Nat
    BY <1>3 DEF CollectionInv, CollectionTypeOK, Tips
  <2> QED
    BY <1>3, <2>1 DEF NotAfter
<1>4. TipsInOrder'
  <2>1. TipsInOrder /\ col.tip \in Tips /\ col.read \in Tips /\ col.began \in Tips
    BY CollectionTyped DEF CollectionInv
  <2> QED
    BY <1>3, <2>1, Zenon DEF TipsInOrder
<1>5. LimitsAreReturned' /\ EntriesFit' /\ EntriesAreComplete'
  BY Zenon DEF CollectionInv, LimitsAreReturned, EntriesFit, EntriesAreComplete
<1>6. SnapshotIsMempoolOfTip'
  BY ResultKept DEF CollectionInv
<1> QED
  BY <1>1, <1>2, <1>4, <1>5, <1>6 DEF CollectionInv

\* A collection that ends without a snapshot.
LEMMA FailStep ==
    ASSUME CollectionInv, col.pc # "idle", NEW kind, kind # "snapshot", Fail(kind),
           UNCHANGED nodeVars, nextId' \in Nat \ {0},
           replay' \in [{"chain", "raw"} -> Sendable], AnswersAreOld'
    PROVE  CollectionInv'
<1>0. col' = Idle /\ limit' = [limit EXCEPT ![col.thread] = MaxSupported]
  BY DEF Fail
<1>1. limit' \in [Threads -> Nat]
  BY <1>0, LimitTyped DEF CollectionInv, CollectionTypeOK
<1>2. CollectionTypeOK'
  <2>1. col' \in Underway
    BY <1>0, IdleTyped
  <2> QED
    BY <1>1, <2>1 DEF CollectionInv, CollectionTypeOK, nodeVars
<1>3. col'.pc = "idle"
  BY <1>0 DEF Idle
<1>4. TipsInOrder' /\ EntriesFit' /\ EntriesAreComplete'
  BY <1>3 DEF TipsInOrder, EntriesFit, EntriesAreComplete
<1>5. LimitsAreReturned'
  <2> SUFFICES ASSUME NEW t \in Threads PROVE limit'[t] = MaxSupported
    BY DEF LimitsAreReturned
  <2>1. CASE t = col.thread
    BY <1>0, <2>1 DEF CollectionInv, CollectionTypeOK
  <2>2. CASE t # col.thread
    <3>1. limit'[t] = limit[t]
      BY <1>0, <2>2 DEF CollectionInv, CollectionTypeOK
    <3> QED
      BY <2>2, <3>1 DEF CollectionInv, LimitsAreReturned
  <2> QED
    BY <2>1, <2>2
<1>6. SnapshotIsMempoolOfTip'
  <2>1. result'.kind # "snapshot"
    BY DEF Fail
  <2> QED
    BY <2>1, Zenon DEF SnapshotIsMempoolOfTip, Snapshot
<1> QED
  BY <1>2, <1>4, <1>5, <1>6 DEF CollectionInv

\* An answer that is taken is the one to this request: it says what the node has
\* now, and it is an old one for the next request.
LEMMA AnswerIsCurrent ==
    ASSUME CollectionInv, NEW m \in {"chain", "raw"}, NEW a \in Answers(m),
           Matches(a, nextId)
    PROVE  a.tip = tip /\ a.pool = pool /\ a.id = nextId /\ a \in Sendable
<1>1. a # replay[m]
  <2>1. replay[m].id < nextId /\ replay[m].id \in Nat /\ nextId \in Nat
    BY DEF CollectionInv, CollectionTypeOK, AnswersAreOld, Sendable
  <2> QED
    BY <2>1 DEF Matches
<1>2. a = [id |-> nextId, tip |-> tip, pool |-> pool]
  BY <1>1 DEF Answers
<1> QED
  BY <1>2 DEF CollectionInv, CollectionTypeOK, Sendable

LEMMA AnswerIsKept ==
    ASSUME CollectionInv, NEW m \in {"chain", "raw"}, NEW a \in Answers(m),
           Matches(a, nextId), Sent, replay' = [replay EXCEPT ![m] = a]
    PROVE  /\ nextId' \in Nat \ {0}
           /\ replay' \in [{"chain", "raw"} -> Sendable] /\ AnswersAreOld'
<1>1. a.id = nextId /\ a \in Sendable
  BY AnswerIsCurrent
<1>2. nextId \in Nat \ {0} /\ nextId' = nextId + 1
  BY DEF CollectionInv, CollectionTypeOK, Sent
<1>3. replay' \in [{"chain", "raw"} -> Sendable]
  BY <1>1 DEF CollectionInv, CollectionTypeOK
<1>4. AnswersAreOld'
  <2> SUFFICES ASSUME NEW k \in {"chain", "raw"} PROVE replay'[k].id < nextId'
    BY DEF AnswersAreOld
  <2>1. CASE k = m
    BY <1>1, <1>2, <2>1 DEF CollectionInv, CollectionTypeOK
  <2>2. CASE k # m
    <3>1. replay'[k] = replay[k]
      BY <2>2 DEF CollectionInv, CollectionTypeOK
    <3>2. replay[k].id < nextId /\ replay[k].id \in Nat
      BY DEF CollectionInv, CollectionTypeOK, AnswersAreOld, Sendable
    <3> QED
      BY <1>2, <3>1, <3>2
  <2> QED
    BY <2>1, <2>2
<1> QED
  BY <1>2, <1>3, <1>4

\* A request whose answer is not kept.
LEMMA RequestIsCounted ==
    ASSUME CollectionInv, nextId' = nextId \/ Sent, UNCHANGED replay
    PROVE  /\ nextId' \in Nat \ {0}
           /\ replay' \in [{"chain", "raw"} -> Sendable] /\ AnswersAreOld'
<1>1. /\ nextId \in Nat \ {0} /\ nextId' >= nextId /\ nextId' \in Nat
      /\ \A k \in {"chain", "raw"} : replay[k].id < nextId /\ replay[k].id \in Nat
  BY DEF CollectionInv, CollectionTypeOK, AnswersAreOld, Sendable, Sent
<1>2. \A k \in {"chain", "raw"} : replay'[k].id < nextId'
  BY <1>1
<1> QED
  BY <1>1, <1>2 DEF CollectionInv, CollectionTypeOK, AnswersAreOld

LEMMA BeginStep == ASSUME CollectionInv, Begin PROVE CollectionInv'
<1> USE DEF Begin
<1>0. PICK s \in Sources, t \in Threads :
          IF clock = 0
          THEN result' = [kind |-> "clock", source |-> s] /\ UNCHANGED col
          ELSE /\ col' = [Idle EXCEPT !.pc = "start_tip", !.source = s, !.thread = t,
                                      !.started = clock, !.began = tip]
               /\ result' = NoResult
  BY Zenon
<1>1. col.pc = "idle" /\ UNCHANGED <<tip, pool, clock, nextId, limit, replay>>
  OBVIOUS
<1>2. /\ col'.pc \in {"idle", "start_tip"} /\ col' \in Underway
      /\ col'.pc # "idle" => /\ col'.source = s /\ col'.thread = t
                             /\ col'.wire = NoEntries /\ col'.began = tip
  <2>1. CASE clock = 0
    <3>1. col' = col
      BY <1>0, <2>1, Zenon
    <3> QED
      BY <1>1, <3>1 DEF CollectionInv, CollectionTypeOK
  <2>2. CASE clock # 0
    <3>1. col' = [Idle EXCEPT !.pc = "start_tip", !.source = s, !.thread = t,
                              !.started = clock, !.began = tip]
      BY <1>0, <2>2, Zenon
    <3>2. "start_tip" \in Stages /\ clock \in Nat /\ tip \in Tips
      BY DEF Stages, CollectionInv, CollectionTypeOK
    <3>3. col' \in Underway
      BY <3>1, <3>2, IdleTyped, Zenon DEF Underway
    <3>4. /\ col'.pc = "start_tip" /\ col'.source = s /\ col'.thread = t
          /\ col'.wire = NoEntries /\ col'.began = tip
      BY <3>1, Zenon DEF Idle
    <3> QED
      BY <3>3, <3>4
  <2> QED
    BY <2>1, <2>2
<1>3. CollectionTypeOK' /\ AnswersAreOld'
  BY <1>1, <1>2 DEF CollectionInv, CollectionTypeOK, AnswersAreOld
<1>4. TipsInOrder' /\ EntriesAreComplete'
  <2>1. NotAfter(tip, tip)
    BY DEF CollectionInv, CollectionTypeOK, Tips, NotAfter
  <2> QED
    BY <1>1, <1>2, <2>1 DEF TipsInOrder, EntriesAreComplete
<1>5. EntriesFit'
  <2>1. MaxEntries[s] \in Nat /\ Len(NoEntries.entries) = 0
    BY LimitTyped DEF NoEntries
  <2> QED
    BY <1>2, <2>1 DEF EntriesFit
<1>6. LimitsAreReturned'
  BY <1>1 DEF CollectionInv, LimitsAreReturned
<1>7. SnapshotIsMempoolOfTip'
  <2>1. result'.kind # "snapshot"
    BY <1>0 DEF NoResult
  <2> QED
    BY <2>1, Zenon DEF SnapshotIsMempoolOfTip, Snapshot
<1> QED
  BY <1>3, <1>4, <1>5, <1>6, <1>7 DEF CollectionInv

LEMMA ReadStartTipStep == ASSUME CollectionInv, ReadStartTip PROVE CollectionInv'
<1>1. PICK a \in Answers("chain") :
          /\ Matches(a, nextId)
          /\ replay' = [replay EXCEPT !["chain"] = a]
          /\ \/ /\ col' = [col EXCEPT !.pc = "size", !.tip = a.tip]
                /\ UNCHANGED <<limit, result>>
             \/ Fail("invalid")
  BY Zenon DEF ReadStartTip
<1>2. col.pc = "start_tip" /\ Sent /\ UNCHANGED nodeVars
  BY DEF ReadStartTip
<1>3. a.tip = tip
  BY <1>1, AnswerIsCurrent
<1>4. /\ nextId' \in Nat \ {0}
      /\ replay' \in [{"chain", "raw"} -> Sendable] /\ AnswersAreOld'
  BY <1>1, <1>2, AnswerIsKept
<1>5. CASE Fail("invalid")
  BY <1>2, <1>4, <1>5, FailStep
<1>6. CASE /\ col' = [col EXCEPT !.pc = "size", !.tip = a.tip]
           /\ UNCHANGED <<limit, result>>
  <2>1. col \in Underway /\ tip \in Tips /\ "size" \in Stages
    BY DEF CollectionInv, CollectionTypeOK, Stages
  <2>2. /\ col' \in Underway /\ col'.pc = "size" /\ col'.tip = tip
        /\ col'.began = col.began /\ col'.source = col.source /\ col'.thread = col.thread
        /\ col'.wire = col.wire
    BY <1>3, <1>6, <2>1, Zenon DEF Underway
  <2>3. CollectionTypeOK'
    BY <1>2, <1>4, <1>6, <2>2 DEF CollectionInv, CollectionTypeOK, nodeVars
  <2>4. TipsInOrder'
    <3>1. NotAfter(tip, tip) /\ NotAfter(col.began, tip)
      BY <1>2, <2>1 DEF NotAfter, Tips, CollectionInv, TipsInOrder
    <3> QED
      BY <1>2, <2>2, <3>1 DEF TipsInOrder, nodeVars
  <2>5. EntriesFit' /\ EntriesAreComplete'
    BY <1>2, <2>2 DEF CollectionInv, EntriesFit, EntriesAreComplete
  <2>6. LimitsAreReturned'
    BY <1>2, <1>6 DEF CollectionInv, LimitsAreReturned
  <2>7. SnapshotIsMempoolOfTip'
    BY <1>6, ResultKept DEF CollectionInv
  <2> QED
    BY <1>4, <2>3, <2>4, <2>5, <2>6, <2>7 DEF CollectionInv
<1> QED
  BY <1>1, <1>5, <1>6

LEMMA ReadSizeStep == ASSUME CollectionInv, ReadSize PROVE CollectionInv'
<1>1. col.pc = "size" /\ Sent /\ UNCHANGED nodeVars /\ UNCHANGED replay
  BY DEF ReadSize
<1>2. \/ Fail("limit") \/ Fail("invalid")
      \/ col' = [col EXCEPT !.pc = "raw"] /\ UNCHANGED <<limit, result>>
  BY Zenon DEF ReadSize
<1>3. /\ nextId' \in Nat \ {0}
      /\ replay' \in [{"chain", "raw"} -> Sendable] /\ AnswersAreOld'
  BY <1>1, RequestIsCounted
<1>4. CASE Fail("limit") \/ Fail("invalid")
  BY <1>1, <1>3, <1>4, FailStep
<1>5. CASE col' = [col EXCEPT !.pc = "raw"] /\ UNCHANGED <<limit, result>>
  <2>1. col \in Underway /\ "raw" \in Stages
    BY DEF CollectionInv, CollectionTypeOK, Stages
  <2>2. /\ col' \in Underway /\ col'.pc = "raw" /\ col'.tip = col.tip
        /\ col'.began = col.began /\ col'.source = col.source /\ col'.thread = col.thread
        /\ col'.wire = col.wire
    BY <1>5, <2>1, Zenon DEF Underway
  <2>3. CollectionTypeOK'
    BY <1>1, <1>3, <1>5, <2>2 DEF CollectionInv, CollectionTypeOK, nodeVars
  <2>4. TipsInOrder'
    BY <1>1, <2>2 DEF CollectionInv, TipsInOrder, nodeVars
  <2>5. EntriesFit' /\ EntriesAreComplete'
    BY <1>1, <2>2 DEF CollectionInv, EntriesFit, EntriesAreComplete
  <2>6. LimitsAreReturned'
    BY <1>1, <1>5 DEF CollectionInv, LimitsAreReturned
  <2>7. SnapshotIsMempoolOfTip'
    BY <1>5, ResultKept DEF CollectionInv
  <2> QED
    BY <1>3, <2>3, <2>4, <2>5, <2>6, <2>7 DEF CollectionInv
<1> QED
  BY <1>2, <1>4, <1>5

LEMMA ReadMempoolStep == ASSUME CollectionInv, ReadMempool PROVE CollectionInv'
<1>1. /\ col.pc = "raw" /\ Sent /\ UNCHANGED nodeVars /\ result' = result
      /\ limit' = [limit EXCEPT ![col.thread] = Guard(col.source)]
  BY DEF ReadMempool
<1>2. PICK a \in Answers("raw") :
          /\ Matches(a, nextId)
          /\ replay' = [replay EXCEPT !["raw"] = a]
          /\ \E s \in SetToSeqs(a.pool), wtxid \in WtxidsOf(a.pool),
                valid \in [a.pool -> BOOLEAN], again \in BOOLEAN :
              LET document == Document(s, wtxid, valid, again)
              IN  col' = [col EXCEPT !.pc = "entries", !.read = a.tip,
                                     !.document = a.pool, !.listed = Len(document),
                                     !.wire = Decoded(document, limit'[col.thread])]
  BY Zenon DEF ReadMempool
<1>3. PICK s \in SetToSeqs(a.pool), wtxid \in WtxidsOf(a.pool),
           valid \in [a.pool -> BOOLEAN], again \in BOOLEAN :
          LET document == Document(s, wtxid, valid, again)
          IN  col' = [col EXCEPT !.pc = "entries", !.read = a.tip,
                                 !.document = a.pool, !.listed = Len(document),
                                 !.wire = Decoded(document, limit'[col.thread])]
  BY <1>2, Zenon
<1>4. a.tip = tip /\ a.pool = pool
  BY <1>2, AnswerIsCurrent
<1>5. /\ nextId' \in Nat \ {0}
      /\ replay' \in [{"chain", "raw"} -> Sendable] /\ AnswersAreOld'
  BY <1>1, <1>2, AnswerIsKept
<1>6. /\ col \in Underway /\ tip \in Tips /\ pool \in SUBSET Txs
      /\ limit \in [Threads -> Nat] /\ "entries" \in Stages
      /\ col.source \in Sources /\ col.thread \in Threads
      /\ NotAfter(col.began, col.tip) /\ NotAfter(col.began, tip)
      /\ NotAfter(col.tip, tip)
  BY <1>1 DEF CollectionInv, CollectionTypeOK, Stages, EntriesFit, TipsInOrder
<1> DEFINE most == MaxEntries[col.source]
           document == Document(s, wtxid, valid, again)
           wire == Decoded(document, most)
<1>7. /\ most \in Nat /\ limit' \in [Threads -> Nat] /\ limit'[col.thread] = most
      /\ \A t \in Threads \ {col.thread} : limit'[t] = limit[t]
  BY <1>1, <1>6, LimitTyped DEF Guard
<1>8. /\ document \in Seq(Entries) /\ TxidsOf(document) = pool
      /\ Len(document) \in Nat
  BY <1>4, <1>6, DocumentIsPool, LenProperties
<1> HIDE DEF document, most
<1>9. /\ wire \in Wires /\ Len(wire.entries) <= most
      /\ wire.error = "none" => TxidsOf(wire.entries) = pool
      /\ wire.error = "limit" => most < Len(document)
  BY <1>7, <1>8, DecodedEntries
<1> HIDE DEF wire
<1>10. col' = [col EXCEPT !.pc = "entries", !.read = tip, !.document = pool,
                          !.listed = Len(document), !.wire = wire]
  BY <1>3, <1>4, <1>7 DEF wire, document
<1>11. /\ col' \in Underway /\ col'.pc = "entries" /\ col'.read = tip
       /\ col'.document = pool /\ col'.wire = wire /\ col'.tip = col.tip
       /\ col'.listed = Len(document) /\ col'.began = col.began
       /\ col'.source = col.source /\ col'.thread = col.thread
  BY <1>6, <1>8, <1>9, <1>10, Zenon DEF Underway
<1>12. CollectionTypeOK'
  BY <1>1, <1>5, <1>7, <1>11 DEF CollectionInv, CollectionTypeOK, nodeVars
<1>13. TipsInOrder'
  <2>1. NotAfter(tip, tip)
    BY <1>6 DEF NotAfter, Tips
  <2> QED
    BY <1>1, <1>6, <1>11, <2>1 DEF TipsInOrder, nodeVars
<1>14. EntriesFit' /\ EntriesAreComplete'
  BY <1>6, <1>9, <1>11 DEF EntriesFit, EntriesAreComplete, most
<1>15. LimitsAreReturned'
  <2> SUFFICES ASSUME NEW t \in Threads, limit'[t] # MaxSupported
               PROVE  col.thread = t /\ limit'[t] = most
    BY <1>11 DEF LimitsAreReturned, most
  <2>1. CASE t = col.thread
    BY <1>7, <2>1
  <2>2. CASE t # col.thread
    <3>1. limit[t] # MaxSupported
      BY <1>7, <2>2
    <3> QED
      BY <1>1, <3>1 DEF CollectionInv, LimitsAreReturned
  <2> QED
    BY <2>1, <2>2
<1>16. SnapshotIsMempoolOfTip'
  BY <1>1, ResultKept DEF CollectionInv
<1> QED
  BY <1>5, <1>12, <1>13, <1>14, <1>15, <1>16 DEF CollectionInv

LEMMA TakeEntriesStep == ASSUME CollectionInv, TakeEntries PROVE CollectionInv'
<1> DEFINE most == MaxEntries[col.source]
           entries == col.wire.entries
           error == IF col.wire.error # "none" THEN col.wire.error
                    ELSE EntriesError(col.wire.entries, most)
<1>1. /\ col.pc = "entries" /\ UNCHANGED nodeVars /\ UNCHANGED nextId
      /\ UNCHANGED replay
  BY DEF TakeEntries
<1>2. IF error # "none" THEN Fail(error)
      ELSE /\ col' = [col EXCEPT !.pc = "end_tip", !.wire.entries = Sorted(@)]
           /\ UNCHANGED <<limit, result>>
  BY Zenon DEF TakeEntries
<1>3. /\ nextId' \in Nat \ {0}
      /\ replay' \in [{"chain", "raw"} -> Sendable] /\ AnswersAreOld'
  BY <1>1, RequestIsCounted
<1>4. CASE error # "none"
  <2>1. error \in {"limit", "invalid", "none"}
    BY CollectionTyped DEF CollectionInv, EntriesError, Errors
  <2> HIDE DEF error
  <2>2. Fail(error) /\ error # "snapshot"
    BY <1>2, <1>4, <2>1
  <2> QED
    BY <1>1, <1>3, <2>2, FailStep
<1>5. CASE error = "none"
  <2>1. /\ col' = [col EXCEPT !.pc = "end_tip", !.wire.entries = Sorted(@)]
        /\ UNCHANGED <<limit, result>>
    BY <1>2, <1>5
  <2>2. col.wire.error = "none" /\ EntriesError(entries, most) = "none"
    BY <1>5
  <2>3. /\ col \in Underway /\ "end_tip" \in Stages
        /\ col.wire \in Wires /\ entries \in Seq(Entries)
        /\ col.source \in Sources /\ col.thread \in Threads /\ most \in Nat
        /\ TxidsOf(entries) = col.document
        /\ NotAfter(col.tip, col.read) /\ NotAfter(col.read, tip)
        /\ NotAfter(col.began, col.tip) /\ NotAfter(col.began, tip)
        /\ NotAfter(col.tip, tip)
    BY <1>1, <2>2, LimitTyped, CollectionTyped
       DEF CollectionInv, CollectionTypeOK, Stages, EntriesFit,
           EntriesAreComplete, TipsInOrder
  <2> HIDE DEF most, entries
  <2> DEFINE sorted == Sorted(entries)
             wire == [col.wire EXCEPT !.entries = sorted]
  <2>4. /\ sorted \in Seq(Entries) /\ Len(sorted) <= Len(entries)
        /\ Len(entries) <= most
        /\ TxidsOf(sorted) = TxidsOf(entries) /\ Strict(sorted)
    BY <2>2, <2>3, SortedEntries
  <2> HIDE DEF sorted
  <2>5. wire \in Wires /\ wire.entries = sorted
    BY <2>3, <2>4, Zenon DEF Wires
  <2>6. col' = [col EXCEPT !.pc = "end_tip", !.wire = wire]
    BY <2>1, <2>3, Zenon DEF Underway, sorted, entries
  <2> HIDE DEF wire
  <2>7. /\ col' \in Underway /\ col'.pc = "end_tip" /\ col'.read = col.read
        /\ col'.document = col.document /\ col'.wire = wire /\ col'.tip = col.tip
        /\ col'.began = col.began /\ col'.source = col.source /\ col'.thread = col.thread
    BY <2>3, <2>5, <2>6, Zenon DEF Underway
  <2>8. CollectionTypeOK'
    BY <1>1, <1>3, <2>1, <2>7 DEF CollectionInv, CollectionTypeOK, nodeVars
  <2>9. TipsInOrder'
    BY <1>1, <2>3, <2>7 DEF TipsInOrder, nodeVars
  <2>10. EntriesFit'
    <3>1. Len(sorted) <= most
      BY <2>3, <2>4, LenProperties
    <3> QED
      BY <2>3, <2>5, <2>7, <3>1 DEF EntriesFit, most
  <2>11. EntriesAreComplete'
    BY <2>3, <2>4, <2>5, <2>7 DEF EntriesAreComplete
  <2>12. LimitsAreReturned'
    BY <1>1, <2>1, <2>7 DEF CollectionInv, LimitsAreReturned
  <2>13. SnapshotIsMempoolOfTip'
    BY <2>1, ResultKept DEF CollectionInv
  <2> QED
    BY <1>3, <2>8, <2>9, <2>10, <2>11, <2>12, <2>13 DEF CollectionInv
<1> QED
  BY <1>4, <1>5

\* The snapshot that is returned: the tip did not change from the first read to
\* the last, so it did not between them, when the mempool was read.
LEMMA SnapshotReturned ==
    ASSUME CollectionInv, col.pc = "end_tip", NEW a, a.tip = tip, col.tip = a.tip,
           result' = [kind |-> "snapshot", source |-> col.source,
                      tip |-> a.tip, started |-> col.started,
                      completed |-> clock, entries |-> col.wire.entries,
                      read |-> col.read, document |-> col.document]
    PROVE  SnapshotIsMempoolOfTip'
<1>1. /\ result'.read = col.read /\ result'.tip = tip
      /\ result'.entries = col.wire.entries
      /\ result'.document = col.document /\ result'.source = col.source
  BY Zenon
<1>2. col.read = tip
  <2>1. /\ NotAfter(col.tip, col.read) /\ NotAfter(col.read, tip)
        /\ col.tip.hash \in Nat /\ col.read.hash \in Nat /\ tip.hash \in Nat
    BY CollectionTyped DEF CollectionInv, TipsInOrder, CollectionTypeOK, Tips
  <2> QED
    BY <2>1 DEF NotAfter
<1>3. TxidsOf(col.wire.entries) = col.document /\ Strict(col.wire.entries)
  BY DEF CollectionInv, EntriesAreComplete
<1>4. Len(col.wire.entries) <= MaxEntries[col.source]
  BY DEF CollectionInv, EntriesFit
<1>5. /\ result'.read = result'.tip /\ TxidsOf(result'.entries) = result'.document
      /\ Strict(result'.entries)
      /\ Len(result'.entries) <= MaxEntries[result'.source]
  BY <1>1, <1>2, <1>3, <1>4
<1> HIDE DEF CollectionInv
<1> QED
  BY <1>5, Zenon DEF SnapshotIsMempoolOfTip, TxidsOf, Strict

LEMMA ReadEndTipStep == ASSUME CollectionInv, ReadEndTip PROVE CollectionInv'
<1>1. PICK a \in Answers("chain") :
          /\ Matches(a, nextId)
          /\ replay' = [replay EXCEPT !["chain"] = a]
          /\ \/ Fail("clock") \/ Fail("invalid") \/ Fail("unstable") \/ Fail("window")
             \/ /\ SameTip(col.tip, a.tip) /\ WindowValid(col.started, clock)
                /\ result' = [kind |-> "snapshot", source |-> col.source,
                              tip |-> a.tip, started |-> col.started,
                              completed |-> clock, entries |-> col.wire.entries,
                              read |-> col.read, document |-> col.document]
                /\ limit' = [limit EXCEPT ![col.thread] = MaxSupported]
                /\ col' = Idle
  BY Zenon DEF ReadEndTip
<1>2. col.pc = "end_tip" /\ Sent /\ UNCHANGED nodeVars
  BY DEF ReadEndTip
<1>3. a.tip = tip
  BY <1>1, AnswerIsCurrent
<1>4. /\ nextId' \in Nat \ {0}
      /\ replay' \in [{"chain", "raw"} -> Sendable] /\ AnswersAreOld'
  BY <1>1, <1>2, AnswerIsKept
<1>5. CASE Fail("clock") \/ Fail("invalid") \/ Fail("unstable") \/ Fail("window")
  BY <1>2, <1>4, <1>5, FailStep
<1>6. CASE /\ SameTip(col.tip, a.tip) /\ WindowValid(col.started, clock)
           /\ result' = [kind |-> "snapshot", source |-> col.source,
                         tip |-> a.tip, started |-> col.started,
                         completed |-> clock, entries |-> col.wire.entries,
                         read |-> col.read, document |-> col.document]
           /\ limit' = [limit EXCEPT ![col.thread] = MaxSupported]
           /\ col' = Idle
  <2>1. SnapshotIsMempoolOfTip'
    BY <1>2, <1>3, <1>6, SnapshotReturned DEF SameTip
  <2>2. col'.pc = "idle" /\ col' \in Underway
    BY <1>6, IdleTyped DEF Idle
  <2>3. limit' \in [Threads -> Nat]
    BY <1>6, LimitTyped DEF CollectionInv, CollectionTypeOK
  <2>4. CollectionTypeOK'
    BY <1>2, <1>4, <2>2, <2>3 DEF CollectionInv, CollectionTypeOK, nodeVars
  <2>5. TipsInOrder' /\ EntriesFit' /\ EntriesAreComplete'
    BY <2>2 DEF TipsInOrder, EntriesFit, EntriesAreComplete
  <2>6. LimitsAreReturned'
    <3> SUFFICES ASSUME NEW t \in Threads PROVE limit'[t] = MaxSupported
      BY DEF LimitsAreReturned
    <3>1. CASE t = col.thread
      BY <1>6, <3>1 DEF CollectionInv, CollectionTypeOK
    <3>2. CASE t # col.thread
      <4>1. limit'[t] = limit[t]
        BY <1>6, <3>2 DEF CollectionInv, CollectionTypeOK
      <4> QED
        BY <3>2, <4>1 DEF CollectionInv, LimitsAreReturned
    <3> QED
      BY <3>1, <3>2
  <2> QED
    BY <1>4, <2>1, <2>4, <2>5, <2>6 DEF CollectionInv
<1> QED
  BY <1>1, <1>5, <1>6

LEMMA EndedStep == ASSUME CollectionInv, CallFails \/ TaskLost PROVE CollectionInv'
<1>1. /\ col.pc # "idle" /\ UNCHANGED nodeVars /\ UNCHANGED replay
      /\ nextId' = nextId \/ Sent
      /\ Fail("unavailable") \/ Fail("worker")
  BY DEF CallFails, TaskLost
<1>2. /\ nextId' \in Nat \ {0}
      /\ replay' \in [{"chain", "raw"} -> Sendable] /\ AnswersAreOld'
  BY <1>1, RequestIsCounted
<1> QED
  BY <1>1, <1>2, FailStep

LEMMA NodeStep ==
    ASSUME CollectionInv, NewTip \/ ChangePool \/ MoveClock
    PROVE  CollectionInv'
<1>1. tip \in Tips /\ pool \in SUBSET Txs /\ clock \in Nat
  BY DEF CollectionInv, CollectionTypeOK
<1>2. CASE NewTip
  <2>1. UNCHANGED <<clock, nextId, limit, col, result, replay>> /\ pool' \in SUBSET Txs
    BY <1>2 DEF NewTip
  <2>2. PICK h \in {tip.height, tip.height + 1} :
            tip' = [height |-> h, hash |-> tip.hash + 1]
    BY <1>2 DEF NewTip
  <2>3. tip' \in Tips /\ tip'.hash = tip.hash + 1
    BY <1>1, <2>2 DEF Tips
  <2> QED
    BY <1>1, <2>1, <2>3, EnvironmentStep
<1>3. CASE ChangePool
  <2>1. UNCHANGED <<tip, clock, nextId, limit, col, result, replay>>
    BY <1>3 DEF ChangePool
  <2>2. pool' \in SUBSET Txs
    BY <1>1, <1>3 DEF ChangePool
  <2> QED
    BY <1>1, <2>1, <2>2, EnvironmentStep
<1>4. CASE MoveClock
  <2>1. UNCHANGED <<tip, pool, nextId, limit, col, result, replay>> /\ clock' \in Nat
    BY <1>4 DEF MoveClock
  <2> QED
    BY <1>1, <2>1, EnvironmentStep
<1> QED
  BY <1>2, <1>3, <1>4

-----------------------------------------------------------------------------
(* The theorems *)

\* The inductive invariant of a collection.
THEOREM CollectionInvariant == Spec => []CollectionInv
<1>1. CollectionInv /\ [Next]_vars => CollectionInv'
  <2> SUFFICES ASSUME CollectionInv, [Next]_vars PROVE CollectionInv'
    OBVIOUS
  <2>1. CASE UNCHANGED vars
    <3>1. /\ UNCHANGED <<nextId, limit, col, result, replay>>
          /\ UNCHANGED <<tip, pool, clock>>
      BY <2>1 DEF vars, nodeVars
    <3>2. tip \in Tips /\ pool \in SUBSET Txs /\ clock \in Nat
      BY DEF CollectionInv, CollectionTypeOK
    <3> QED
      BY <3>1, <3>2, EnvironmentStep
  <2>2. CASE Begin
    BY <2>2, BeginStep
  <2>3. CASE ReadStartTip
    BY <2>3, ReadStartTipStep
  <2>4. CASE ReadSize
    BY <2>4, ReadSizeStep
  <2>5. CASE ReadMempool
    BY <2>5, ReadMempoolStep
  <2>6. CASE TakeEntries
    BY <2>6, TakeEntriesStep
  <2>7. CASE ReadEndTip
    BY <2>7, ReadEndTipStep
  <2>8. CASE CallFails \/ TaskLost
    BY <2>8, EndedStep
  <2>9. CASE NewTip \/ ChangePool \/ MoveClock
    BY <2>9, NodeStep
  <2> QED
    BY <2>1, <2>2, <2>3, <2>4, <2>5, <2>6, <2>7, <2>8, <2>9 DEF Next, Advance, Done
<1> QED
  BY <1>1, CollectionInitially, PTL DEF Spec

\* An accepted snapshot is the mempool the node had under the tip the snapshot is
\* bound to: all of it, sorted, nothing twice, within the limit of the source;
\* get_mempool_snapshot compares only the tips it read before and after.
THEOREM CollectedIsMempoolOfTip == Spec => []SnapshotIsMempoolOfTip
<1>1. CollectionInv => SnapshotIsMempoolOfTip
  BY DEF CollectionInv
<1> QED
  BY <1>1, CollectionInvariant, PTL

\* The decoder of getrawmempool keeps at most the entries of its source's limit,
\* and DecodeEntryLimitGuard leaves no limit behind on a blocking thread.
THEOREM CollectionWithinLimit == Spec => []DecoderWithinLimit
<1>1. CollectionInv => DecoderWithinLimit
  BY DEF CollectionInv, EntriesFit, LimitsAreReturned, DecoderWithinLimit
<1> QED
  BY <1>1, CollectionInvariant, PTL

\* The kind that a collection which fails is refused with.
LEMMA KindOfFailure ==
    ASSUME NEW kind, Fail(kind), NEW k, Refused(k)
    PROVE  k = kind
BY DEF Fail, Refused

\* At the end of a collection the tip differs from the first that was read only if
\* the node has left the one it had at the beginning.
LEMMA UnstableForCause ==
    ASSUME CollectionInv, col.pc = "end_tip", col.tip # tip
    PROVE  tip # col.began
<1>1. /\ NotAfter(col.began, col.tip) /\ NotAfter(col.tip, tip)
      /\ col.began.hash \in Nat /\ col.tip.hash \in Nat /\ tip.hash \in Nat
  BY CollectionTyped DEF CollectionInv, TipsInOrder, CollectionTypeOK, Tips
<1> QED
  BY <1>1 DEF NotAfter

CauseStep ==
    /\ Refused("unstable") => tip # col.began
    /\ Refused("window") => clock < col.started
    /\ Refused("limit") =>
          MaxEntries[col.source] <
            (IF col.pc = "size" THEN Cardinality(pool) ELSE col.listed)

LEMMA NotRefusedOtherwise ==
    ASSUME NEW kind \in {"unavailable", "worker", "invalid", "clock"}, Fail(kind)
    PROVE  CauseStep
<1>1. /\ kind # "unstable" /\ kind # "window" /\ kind # "limit"
  OBVIOUS
<1> QED
  BY <1>1, KindOfFailure DEF CauseStep

LEMMA SizeCause == ASSUME CollectionInv, ReadSize PROVE CauseStep
<1>1. /\ col.pc = "size"
      /\ \/ Cardinality(pool) > MaxEntries[col.source] /\ Fail("limit")
         \/ col'.pc = "raw"
         \/ Fail("invalid")
  BY DEF ReadSize, CollectionInv, CollectionTypeOK, Underway
<1>2. CASE Cardinality(pool) > MaxEntries[col.source] /\ Fail("limit")
  <2>1. ~ Refused("unstable") /\ ~ Refused("window")
    BY <1>2, KindOfFailure
  <2>2. pool \in SUBSET Txs /\ col.source \in Sources
    BY <1>1 DEF CollectionInv, CollectionTypeOK, EntriesFit
  <2>3. Cardinality(pool) \in Nat /\ MaxEntries[col.source] \in Nat
    BY <2>2, LimitTyped, FS_Subset, FS_CardinalityType, MembershipCollectionAssumption
  <2> QED
    BY <1>1, <1>2, <2>1, <2>3 DEF CauseStep
<1>3. CASE col'.pc = "raw"
  BY <1>3 DEF CauseStep, Refused
<1>4. CASE Fail("invalid")
  BY <1>4, NotRefusedOtherwise
<1> QED
  BY <1>1, <1>2, <1>3, <1>4

LEMMA EntriesCause == ASSUME CollectionInv, TakeEntries PROVE CauseStep
<1> DEFINE most == MaxEntries[col.source]
           error == IF col.wire.error # "none" THEN col.wire.error
                    ELSE EntriesError(col.wire.entries, most)
<1>1. col.pc = "entries" /\ Len(col.wire.entries) <= most
  BY DEF TakeEntries, CollectionInv, EntriesFit
<1>2. \/ error # "none" /\ Fail(error)
      \/ col'.pc = "end_tip"
  BY DEF TakeEntries, CollectionInv, CollectionTypeOK, Underway
<1>3. CASE error # "none" /\ Fail(error)
  <2>1. error \in Errors
    BY CollectionTyped DEF CollectionInv, EntriesError, Errors
  <2>2. error = "limit" => most < col.listed
    <3>1. /\ col.wire.entries \in Seq(Entries) /\ most \in Nat
      BY <1>1, CollectionTyped, LimitTyped DEF CollectionInv, EntriesFit
    <3>2. ~ (Len(col.wire.entries) > most)
      BY <1>1, <3>1, LenProperties
    <3>3. EntriesError(col.wire.entries, most) # "limit"
      BY <3>2 DEF EntriesError
    <3> QED
      BY <1>1, <3>3 DEF CollectionInv, EntriesAreComplete
  <2> HIDE DEF error
  <2>3. ~ Refused("unstable") /\ ~ Refused("window")
        /\ (Refused("limit") => error = "limit")
    BY <1>3, <2>1, KindOfFailure DEF Errors
  <2> QED
    BY <1>1, <2>2, <2>3 DEF CauseStep
<1>4. CASE col'.pc = "end_tip"
  BY <1>4 DEF CauseStep, Refused
<1> QED
  BY <1>2, <1>3, <1>4

LEMMA EndTipCause == ASSUME CollectionInv, ReadEndTip PROVE CauseStep
<1>1. PICK a \in Answers("chain") :
          /\ Matches(a, nextId)
          /\ \/ Fail("clock") \/ Fail("invalid")
             \/ col.tip # a.tip /\ Fail("unstable")
             \/ ~ WindowValid(col.started, clock) /\ Fail("window")
             \/ result' = [kind |-> "snapshot", source |-> col.source,
                           tip |-> a.tip, started |-> col.started,
                           completed |-> clock, entries |-> col.wire.entries,
                           read |-> col.read, document |-> col.document]
  BY Zenon DEF ReadEndTip, SameTip
<1>2. col.pc = "end_tip" /\ a.tip = tip
  BY <1>1, AnswerIsCurrent DEF ReadEndTip
<1>3. CASE Fail("clock") \/ Fail("invalid")
  BY <1>3, NotRefusedOtherwise
<1>4. CASE col.tip # a.tip /\ Fail("unstable")
  <2>1. ~ Refused("limit") /\ ~ Refused("window") /\ tip # col.began
    BY <1>2, <1>4, KindOfFailure, UnstableForCause
  <2> QED
    BY <2>1 DEF CauseStep
<1>5. CASE ~ WindowValid(col.started, clock) /\ Fail("window")
  <2>1. ~ Refused("limit") /\ ~ Refused("unstable")
    BY <1>5, KindOfFailure
  <2>2. clock < col.started
    BY <1>5, CollectionTyped DEF WindowValid, CollectionInv, CollectionTypeOK
  <2> QED
    BY <2>1, <2>2 DEF CauseStep
<1>6. CASE result' = [kind |-> "snapshot", source |-> col.source,
                      tip |-> a.tip, started |-> col.started,
                      completed |-> clock, entries |-> col.wire.entries,
                      read |-> col.read, document |-> col.document]
  <2>1. result'.kind = "snapshot"
    BY <1>6, Zenon
  <2> QED
    BY <2>1 DEF CauseStep, Refused
<1> QED
  BY <1>1, <1>3, <1>4, <1>5, <1>6

\* A collection is refused as unstable, as too large or for its window only if the
\* node changed its tip, the node had more than the source allows, or the clock was
\* set back during this collection: no answer to an earlier request and no limit
\* of another collection makes get_mempool_snapshot refuse a node at rest.
THEOREM CollectionRefusedForCause == Spec => RefusedForCause
<1>1. CollectionInv /\ [Next]_vars => [CauseStep]_vars
  <2> SUFFICES ASSUME CollectionInv, Next PROVE CauseStep
    OBVIOUS
  <2>1. CASE Begin
    <3>1. ~ Refused("unstable") /\ ~ Refused("window") /\ ~ Refused("limit")
      BY <2>1 DEF Begin, Refused
    <3> QED
      BY <3>1 DEF CauseStep
  <2>2. CASE ReadStartTip
    <3>1. Fail("invalid") \/ col'.pc = "size"
      BY <2>2 DEF ReadStartTip, CollectionInv, CollectionTypeOK, Underway
    <3> QED
      BY <3>1, NotRefusedOtherwise DEF CauseStep, Refused
  <2>3. CASE ReadSize
    BY <2>3, SizeCause
  <2>4. CASE ReadMempool
    <3>1. col'.pc = "entries"
      BY <2>4, Zenon DEF ReadMempool, CollectionInv, CollectionTypeOK, Underway
    <3> QED
      BY <3>1 DEF CauseStep, Refused
  <2>5. CASE TakeEntries
    BY <2>5, EntriesCause
  <2>6. CASE ReadEndTip
    BY <2>6, EndTipCause
  <2>7. CASE CallFails \/ TaskLost
    BY <2>7, NotRefusedOtherwise DEF CallFails, TaskLost
  <2>8. CASE NewTip \/ ChangePool \/ MoveClock \/ Done
    <3>1. col' = col
      BY <2>8 DEF NewTip, ChangePool, MoveClock, Done, vars
    <3> QED
      BY <3>1 DEF CauseStep, Refused
  <2> QED
    BY <2>1, <2>2, <2>3, <2>4, <2>5, <2>6, <2>7, <2>8 DEF Next, Advance
<1>2. Spec => [][CauseStep]_vars
  BY <1>1, CollectionInvariant, PTL DEF Spec
<1> QED
  BY <1>2 DEF RefusedForCause, CauseStep
=============================================================================
