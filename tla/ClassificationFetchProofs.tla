---------------------- MODULE ClassificationFetchProofs ----------------------
(***************************************************************************)
(* Proofs about ClassificationFetch, for every set of waves, every number  *)
(* of lanes, every batch size and every size of the id counter: what a     *)
(* request comes to is what the node said about its key, the ids of a      *)
(* batch are its own, and a wave accounts for every key.                   *)
(***************************************************************************)
EXTENDS ClassificationFetch, FiniteSetTheorems, SequenceTheorems, WellFoundedInduction,
        TLAPS

-----------------------------------------------------------------------------
(* The inductive invariant *)

KeysIn(s) == {s[i] : i \in DOMAIN s}
Distinct(s) == \A i, j \in DOMAIN s : s[i] = s[j] => i = j

RpcValues == [kind : {"found", "null", "retry", "systemic"}, data : Keys \cup {Garbage}]

Tasks ==
    [keys : Seq(Keys), start : Nat, done : BOOLEAN, failed : BOOLEAN,
     values : SUBSET (Keys \X RpcValues), stop : BOOLEAN]

FetchTypeOK ==
    /\ nextId \in 1..MaxId
    /\ wave \in Waves \cup {NoWave}
    /\ current \in BOOLEAN /\ stopped \in BOOLEAN /\ failed \in BOOLEAN
    /\ remaining \in Seq(Keys)
    /\ toSpawn \in Nat
    /\ tasks \in SUBSET Tasks
    /\ values \in SUBSET (Keys \X RpcValues)
    /\ asked \in [1..(nextId - 1) -> Keys]
    /\ waves \in Nat

\* Between waves nothing is left.
IdleIsEmpty ==
    ~ Fetching =>
        remaining = <<>> /\ tasks = {} /\ toSpawn = 0 /\ values = {} /\ ~ failed

\* No key is in two places: what remains, a batch, or what was collected.
KeysOf(found) == {kv[1] : kv \in found}
KeysApart ==
    /\ Distinct(remaining)
    /\ KeysIn(remaining) \cap KeysOf(values) = {}
    /\ \A t \in tasks :
          /\ t.keys # <<>> /\ Distinct(t.keys)
          /\ KeysIn(t.keys) \cap KeysIn(remaining) = {}
          /\ KeysIn(t.keys) \cap KeysOf(values) = {}
          /\ \A u \in tasks : u # t => KeysIn(t.keys) \cap KeysIn(u.keys) = {}

\* The ids a batch has reserved were counted, and are recorded as its own.
OwnsIds(t, next, given) ==
    t.start # 0 =>
        /\ t.start + Len(t.keys) <= next
        /\ \A i \in DOMAIN t.keys : given[t.start + i - 1] = t.keys[i]
IdsAreOwned == \A t \in tasks : OwnsIds(t, nextId, asked)

\* What was found of a key is true of it, and is found once.
TrueOf(kv) ==
    /\ kv[2].kind = "found" => kv[2].data = kv[1] /\ kv[1] \in Existing
    /\ kv[2].kind = "null" => kv[1] \notin Existing
Single(found) == \A kv, other \in found : kv[1] = other[1] => kv = other
FoundTrue(found) == Single(found) /\ \A kv \in found : TrueOf(kv)
FoundIsTrue == FoundTrue(values) /\ \A t \in tasks : FoundTrue(t.values)

\* A task that has a response has a value for each of its keys; one that failed
\* or is not done has none.  It asks to stop when a value is a systemic failure.
Answers(t) ==
    /\ t.failed => t.done
    /\ t.done /\ ~ t.failed => KeysOf(t.values) = KeysIn(t.keys)
    /\ ~ t.done \/ t.failed => t.values = {} /\ ~ t.stop
    /\ t.stop => \E kv \in t.values : kv[2] = SystemicFailure
    /\ \A kv \in t.values : kv[2] = SystemicFailure => t.stop
TasksAnswer == \A t \in tasks : Answers(t)

LanesHeld ==
    /\ IsFiniteSet(tasks)
    /\ Fetching => Cardinality(tasks) + toSpawn <= Lanes[wave.method]

\* Unless something failed, every key of the wave is in one of the three places,
\* and no value is a systemic failure.
NothingMissing ==
    Fetching /\ ~ failed =>
        /\ \A i \in DOMAIN wave.keys :
              \/ wave.keys[i] \in KeysIn(remaining)
              \/ \E t \in tasks : wave.keys[i] \in KeysIn(t.keys)
              \/ wave.keys[i] \in KeysOf(values)
        /\ \A kv \in values : kv[2] # SystemicFailure

\* The keys are those of the wave.
KeysOfWave ==
    Fetching =>
        /\ KeysIn(remaining) \subseteq KeysIn(wave.keys)
        /\ \A t \in tasks : KeysIn(t.keys) \subseteq KeysIn(wave.keys)

\* If something failed, some key is settled without a value that is good.
Spoilt(key) ==
    /\ key \notin KeysIn(remaining)
    /\ \A t \in tasks : key \notin KeysIn(t.keys)
    /\ \A kv \in values : kv[1] = key => kv[2] = SystemicFailure
FailureHasKey ==
    failed => \E i \in DOMAIN wave.keys : Spoilt(wave.keys[i])

\* A wave goes on while it can.
LanesGoOn ==
    /\ stopped = failed
    /\ Fetching /\ toSpawn = 0 /\ current /\ ~ failed /\ remaining # <<>> => tasks # {}

FetchInv ==
    /\ FetchTypeOK
    /\ IdleIsEmpty
    /\ KeysApart
    /\ IdsAreOwned
    /\ FoundIsTrue
    /\ TasksAnswer
    /\ LanesHeld
    /\ NothingMissing
    /\ KeysOfWave
    /\ FailureHasKey
    /\ LanesGoOn

-----------------------------------------------------------------------------
(* Cutting a wave into batches *)

\* A set of natural numbers that is not empty has a least element.
LEMMA LeastNumber ==
    ASSUME NEW T, T \subseteq Nat, T # {}
    PROVE  \E x \in T : \A y \in T : x <= y
<1>1. PICK x \in T : \A y \in T : ~ (<<y, x>> \in OpToRel(<, Nat))
  BY NatLessThanWellFounded, WFMin
<1>2. \A y \in T : ~ (y < x)
  BY <1>1 DEF OpToRel
<1> QED
  BY <1>2

\* There is a longest prefix that fits, so the next batch is not empty.
LEMMA BatchLength ==
    ASSUME NEW method \in Methods, NEW keys \in Seq(Keys), keys # <<>>
    PROVE  NextBatchLength(method, keys) \in 1..Len(keys)
<1> DEFINE fits(n) == FitsBatch(method, SubSeq(keys, 1, n))
           T == {n \in 1..Len(keys) : n < Len(keys) => ~ fits(n + 1)}
<1>1. Len(keys) \in Nat /\ Len(keys) >= 1
  BY LenProperties, EmptySeq
<1>2. Len(keys) \in T /\ T \subseteq Nat
  BY <1>1
<1>3. PICK m \in T : \A n \in T : m <= n
  BY <1>2, LeastNumber
<1>4. BatchSize[method] \in Nat \ {0}
  BY ClassificationFetchAssumption
<1>5. Len(SubSeq(keys, 1, 1)) = 1
  <2>1. \A i \in 1..1 : keys[i] \in Keys
    BY <1>1, ElementOfSeq
  <2> QED
    BY <2>1, SubSeqProperties
<1>6. fits(1)
  BY <1>4, <1>5 DEF FitsBatch
<1>7. fits(m)
  <2>1. CASE m = 1
    BY <1>6, <2>1
  <2>2. CASE m # 1
    <3> HIDE DEF fits, T
    <3>0. m \in 1..Len(keys)
      BY <1>3 DEF T
    <3>1. m - 1 \in 1..Len(keys) /\ m - 1 \notin T /\ m - 1 < Len(keys)
      BY <1>1, <1>3, <2>2, <3>0
    <3>2. fits((m - 1) + 1)
      BY <3>1 DEF T
    <3>3. (m - 1) + 1 = m
      BY <3>0
    <3> QED
      BY <3>2, <3>3
  <2> QED
    BY <2>1, <2>2
<1>8. m \in 1..Len(keys) /\ (m < Len(keys) => ~ fits(m + 1))
  BY <1>3
<1>9. \E n \in 1..Len(keys) :
        /\ FitsBatch(method, SubSeq(keys, 1, n))
        /\ n < Len(keys) => ~ FitsBatch(method, SubSeq(keys, 1, n + 1))
  BY <1>7, <1>8
<1> QED
  BY <1>9 DEF NextBatchLength

\* b holds the first n keys and r the others.
CutsAt(n, keys, b, r) ==
    /\ b \in Seq(Keys) /\ Len(b) = n /\ \A i \in 1..n : b[i] = keys[i]
    /\ r \in Seq(Keys) /\ Len(r) = Len(keys) - n
    /\ \A i \in 1..(Len(keys) - n) : r[i] = keys[n + i]

\* The keys of a prefix and of the rest.
LEMMA PrefixAndRest ==
    ASSUME NEW keys \in Seq(Keys), NEW n \in 1..Len(keys)
    PROVE  CutsAt(n, keys, SubSeq(keys, 1, n), SubSeq(keys, n + 1, Len(keys)))
<1>1. /\ Len(keys) \in Nat /\ DOMAIN keys = 1..Len(keys)
      /\ \A i \in 1..Len(keys) : keys[i] \in Keys
  BY LenProperties, ElementOfSeq
<1> DEFINE b == SubSeq(keys, 1, n)
           r == SubSeq(keys, n + 1, Len(keys))
           N == Len(keys)
<1>2. n \in Int /\ n + 1 \in Int /\ N \in Int /\ n <= N
  BY <1>1
<1>3. /\ b \in Seq(Keys) /\ Len(b) = IF 1 <= n THEN n - 1 + 1 ELSE 0
      /\ \A i \in 1..(n - 1 + 1) : b[i] = keys[1 + i - 1]
  <2>1. \A i \in 1..n : keys[i] \in Keys
    BY <1>1, <1>2
  <2>2. 1 \in Int
    OBVIOUS
  <2> QED
    BY <1>2, <2>1, <2>2, SubSeqProperties
<1>4. \A i \in (n + 1)..N : keys[i] \in Keys
  BY <1>1
<1>5. /\ r \in Seq(Keys)
      /\ Len(r) = IF n + 1 <= N THEN N - (n + 1) + 1 ELSE 0
      /\ \A i \in 1..(N - (n + 1) + 1) : r[i] = keys[n + 1 + i - 1]
  BY <1>2, <1>4, SubSeqProperties
<1> HIDE DEF b, r
<1>6. Len(b) = n /\ \A i \in 1..n : b[i] = keys[i]
  BY <1>1, <1>3
<1>7. Len(r) = N - n
  <2>1. CASE n + 1 <= N
    BY <1>2, <1>5, <2>1
  <2>2. CASE ~ (n + 1 <= N)
    <3>1. n = N
      BY <1>2, <2>2
    <3> QED
      BY <1>2, <1>5, <2>2, <3>1
  <2> QED
    BY <2>1, <2>2
<1>8. \A i \in 1..(N - n) : r[i] = keys[n + i]
  <2> SUFFICES ASSUME NEW i \in 1..(N - n) PROVE r[i] = keys[n + i]
    OBVIOUS
  <2>1. i \in 1..(N - (n + 1) + 1) /\ n + 1 + i - 1 = n + i
    BY <1>2
  <2> QED
    BY <1>5, <2>1
<1> QED
  BY <1>3, <1>5, <1>6, <1>7, <1>8 DEF b, r, CutsAt

\* A prefix and the rest hold every key once between them.
LEMMA Cut ==
    ASSUME NEW keys \in Seq(Keys), Distinct(keys), NEW n \in 1..Len(keys),
           NEW b, NEW r, CutsAt(n, keys, b, r)
    PROVE  /\ b # <<>> /\ Distinct(b) /\ Distinct(r)
           /\ KeysIn(b) \cap KeysIn(r) = {}
           /\ KeysIn(b) \cup KeysIn(r) = KeysIn(keys)
<1>1. /\ Len(keys) \in Nat /\ DOMAIN keys = 1..Len(keys)
      /\ n \in Int /\ 1 <= n /\ n <= Len(keys)
  BY LenProperties
<1>2. \A i \in 1..n : b[i] = keys[i]
  BY DEF CutsAt
<1>3. \A i \in 1..(Len(keys) - n) : r[i] = keys[n + i]
  BY DEF CutsAt
<1>4. DOMAIN b = 1..n /\ DOMAIN r = 1..(Len(keys) - n)
  BY LenProperties DEF CutsAt
<1>5. b # <<>>
  BY <1>1, EmptySeq DEF CutsAt
<1>6. Distinct(b)
  BY <1>1, <1>2, <1>4 DEF Distinct
<1>7. Distinct(r)
  <2> SUFFICES ASSUME NEW i \in DOMAIN r, NEW j \in DOMAIN r, r[i] = r[j] PROVE i = j
    BY DEF Distinct
  <2>1. n + i \in DOMAIN keys /\ n + j \in DOMAIN keys /\ keys[n + i] = keys[n + j]
    <3>1. r[i] = keys[n + i] /\ r[j] = keys[n + j]
      BY <1>3, <1>4
    <3>2. n + i \in 1..Len(keys) /\ n + j \in 1..Len(keys)
      BY <1>1, <1>4
    <3> QED
      BY <1>1, <3>1, <3>2
  <2>2. n + i = n + j
    BY <2>1 DEF Distinct
  <2> QED
    BY <1>1, <1>4, <2>2
<1>8. KeysIn(b) \cap KeysIn(r) = {}
  <2> SUFFICES ASSUME NEW i \in DOMAIN b, NEW j \in DOMAIN r, b[i] = r[j] PROVE FALSE
    BY DEF KeysIn
  <2>1. i \in DOMAIN keys /\ n + j \in DOMAIN keys /\ keys[i] = keys[n + j]
    BY <1>1, <1>2, <1>3, <1>4
  <2>2. i = n + j
    BY <2>1 DEF Distinct
  <2> QED
    BY <1>1, <1>4, <2>2
<1>9. KeysIn(b) \cup KeysIn(r) = KeysIn(keys)
  <2>1. ASSUME NEW i \in DOMAIN keys
        PROVE  keys[i] \in KeysIn(b) \cup KeysIn(r)
    <3>1. CASE i <= n
      BY <1>1, <1>2, <1>4, <3>1 DEF KeysIn
    <3>2. CASE i > n
      <4>1. i - n \in DOMAIN r /\ r[i - n] = keys[n + (i - n)]
        BY <1>1, <1>3, <1>4, <3>2
      <4>2. n + (i - n) = i
        BY <1>1
      <4> QED
        BY <4>1, <4>2 DEF KeysIn
    <3> QED
      BY <1>1, <3>1, <3>2
  <2>2. \A i \in DOMAIN b : b[i] \in KeysIn(keys)
    BY <1>1, <1>2, <1>4 DEF KeysIn
  <2>3. \A i \in DOMAIN r : r[i] \in KeysIn(keys)
    <3> SUFFICES ASSUME NEW i \in DOMAIN r PROVE r[i] \in KeysIn(keys)
      OBVIOUS
    <3>1. r[i] = keys[n + i]
      BY <1>3, <1>4
    <3>2. n + i \in DOMAIN keys
      BY <1>1, <1>4
    <3> QED
      BY <3>1, <3>2 DEF KeysIn
  <2> QED
    BY <2>1, <2>2, <2>3 DEF KeysIn
<1> QED
  BY <1>5, <1>6, <1>7, <1>8, <1>9

\* The same of the batch a lane takes.
LEMMA TakenBatch ==
    ASSUME NEW method \in Methods, NEW keys \in Seq(Keys), keys # <<>>, Distinct(keys),
           NEW t, t = NewTask(method, keys), NEW r, r = Rest(method, keys)
    PROVE  /\ t \in Tasks /\ t.keys # <<>> /\ Distinct(t.keys)
           /\ t.start = 0 /\ ~ t.done /\ ~ t.failed /\ t.values = {} /\ ~ t.stop
           /\ r \in Seq(Keys) /\ Distinct(r)
           /\ KeysIn(t.keys) \cap KeysIn(r) = {}
           /\ KeysIn(t.keys) \cup KeysIn(r) = KeysIn(keys)
<1> DEFINE n == NextBatchLength(method, keys)
           b == SubSeq(keys, 1, n)
<1>1. n \in 1..Len(keys)
  BY BatchLength
<1>2. r = SubSeq(keys, n + 1, Len(keys))
  BY DEF Rest
<1>3. t = [keys |-> b, start |-> 0, done |-> FALSE, failed |-> FALSE, values |-> {},
           stop |-> FALSE]
  BY DEF NewTask
<1> HIDE DEF n
<1>4. CutsAt(n, keys, b, r)
  BY <1>1, <1>2, PrefixAndRest
<1> HIDE DEF b
<1>5. /\ b # <<>> /\ Distinct(b) /\ Distinct(r)
      /\ KeysIn(b) \cap KeysIn(r) = {}
      /\ KeysIn(b) \cup KeysIn(r) = KeysIn(keys)
  BY <1>1, <1>4, Cut
<1>6. t.keys = b /\ t.start = 0 /\ t.values = {}
  BY <1>3
<1>7. ~ t.done /\ ~ t.failed /\ ~ t.stop
  BY <1>3
<1>8. t \in Tasks
  <2>1. 0 \in Nat /\ {} \in SUBSET (Keys \X RpcValues) /\ FALSE \in BOOLEAN
    OBVIOUS
  <2> QED
    BY <1>3, <1>4, <2>1 DEF Tasks, CutsAt
<1> QED
  BY <1>4, <1>5, <1>6, <1>7, <1>8, Zenon DEF CutsAt

-----------------------------------------------------------------------------
(* Answers *)

\* What is true of an answer of the node about a key.
TrueAnswer(a, key) ==
    /\ a.data \in Existing \cup {Garbage}
    /\ wave.method = "gettxout" => (a.data # Garbage => a.data = key)
    /\ wave.method = "gettxout" /\ a.result = "null" => key \notin Existing

\* The node speaks the truth about a key, under the id it was asked with.
LEMMA NodeAnswers ==
    ASSUME NEW id, NEW key \in Keys, NEW a \in AnswersAbout(id, key)
    PROVE  a.id = id /\ TrueAnswer(a, key)
<1> DEFINE failures == {Answer(id, TRUE, e, "missing", Garbage) :
                           e \in {"systemic", "other", "garbage"}}
           empty == {Answer(id, TRUE, "missing", "missing", Garbage),
                     Answer(id, TRUE, "missing", "value", Garbage)}
           known == {Answer(id, p[1], p[2], "value", key) :
                       p \in BOOLEAN \X {"missing", "null"}}
           unknown == {Answer(id, TRUE, "missing", "null", Garbage)}
           others == {Answer(id, TRUE, "missing", "value", k) : k \in Existing}
<1>1. \/ a \in failures \/ a \in empty
      \/ key \in Existing /\ a \in known
      \/ key \notin Existing /\ a \in unknown
      \/ wave.method = "getrawtransaction" /\ a \in others
  BY Zenon DEF AnswersAbout
<1> HIDE DEF failures, empty, known, unknown, others
<1>2. CASE a \in failures
  <2>1. a.id = id /\ a.data = Garbage /\ a.result = "missing"
    BY <1>2 DEF Answer, failures
  <2> QED
    BY <2>1 DEF TrueAnswer
<1>3. CASE a \in empty
  <2>1. a.id = id /\ a.data = Garbage /\ a.result # "null"
    BY <1>3 DEF Answer, empty
  <2> QED
    BY <2>1 DEF TrueAnswer
<1>4. CASE key \in Existing /\ a \in known
  <2>1. a.id = id /\ a.data = key /\ a.result = "value"
    BY <1>4 DEF Answer, known
  <2> QED
    BY <1>4, <2>1 DEF TrueAnswer
<1>5. CASE key \notin Existing /\ a \in unknown
  <2>1. a.id = id /\ a.data = Garbage
    BY <1>5 DEF Answer, unknown
  <2> QED
    BY <1>5, <2>1 DEF TrueAnswer
<1>6. CASE wave.method = "getrawtransaction" /\ a \in others
  <2>1. a.id = id /\ a.data \in Existing /\ a.result = "value"
    BY <1>6 DEF Answer, others
  <2> QED
    BY <1>6, <2>1 DEF TrueAnswer
<1> QED
  BY <1>1, <1>2, <1>3, <1>4, <1>5, <1>6

\* What a true answer comes to is true of the key.
LEMMA TrueValue ==
    ASSUME NEW key \in Keys, NEW a, TrueAnswer(a, key), wave.method \in Methods,
           NEW v, v = IF wave.method = "getrawtransaction" THEN RawValue(key, a)
                      ELSE ConfirmedValue(a)
    PROVE  v \in RpcValues /\ TrueOf(<<key, v>>)
<1>1. /\ RetryableFailure \in RpcValues /\ SystemicFailure \in RpcValues
      /\ ExplicitNull \in RpcValues /\ \A d \in Keys : Found(d) \in RpcValues
  BY DEF RpcValues, RetryableFailure, SystemicFailure, ExplicitNull, Found
<1>2. /\ RetryableFailure.kind = "retry" /\ SystemicFailure.kind = "systemic"
      /\ ExplicitNull.kind = "null"
      /\ \A d \in Keys : Found(d).kind = "found" /\ Found(d).data = d
  BY DEF RetryableFailure, SystemicFailure, ExplicitNull, Found
<1>3. Existing \subseteq Keys /\ Garbage \notin Keys
  BY ClassificationFetchAssumption
<1>4. CASE v \in {RetryableFailure, SystemicFailure}
  BY <1>1, <1>2, <1>4 DEF TrueOf
<1>5. CASE wave.method = "getrawtransaction" /\ v \notin {RetryableFailure, SystemicFailure}
  <2>1. v = Found(key) /\ a.data = key
    BY <1>5 DEF RawValue
  <2>2. key \in Existing
    BY <1>3, <2>1 DEF TrueAnswer
  <2> QED
    BY <1>1, <1>2, <2>1, <2>2 DEF TrueOf
<1>6. CASE wave.method = "gettxout" /\ v = ExplicitNull /\ Outcome(a) = "null"
  <2>1. a.result = "null"
    BY <1>6 DEF Outcome
  <2>2. key \notin Existing
    BY <1>6, <2>1 DEF TrueAnswer
  <2> QED
    BY <1>1, <1>2, <1>6, <2>2 DEF TrueOf
<1>7. CASE wave.method = "gettxout" /\ v = Found(a.data) /\ a.data # Garbage
  <2>1. a.data = key /\ key \in Existing
    BY <1>7 DEF TrueAnswer
  <2> QED
    BY <1>1, <1>2, <1>7, <2>1 DEF TrueOf
<1>8. wave.method # "getrawtransaction" => wave.method = "gettxout"
  BY DEF Methods
<1>9. ASSUME wave.method = "gettxout", v \notin {RetryableFailure, SystemicFailure}
      PROVE  \/ v = ExplicitNull /\ Outcome(a) = "null"
             \/ v = Found(a.data) /\ a.data # Garbage
  BY <1>9 DEF ConfirmedValue
<1> QED
  BY <1>4, <1>5, <1>6, <1>7, <1>8, <1>9

\* The answers of a document to the requests of a batch are true.
TrueDocument(body, keys, start) ==
    \A j \in DOMAIN body, i \in DOMAIN keys :
        body[j].id = start + i - 1 => TrueAnswer(body[j], keys[i])

\* What a request of the batch comes to.
ValueOf(keys, start, body, i) ==
    IF AllMissing(keys, body) THEN SystemicFailure
    ELSE RpcValue(wave.method, keys[i], Answered(body, start, i))

LEMMA RequestValue ==
    ASSUME NEW keys \in Seq(Keys), NEW start, NEW body, NEW i \in DOMAIN keys,
           TrueDocument(body, keys, start), wave.method \in Methods
    PROVE  /\ ValueOf(keys, start, body, i) \in RpcValues
           /\ TrueOf(<<keys[i], ValueOf(keys, start, body, i)>>)
<1> DEFINE v == ValueOf(keys, start, body, i)
           to == AnswersTo(body, start + i - 1)
           a == body[CHOOSE j \in to : TRUE]
<1>1. keys[i] \in Keys
  BY LenProperties, ElementOfSeq
<1>2. \A k : /\ RetryableFailure \in RpcValues /\ SystemicFailure \in RpcValues
             /\ TrueOf(<<k, RetryableFailure>>) /\ TrueOf(<<k, SystemicFailure>>)
  BY DEF RpcValues, RetryableFailure, SystemicFailure, TrueOf
<1>3. CASE AllMissing(keys, body)
  BY <1>2, <1>3 DEF ValueOf
<1>4. CASE ~ AllMissing(keys, body) /\ to = {}
  <2>1. v = RetryableFailure
    BY <1>4 DEF ValueOf, RpcValue, Answered
  <2> QED
    BY <1>2, <2>1
<1>5. CASE ~ AllMissing(keys, body) /\ to # {}
  <2>1. (CHOOSE j \in to : TRUE) \in to
    BY <1>5
  <2>2. (CHOOSE j \in to : TRUE) \in DOMAIN body /\ a.id = start + i - 1
    BY <2>1 DEF AnswersTo
  <2>3. TrueAnswer(a, keys[i])
    BY <2>2, Zenon DEF TrueDocument
  <2>4. Answered(body, start, i) = <<a>>
    BY <1>5 DEF Answered
  <2> HIDE DEF a, to
  <2>5. v = RpcValue(wave.method, keys[i], <<a>>)
    BY <1>5, <2>4 DEF ValueOf
  <2>6. <<a>> # <<>> /\ <<a>>[1] = a
    OBVIOUS
  <2> HIDE DEF v
  <2>7. v = IF wave.method = "getrawtransaction" THEN RawValue(keys[i], a)
            ELSE ConfirmedValue(a)
    BY <2>5, <2>6 DEF RpcValue
  <2>8. v \in RpcValues /\ TrueOf(<<keys[i], v>>)
    BY <1>1, <2>3, <2>7, TrueValue
  <2> QED
    BY <2>8 DEF v
<1> QED
  BY <1>3, <1>4, <1>5

\* A batch gets one value for each of its keys, and each is true.
LEMMA BatchIsTrue ==
    ASSUME NEW keys \in Seq(Keys), Distinct(keys), NEW start, NEW body,
           TrueDocument(body, keys, start), wave.method \in Methods,
           NEW batch, batch = BatchValues(wave.method, keys, start, body)
    PROVE  /\ batch \in SUBSET (Keys \X RpcValues)
           /\ KeysOf(batch) = KeysIn(keys)
           /\ Single(batch) /\ \A kv \in batch : TrueOf(kv)
<1>1. batch = {<<keys[i], ValueOf(keys, start, body, i)>> : i \in DOMAIN keys}
  BY DEF BatchValues, ValueOf
<1> DEFINE val(i) == ValueOf(keys, start, body, i)
<1>2. \A i \in DOMAIN keys : val(i) \in RpcValues /\ TrueOf(<<keys[i], val(i)>>)
  BY RequestValue
<1>3. \A i \in DOMAIN keys : keys[i] \in Keys
  BY LenProperties, ElementOfSeq
<1> HIDE DEF val
<1>4. batch = {<<keys[i], val(i)>> : i \in DOMAIN keys}
  BY <1>1 DEF val
<1>5. batch \in SUBSET (Keys \X RpcValues)
  BY <1>2, <1>3, <1>4
<1>6. \A kv \in batch : TrueOf(kv)
  BY <1>2, <1>4
<1>7. Single(batch)
  <2> SUFFICES ASSUME NEW kv \in batch, NEW other \in batch, kv[1] = other[1]
               PROVE  kv = other
    BY DEF Single
  <2>1. PICK i \in DOMAIN keys : kv = <<keys[i], val(i)>>
    BY <1>4
  <2>2. PICK j \in DOMAIN keys : other = <<keys[j], val(j)>>
    BY <1>4
  <2>3. keys[i] = keys[j]
    BY <2>1, <2>2
  <2>4. i = j
    BY <2>3 DEF Distinct
  <2> QED
    BY <2>1, <2>2, <2>4
<1>8. KeysOf(batch) = KeysIn(keys)
  <2>1. \A i \in DOMAIN keys : <<keys[i], val(i)>> \in batch
    BY <1>4
  <2>2. \A i \in DOMAIN keys : keys[i] \in KeysOf(batch)
    <3> SUFFICES ASSUME NEW i \in DOMAIN keys PROVE keys[i] \in KeysOf(batch)
      OBVIOUS
    <3>1. <<keys[i], val(i)>>[1] = keys[i]
      OBVIOUS
    <3> QED
      BY <2>1, <3>1 DEF KeysOf
  <2>3. \A kv \in batch : kv[1] \in KeysIn(keys)
    BY <1>4 DEF KeysIn
  <2> QED
    BY <2>2, <2>3 DEF KeysOf, KeysIn
<1> QED
  BY <1>5, <1>6, <1>7, <1>8

\* Whatever document is accepted for a batch, its answers are true: an answer to
\* a request of the batch was given under an id of the batch, and that id was
\* given to the request's key alone.
LEMMA AcceptedDocument ==
    ASSUME FetchInv, NEW t \in tasks, t.start # 0, NEW body \in Documents(t),
           WellFormed(body, t.start, Len(t.keys))
    PROVE  TrueDocument(body, t.keys, t.start)
<1>1. /\ asked \in [1..(nextId - 1) -> Keys] /\ nextId \in Nat
      /\ t.keys \in Seq(Keys) /\ t.start \in Nat /\ Len(t.keys) \in Nat
      /\ DOMAIN t.keys = 1..Len(t.keys)
  <2>1. t \in Tasks
    BY DEF FetchInv, FetchTypeOK
  <2>2. t.keys \in Seq(Keys) /\ t.start \in Nat
    BY <2>1 DEF Tasks
  <2> QED
    BY <2>2, LenProperties, ClassificationFetchAssumption DEF FetchInv, FetchTypeOK
<1> DEFINE X == UNION {AnswersAbout(id, asked[id]) : id \in DOMAIN asked}
           long == [i \in 1..(Len(t.keys) + 1) |->
                      Answer(t.start + i - 1, TRUE, "missing", "value", t.keys[1])]
<1>2. body # long
  <2> SUFFICES ASSUME body = long PROVE FALSE
    OBVIOUS
  <2>1. Len(t.keys) + 1 \in Nat
    BY <1>1
  <2>2. Len(long) = Len(t.keys) + 1
    BY <2>1
  <2> QED
    BY <1>1, <2>2 DEF WellFormed
<1>3. PICK n \in 0..Len(t.keys) : body \in [1..n -> X]
  <2>1. body \in (UNION {[1..n -> X] : n \in 0..Len(t.keys)}) \cup {long}
    BY Zenon DEF Documents
  <2> HIDE DEF X, long
  <2> DEFINE D == UNION {[1..n -> X] : n \in 0..Len(t.keys)}
  <2>2. body \in D
    <3> HIDE DEF D
    <3>1. body \in D \cup {long}
      BY <2>1 DEF D
    <3> QED
      BY <1>2, <3>1
  <2> QED
    BY <2>2, Zenon
<1> SUFFICES ASSUME NEW j \in DOMAIN body, NEW i \in DOMAIN t.keys,
                    body[j].id = t.start + i - 1
             PROVE  TrueAnswer(body[j], t.keys[i])
  BY Zenon DEF TrueDocument
<1>4. PICK id \in DOMAIN asked : body[j] \in AnswersAbout(id, asked[id])
  <2>1. body[j] \in X
    <3> HIDE DEF X
    <3> QED
      BY <1>3
  <2> QED
    BY <2>1
<1>5. asked[id] \in Keys
  BY <1>1
<1>6. body[j].id = id /\ TrueAnswer(body[j], asked[id])
  BY <1>4, <1>5, NodeAnswers
<1>7. asked[t.start + i - 1] = t.keys[i]
  BY DEF FetchInv, IdsAreOwned, OwnsIds
<1> QED
  BY <1>6, <1>7

\* The answers of a node that understood the batch are true.
LEMMA PlainAnswers ==
    ASSUME FetchInv, NEW t \in tasks
    PROVE  TrueDocument(PlainDocument(t), t.keys, t.start)
<1>1. /\ t.keys \in Seq(Keys) /\ t.start \in Nat /\ Len(t.keys) \in Nat
      /\ DOMAIN t.keys = 1..Len(t.keys)
      /\ \A i \in DOMAIN t.keys : t.keys[i] \in Keys
  <2>1. t \in Tasks
    BY DEF FetchInv, FetchTypeOK
  <2>2. t.keys \in Seq(Keys) /\ t.start \in Nat
    BY <2>1 DEF Tasks
  <2> QED
    BY <2>2, LenProperties, ElementOfSeq
<1> DEFINE body == PlainDocument(t)
           plain(a) == a.version /\ a.error = "missing" /\ a.result # "missing"
<1>2. \A id, key : \E a \in AnswersAbout(id, key) : plain(a)
  <2> SUFFICES ASSUME NEW id, NEW key
               PROVE  \E a \in AnswersAbout(id, key) : plain(a)
    OBVIOUS
  <2>1. CASE key \in Existing
    <3> DEFINE a == Answer(id, TRUE, "missing", "value", key)
    <3>1. a \in AnswersAbout(id, key)
      <4>1. <<TRUE, "missing">> \in BOOLEAN \X {"missing", "null"}
        OBVIOUS
      <4>2. a = Answer(id, <<TRUE, "missing">>[1], <<TRUE, "missing">>[2], "value", key)
        OBVIOUS
      <4>3. a \in {Answer(id, p[1], p[2], "value", key) :
                     p \in BOOLEAN \X {"missing", "null"}}
        BY <4>1, <4>2, Zenon
      <4> HIDE DEF a
      <4> QED
        BY <2>1, <4>3, Zenon DEF AnswersAbout
    <3>2. plain(a)
      BY DEF Answer
    <3> QED
      BY <3>1, <3>2
  <2>2. CASE key \notin Existing
    <3> DEFINE a == Answer(id, TRUE, "missing", "null", Garbage)
    <3>1. a \in AnswersAbout(id, key)
      BY <2>2, Zenon DEF AnswersAbout
    <3>2. plain(a)
      BY DEF Answer
    <3> QED
      BY <3>1, <3>2
  <2> QED
    BY <2>1, <2>2
<1>3. \A j \in DOMAIN t.keys : body[j] \in AnswersAbout(t.start + j - 1, t.keys[j])
  <2> SUFFICES ASSUME NEW j \in DOMAIN t.keys
               PROVE  body[j] \in AnswersAbout(t.start + j - 1, t.keys[j])
    OBVIOUS
  <2>1. body[j] = CHOOSE a \in AnswersAbout(t.start + j - 1, t.keys[j]) : plain(a)
    BY Zenon DEF PlainDocument
  <2>2. \E a \in AnswersAbout(t.start + j - 1, t.keys[j]) : plain(a)
    BY <1>2
  <2> HIDE DEF plain, body
  <2> QED
    BY <2>1, <2>2, Zenon
<1>4. DOMAIN body = DOMAIN t.keys
  BY DEF PlainDocument
<1> HIDE DEF body
<1> SUFFICES ASSUME NEW j \in DOMAIN body, NEW i \in DOMAIN t.keys,
                    body[j].id = t.start + i - 1
             PROVE  TrueAnswer(body[j], t.keys[i])
  BY Zenon DEF TrueDocument, body
<1>5. body[j].id = t.start + j - 1 /\ TrueAnswer(body[j], t.keys[j])
  BY <1>1, <1>3, <1>4, NodeAnswers
<1>6. i = j
  BY <1>1, <1>4, <1>5
<1> QED
  BY <1>5, <1>6

-----------------------------------------------------------------------------
(* The steps of a task *)

\* What a task looks like under the invariant.
GoodTask(t, next, given) ==
    t \in Tasks /\ OwnsIds(t, next, given) /\ FoundTrue(t.values) /\ Answers(t)

\* The number of tasks does not grow when one is replaced.
LEMMA ReplacedCount ==
    ASSUME NEW S, IsFiniteSet(S), NEW t \in S, NEW u
    PROVE  /\ IsFiniteSet((S \ {t}) \cup {u})
           /\ Cardinality((S \ {t}) \cup {u}) <= Cardinality(S)
<1>1. IsFiniteSet(S \ {t}) /\ Cardinality(S \ {t}) = Cardinality(S) - 1
  BY FS_RemoveElement
<1>2. /\ IsFiniteSet((S \ {t}) \cup {u})
      /\ Cardinality((S \ {t}) \cup {u}) =
           IF u \in S \ {t} THEN Cardinality(S \ {t}) ELSE Cardinality(S \ {t}) + 1
  BY <1>1, FS_AddElement
<1>3. Cardinality(S) \in Nat /\ Cardinality(S \ {t}) \in Nat
  BY <1>1, FS_CardinalityType
<1> QED
  BY <1>1, <1>2, <1>3

\* A task that changes but keeps its keys leaves the invariant in place.
LEMMA ReplaceKeeps ==
    ASSUME FetchInv, NEW t \in tasks, NEW u, GoodTask(u, nextId', asked'),
           u.keys = t.keys, tasks' = (tasks \ {t}) \cup {u},
           nextId' \in nextId..MaxId, asked' \in [1..(nextId' - 1) -> Keys],
           \A id \in 1..(nextId - 1) : asked'[id] = asked[id],
           UNCHANGED <<current, waves, wave, remaining, toSpawn, stopped, failed, values>>
    PROVE  FetchInv'
<1>1. FetchTypeOK'
  <2>1. tasks' \in SUBSET Tasks
    BY DEF FetchInv, FetchTypeOK, GoodTask
  <2>2. nextId' \in 1..MaxId
    BY ClassificationFetchAssumption DEF FetchInv, FetchTypeOK
  <2> QED
    BY <2>1, <2>2 DEF FetchInv, FetchTypeOK
<1>2. Fetching /\ Fetching'
  BY DEF FetchInv, IdleIsEmpty, Fetching
<1>3. IdleIsEmpty'
  BY <1>2 DEF IdleIsEmpty
<1>4. KeysApart'
  <2>1. /\ Distinct(remaining) /\ KeysIn(remaining) \cap KeysOf(values) = {}
        /\ \A v \in tasks :
             /\ v.keys # <<>> /\ Distinct(v.keys)
             /\ KeysIn(v.keys) \cap KeysIn(remaining) = {}
             /\ KeysIn(v.keys) \cap KeysOf(values) = {}
             /\ \A w \in tasks : w # v => KeysIn(v.keys) \cap KeysIn(w.keys) = {}
    BY DEF FetchInv, KeysApart
  <2>2. \A v \in tasks' :
          /\ v.keys # <<>> /\ Distinct(v.keys)
          /\ KeysIn(v.keys) \cap KeysIn(remaining) = {}
          /\ KeysIn(v.keys) \cap KeysOf(values) = {}
    BY <2>1, Zenon
  <2>3. ASSUME NEW v \in tasks', NEW w \in tasks', w # v
        PROVE  KeysIn(v.keys) \cap KeysIn(w.keys) = {}
    <3> DEFINE old(x) == IF x = u THEN t ELSE x
    <3>1. /\ old(v) \in tasks /\ old(w) \in tasks /\ old(v) # old(w)
          /\ old(v).keys = v.keys /\ old(w).keys = w.keys
      BY <2>3
    <3> QED
      BY <2>1, <3>1, Zenon
  <2> QED
    BY <2>1, <2>2, <2>3 DEF KeysApart
<1>5. IdsAreOwned'
  <2> SUFFICES ASSUME NEW v \in tasks' PROVE OwnsIds(v, nextId', asked')
    BY DEF IdsAreOwned
  <2>1. CASE v = u
    BY <2>1 DEF GoodTask
  <2>2. CASE v \in tasks
    <3> SUFFICES ASSUME v.start # 0
                 PROVE  /\ v.start + Len(v.keys) <= nextId'
                        /\ \A i \in DOMAIN v.keys : asked'[v.start + i - 1] = v.keys[i]
      BY DEF OwnsIds
    <3>1. /\ v.start + Len(v.keys) <= nextId
          /\ \A i \in DOMAIN v.keys : asked[v.start + i - 1] = v.keys[i]
      BY <2>2 DEF FetchInv, IdsAreOwned, OwnsIds
    <3>2. v.keys \in Seq(Keys) /\ v.start \in Nat
      <4>1. v \in Tasks
        BY <2>2 DEF FetchInv, FetchTypeOK
      <4> QED
        BY <4>1 DEF Tasks
    <3>3. Len(v.keys) \in Nat /\ DOMAIN v.keys = 1..Len(v.keys) /\ nextId \in Nat
      BY <3>2, LenProperties, ClassificationFetchAssumption DEF FetchInv, FetchTypeOK
    <3>4. \A i \in DOMAIN v.keys : v.start + i - 1 \in 1..(nextId - 1)
      BY <3>1, <3>2, <3>3
    <3>5. v.start + Len(v.keys) <= nextId'
      <4>1. nextId' \in Int /\ nextId <= nextId'
        BY <3>3, ClassificationFetchAssumption
      <4> QED
        BY <3>1, <3>2, <3>3, <4>1
    <3>6. \A i \in DOMAIN v.keys : asked'[v.start + i - 1] = v.keys[i]
      BY <3>1, <3>4
    <3> QED
      BY <3>5, <3>6
  <2> QED
    BY <2>1, <2>2
<1>6. FoundIsTrue'
  BY DEF FetchInv, FoundIsTrue, GoodTask
<1>7. TasksAnswer'
  BY DEF FetchInv, TasksAnswer, GoodTask
<1>8. LanesHeld'
  <2>1. IsFiniteSet(tasks) /\ Cardinality(tasks) + toSpawn <= Lanes[wave.method]
    BY <1>2 DEF FetchInv, LanesHeld
  <2>2. IsFiniteSet(tasks') /\ Cardinality(tasks') <= Cardinality(tasks)
    BY <2>1, ReplacedCount
  <2>3. Cardinality(tasks) \in Nat /\ Cardinality(tasks') \in Nat /\ toSpawn \in Nat
    BY <2>1, <2>2, FS_CardinalityType DEF FetchInv, FetchTypeOK
  <2>4. Lanes[wave.method] \in Nat
    BY <1>2, ClassificationFetchAssumption DEF FetchInv, FetchTypeOK, Fetching
  <2> QED
    BY <2>1, <2>2, <2>3, <2>4 DEF LanesHeld
<1>9. \A key : (\E v \in tasks' : key \in KeysIn(v.keys))
                 <=> (\E v \in tasks : key \in KeysIn(v.keys))
  OBVIOUS
<1>10. NothingMissing'
  BY <1>2, <1>9 DEF FetchInv, NothingMissing
<1>11. KeysOfWave'
  BY <1>2 DEF FetchInv, KeysOfWave
<1>12. FailureHasKey'
  <2>1. \A key : Spoilt(key) => Spoilt(key)'
    BY <1>9 DEF Spoilt
  <2> QED
    BY <2>1 DEF FetchInv, FailureHasKey
<1>13. LanesGoOn'
  BY DEF FetchInv, LanesGoOn, Fetching
<1> QED
  BY <1>1, <1>3, <1>4, <1>5, <1>6, <1>7, <1>8, <1>10, <1>11, <1>12, <1>13 DEF FetchInv

\* The task returns an error.
LEMMA FailTaskKeeps ==
    ASSUME FetchInv, NEW t \in tasks, ~ t.done, FailTask(t),
           UNCHANGED <<nextId, current, asked, waves, wave, remaining, toSpawn,
                       stopped, failed, values>>
    PROVE  FetchInv'
<1> DEFINE u == [t EXCEPT !.done = TRUE, !.failed = TRUE]
<1>1. t \in Tasks /\ OwnsIds(t, nextId, asked) /\ FoundTrue(t.values) /\ Answers(t)
  BY DEF FetchInv, FetchTypeOK, IdsAreOwned, FoundIsTrue, TasksAnswer
<1>2. u \in Tasks
  BY <1>1, Zenon DEF Tasks
<1>3. /\ u.keys = t.keys /\ u.start = t.start /\ u.values = t.values /\ u.stop = t.stop
      /\ u.done = TRUE /\ u.failed = TRUE
  BY <1>1, Zenon DEF Tasks
<1> HIDE DEF u
<1>4. t.values = {} /\ ~ t.stop
  BY <1>1 DEF Answers
<1>5. Answers(u)
  BY <1>3, <1>4, Zenon DEF Answers
<1>6. OwnsIds(u, nextId, asked) /\ FoundTrue(u.values)
  BY <1>1, <1>3 DEF OwnsIds
<1>7. GoodTask(u, nextId', asked')
  BY <1>2, <1>5, <1>6 DEF GoodTask
<1>8. tasks' = (tasks \ {t}) \cup {u}
  BY DEF FailTask, Replace, u
<1>9. nextId' \in nextId..MaxId /\ asked' \in [1..(nextId' - 1) -> Keys]
  BY ClassificationFetchAssumption DEF FetchInv, FetchTypeOK
<1> QED
  BY <1>3, <1>7, <1>8, <1>9, ReplaceKeeps

\* A task that reserves its ids, or fails to.
LEMMA ReserveKeeps ==
    ASSUME FetchInv, NEW t \in tasks, Reserve(t)
    PROVE  FetchInv'
<1>1. CASE /\ BatchBytes(t.keys) > MaxResponseBytes \/ ~ CanReserve(nextId, Len(t.keys))
           /\ FailTask(t) /\ UNCHANGED <<nextId, asked>>
  BY <1>1, FailTaskKeeps DEF Reserve
<1>2. CASE /\ CanReserve(nextId, Len(t.keys))
           /\ nextId' = nextId + Len(t.keys)
           /\ Replace(t, [t EXCEPT !.start = nextId])
           /\ asked' = Reserved(t)
  <2> DEFINE u == [t EXCEPT !.start = nextId]
  <2>0. t \in Tasks /\ FoundTrue(t.values) /\ Answers(t)
    BY DEF FetchInv, FetchTypeOK, FoundIsTrue, TasksAnswer
  <2>1. /\ nextId \in Nat /\ nextId >= 1 /\ MaxId \in Nat
        /\ asked \in [1..(nextId - 1) -> Keys]
    BY ClassificationFetchAssumption DEF FetchInv, FetchTypeOK
  <2>2. /\ t.keys \in Seq(Keys) /\ Len(t.keys) \in Nat
        /\ DOMAIN t.keys = 1..Len(t.keys)
        /\ \A i \in DOMAIN t.keys : t.keys[i] \in Keys
    <3>1. t.keys \in Seq(Keys)
      BY <2>0 DEF Tasks
    <3> QED
      BY <3>1, LenProperties, ElementOfSeq
  <2>3. u \in Tasks
    BY <2>0, <2>1, Zenon DEF Tasks
  <2>4. /\ u.keys = t.keys /\ u.start = nextId /\ u.values = t.values
        /\ u.stop = t.stop /\ u.failed = t.failed /\ u.done = t.done
    BY <2>0, Zenon DEF Tasks
  <2> HIDE DEF u
  <2> DEFINE N == Len(t.keys)
  <2>5. IdsOf(nextId, N) = nextId..(nextId + N - 1)
    BY DEF IdsOf
  <2>6. \A id : id \in 1..(nextId + N - 1) <=>
          id \in 1..(nextId - 1) \/ id \in nextId..(nextId + N - 1)
    BY <2>1, <2>2
  <2>7. DOMAIN asked' = 1..(nextId + N - 1)
    <3>1. DOMAIN asked' = DOMAIN asked \cup IdsOf(nextId, N)
      BY <1>2 DEF Reserved
    <3> QED
      BY <2>1, <2>5, <2>6, <3>1
  <2>8. \A id \in 1..(nextId - 1) : asked'[id] = asked[id]
    <3> SUFFICES ASSUME NEW id \in 1..(nextId - 1) PROVE asked'[id] = asked[id]
      OBVIOUS
    <3>1. id \in DOMAIN asked /\ id \notin nextId..(nextId + N - 1)
      BY <2>1, <2>2
    <3> QED
      BY <1>2, <2>5, <3>1 DEF Reserved
  <2>9. \A i \in DOMAIN t.keys : asked'[nextId + i - 1] = t.keys[i]
    <3> SUFFICES ASSUME NEW i \in DOMAIN t.keys
                 PROVE  asked'[nextId + i - 1] = t.keys[i]
      OBVIOUS
    <3>1. /\ nextId + i - 1 \in nextId..(nextId + N - 1)
          /\ (nextId + i - 1) - nextId + 1 = i
      BY <2>1, <2>2
    <3>2. nextId + i - 1 \in IdsOf(nextId, N)
      BY <2>5, <3>1
    <3>3. asked'[nextId + i - 1] = t.keys[(nextId + i - 1) - nextId + 1]
      BY <1>2, <3>2 DEF Reserved
    <3> QED
      BY <3>1, <3>3
  <2>10. asked' \in [1..(nextId' - 1) -> Keys]
    <3>1. \A id \in 1..(nextId + N - 1) : asked'[id] \in Keys
      <4> SUFFICES ASSUME NEW id \in 1..(nextId + N - 1) PROVE asked'[id] \in Keys
        OBVIOUS
      <4>1. CASE id \in 1..(nextId - 1)
        BY <2>1, <2>8, <4>1
      <4>2. CASE id \in nextId..(nextId + N - 1)
        <5>1. id - nextId + 1 \in 1..N /\ nextId + (id - nextId + 1) - 1 = id
          BY <2>1, <2>2, <4>2
        <5>2. asked'[nextId + (id - nextId + 1) - 1] = t.keys[id - nextId + 1]
          BY <2>2, <2>9, <5>1
        <5> QED
          BY <2>2, <5>1, <5>2
      <4> QED
        BY <2>6, <4>1, <4>2
    <3>2. asked' = [id \in DOMAIN asked' |-> asked'[id]]
      BY <1>2 DEF Reserved
    <3>3. nextId' - 1 = nextId + N - 1
      BY <1>2, <2>1, <2>2
    <3>4. asked' \in [1..(nextId + N - 1) -> Keys]
      <4> DEFINE D == 1..(nextId + N - 1)
      <4> HIDE DEF D
      <4>1. DOMAIN asked' = D /\ \A id \in D : asked'[id] \in Keys
        BY <2>7, <3>1 DEF D
      <4>2. asked' \in [D -> Keys]
        BY <3>2, <4>1
      <4> QED
        BY <4>2 DEF D
    <3> QED
      BY <3>3, <3>4
  <2>11. nextId' \in nextId..MaxId
    BY <1>2, <2>1, <2>2 DEF CanReserve
  <2>12. OwnsIds(u, nextId', asked')
    <3>1. nextId + Len(u.keys) <= nextId'
      BY <1>2, <2>1, <2>2, <2>4
    <3> QED
      BY <2>4, <2>9, <3>1 DEF OwnsIds
  <2>13. FoundTrue(u.values) /\ Answers(u)
    BY <2>0, <2>4, Zenon DEF Answers
  <2>14. GoodTask(u, nextId', asked')
    BY <2>3, <2>12, <2>13 DEF GoodTask
  <2>15. tasks' = (tasks \ {t}) \cup {u}
    BY <1>2 DEF Replace, u
  <2>16. UNCHANGED <<current, waves, wave, remaining, toSpawn, stopped, failed, values>>
    BY DEF Reserve
  <2> QED
    BY <2>4, <2>8, <2>10, <2>11, <2>14, <2>15, <2>16, ReplaceKeeps
<1> QED
  BY <1>1, <1>2 DEF Reserve

\* A task whose response is settled.
LEMMA SettleKeeps ==
    ASSUME FetchInv, NEW t \in tasks, ~ t.done, NEW arrives, NEW body,
           arrives /\ WellFormed(body, t.start, Len(t.keys)) =>
               TrueDocument(body, t.keys, t.start),
           Settle(t, arrives, body),
           UNCHANGED <<nextId, current, asked, waves, wave, remaining, toSpawn,
                       stopped, failed, values>>
    PROVE  FetchInv'
<1>1. CASE ~ (arrives /\ WellFormed(body, t.start, Len(t.keys)))
  <2>1. FailTask(t)
    BY <1>1 DEF Settle
  <2> QED
    BY <2>1, FailTaskKeeps
<1>2. CASE arrives /\ WellFormed(body, t.start, Len(t.keys))
  <2> DEFINE batch == BatchValues(wave.method, t.keys, t.start, body)
             stop == \E kv \in batch : kv[2] = SystemicFailure
             u == [t EXCEPT !.done = TRUE, !.values = batch, !.stop = stop]
  <2>1. t \in Tasks /\ OwnsIds(t, nextId, asked) /\ Answers(t)
    BY DEF FetchInv, FetchTypeOK, IdsAreOwned, TasksAnswer
  <2>2. t.keys \in Seq(Keys) /\ Distinct(t.keys)
    BY <2>1 DEF Tasks, FetchInv, KeysApart
  <2>3. wave.method \in Methods
    <3>1. Fetching
      BY DEF FetchInv, IdleIsEmpty
    <3> QED
      BY <3>1, ClassificationFetchAssumption DEF FetchInv, FetchTypeOK, Fetching
  <2>4. tasks' = (tasks \ {t}) \cup {u}
    BY <1>2 DEF Settle, Replace
  <2>5. stop \in BOOLEAN /\ (stop <=> \E kv \in batch : kv[2] = SystemicFailure)
    OBVIOUS
  <2> HIDE DEF batch, stop
  <2>6. /\ batch \in SUBSET (Keys \X RpcValues)
        /\ KeysOf(batch) = KeysIn(t.keys)
        /\ FoundTrue(batch)
    BY <1>2, <2>2, <2>3, BatchIsTrue DEF batch, FoundTrue
  <2>7. u \in Tasks
    BY <2>1, <2>5, <2>6, Zenon DEF Tasks
  <2>8. /\ u.keys = t.keys /\ u.start = t.start /\ u.values = batch /\ u.stop = stop
        /\ u.done = TRUE /\ u.failed = t.failed
    BY <2>1, Zenon DEF Tasks
  <2> HIDE DEF u
  <2>9. ~ t.failed
    BY <2>1 DEF Answers
  <2>10. Answers(u)
    BY <2>5, <2>6, <2>8, <2>9, Zenon DEF Answers
  <2>11. OwnsIds(u, nextId, asked) /\ FoundTrue(u.values)
    BY <2>1, <2>6, <2>8 DEF OwnsIds
  <2>12. GoodTask(u, nextId', asked')
    BY <2>7, <2>10, <2>11 DEF GoodTask
  <2>13. nextId' \in nextId..MaxId /\ asked' \in [1..(nextId' - 1) -> Keys]
    BY ClassificationFetchAssumption DEF FetchInv, FetchTypeOK
  <2> QED
    BY <2>4, <2>8, <2>12, <2>13, ReplaceKeeps
<1> QED
  BY <1>1, <1>2

\* A response comes back, or the connection fails.
LEMMA RespondKeeps ==
    ASSUME FetchInv, NEW t \in tasks, Respond(t)
    PROVE  FetchInv'
<1>1. CASE \E body \in Documents(t) : Settle(t, TRUE, body)
  <2>1. PICK body \in Documents(t) : Settle(t, TRUE, body)
    BY <1>1
  <2>2. WellFormed(body, t.start, Len(t.keys)) => TrueDocument(body, t.keys, t.start)
    BY AcceptedDocument DEF Respond
  <2> QED
    BY <2>1, <2>2, SettleKeeps DEF Respond
<1>2. CASE \E r \in HttpResponses : Settle(t, Arrives(r), PlainDocument(t))
  <2>1. PICK r \in HttpResponses : Settle(t, Arrives(r), PlainDocument(t))
    BY <1>2
  <2>2. TrueDocument(PlainDocument(t), t.keys, t.start)
    BY PlainAnswers
  <2> QED
    BY <2>1, <2>2, SettleKeeps DEF Respond
<1> QED
  BY <1>1, <1>2 DEF Respond

\* A task that is lost counts as one that failed.
LEMMA LoseTaskKeeps ==
    ASSUME FetchInv, NEW t \in tasks, LoseTask(t)
    PROVE  FetchInv'
  BY FailTaskKeeps DEF LoseTask

-----------------------------------------------------------------------------
(* Lanes *)

\* The keys a lane takes leave what remains.
LEMMA SpawnLaneKeeps ==
    ASSUME FetchInv, SpawnLane
    PROVE  FetchInv'
<1>0. /\ Fetching /\ toSpawn > 0 /\ toSpawn \in Nat /\ wave' = wave
      /\ UNCHANGED <<nextId, current, asked, waves, stopped, failed, values>>
      /\ wave.method \in Methods /\ remaining \in Seq(Keys)
  BY ClassificationFetchAssumption DEF FetchInv, FetchTypeOK, SpawnLane, Fetching
<1>1. CASE current /\ remaining # <<>>
  <2> DEFINE n == NewTask(wave.method, remaining)
             r == Rest(wave.method, remaining)
  <2>1. tasks' = tasks \cup {n} /\ remaining' = r /\ toSpawn' = toSpawn - 1
    BY <1>1 DEF SpawnLane
  <2>2. Distinct(remaining)
    BY DEF FetchInv, KeysApart
  <2> HIDE DEF n, r
  <2>3. /\ n \in Tasks /\ n.keys # <<>> /\ Distinct(n.keys)
        /\ n.start = 0 /\ ~ n.done /\ ~ n.failed /\ n.values = {} /\ ~ n.stop
        /\ r \in Seq(Keys) /\ Distinct(r)
        /\ KeysIn(n.keys) \cap KeysIn(r) = {}
        /\ KeysIn(n.keys) \cup KeysIn(r) = KeysIn(remaining)
    BY <1>0, <1>1, <2>2, TakenBatch DEF n, r
  <2>4. FetchTypeOK'
    BY <1>0, <2>1, <2>3 DEF FetchInv, FetchTypeOK
  <2>5. Fetching'
    BY <1>0 DEF Fetching
  <2>6. KeysApart'
    BY <1>0, <2>1, <2>3 DEF FetchInv, KeysApart
  <2>7. IdsAreOwned'
    BY <1>0, <2>1, <2>3 DEF FetchInv, IdsAreOwned, OwnsIds
  <2>8. FoundIsTrue'
    BY <1>0, <2>1, <2>3 DEF FetchInv, FoundIsTrue, FoundTrue, Single
  <2>9. TasksAnswer'
    BY <1>0, <2>1, <2>3 DEF FetchInv, TasksAnswer, Answers
  <2>10. LanesHeld'
    <3>1. IsFiniteSet(tasks) /\ Cardinality(tasks) + toSpawn <= Lanes[wave.method]
      BY <1>0 DEF FetchInv, LanesHeld
    <3>2. /\ IsFiniteSet(tasks')
          /\ Cardinality(tasks') =
               IF n \in tasks THEN Cardinality(tasks) ELSE Cardinality(tasks) + 1
      BY <2>1, <3>1, FS_AddElement
    <3>3. Cardinality(tasks) \in Nat /\ Lanes[wave.method] \in Nat
      BY <1>0, <3>1, FS_CardinalityType, ClassificationFetchAssumption
    <3>4. Cardinality(tasks') + toSpawn' <= Lanes[wave.method]
      BY <1>0, <2>1, <3>1, <3>2, <3>3
    <3> QED
      BY <1>0, <3>2, <3>4 DEF LanesHeld
  <2>11. NothingMissing'
    BY <1>0, <2>1, <2>3 DEF FetchInv, NothingMissing
  <2>12. KeysOfWave'
    BY <1>0, <2>1, <2>3 DEF FetchInv, KeysOfWave
  <2>13. FailureHasKey'
    <3>1. \A key : Spoilt(key) => Spoilt(key)'
      BY <1>0, <2>1, <2>3 DEF Spoilt
    <3> QED
      BY <1>0, <3>1 DEF FetchInv, FailureHasKey
  <2>14. LanesGoOn'
    BY <1>0, <2>1 DEF FetchInv, LanesGoOn
  <2>15. IdleIsEmpty'
    BY <2>5 DEF IdleIsEmpty
  <2> QED
    BY <2>4, <2>6, <2>7, <2>8, <2>9, <2>10, <2>11, <2>12, <2>13, <2>14, <2>15 DEF FetchInv
<1>2. CASE ~ (current /\ remaining # <<>>)
  <2>1. toSpawn' = 0 /\ UNCHANGED <<tasks, remaining>>
    BY <1>2 DEF SpawnLane
  <2>2. Fetching' /\ Fetching
    BY <1>0 DEF Fetching
  <2>3. FetchTypeOK' /\ IdleIsEmpty' /\ KeysApart' /\ IdsAreOwned'
    BY <1>0, <2>1, <2>2
       DEF FetchInv, FetchTypeOK, IdleIsEmpty, KeysApart, IdsAreOwned
  <2>4. FoundIsTrue' /\ TasksAnswer'
    BY <1>0, <2>1 DEF FetchInv, FoundIsTrue, TasksAnswer
  <2>5. LanesHeld'
    <3>1. IsFiniteSet(tasks) /\ Cardinality(tasks) + toSpawn <= Lanes[wave.method]
      BY <1>0 DEF FetchInv, LanesHeld
    <3>2. Cardinality(tasks) \in Nat /\ Lanes[wave.method] \in Nat
      BY <1>0, <3>1, FS_CardinalityType, ClassificationFetchAssumption
    <3>3. Cardinality(tasks) + 0 <= Lanes[wave.method]
      BY <1>0, <3>1, <3>2
    <3> QED
      BY <1>0, <2>1, <3>1, <3>3 DEF LanesHeld
  <2>6. NothingMissing' /\ KeysOfWave'
    BY <1>0, <2>1, <2>2 DEF FetchInv, NothingMissing, KeysOfWave
  <2>7. FailureHasKey'
    BY <1>0, <2>1 DEF FetchInv, FailureHasKey, Spoilt
  <2>8. LanesGoOn'
    BY <1>0, <1>2, <2>1 DEF FetchInv, LanesGoOn
  <2> QED
    BY <2>3, <2>4, <2>5, <2>6, <2>7, <2>8 DEF FetchInv
<1> QED
  BY <1>1, <1>2

\* A task is collected and its lane takes the next batch, or stops.
LEMMA JoinKeeps ==
    ASSUME FetchInv, NEW t \in tasks, Join(t)
    PROVE  FetchInv'
<1>0. /\ Fetching /\ Fetching' /\ toSpawn = 0 /\ toSpawn' = 0 /\ wave' = wave
      /\ UNCHANGED <<nextId, current, asked, waves>>
      /\ values' = values \cup t.values
      /\ stopped' = (stopped \/ t.stop \/ t.failed)
      /\ failed' = (failed \/ t.stop \/ t.failed)
      /\ wave.method \in Methods /\ remaining \in Seq(Keys)
  <2>1. Fetching
    BY DEF FetchInv, IdleIsEmpty
  <2> QED
    BY <2>1, ClassificationFetchAssumption DEF FetchInv, FetchTypeOK, Join, Fetching
<1>1. /\ t \in Tasks /\ t.done /\ FoundTrue(t.values) /\ Answers(t)
      /\ t.keys # <<>> /\ Distinct(t.keys)
      /\ KeysIn(t.keys) \cap KeysIn(remaining) = {}
      /\ KeysIn(t.keys) \cap KeysOf(values) = {}
      /\ KeysIn(t.keys) \subseteq KeysIn(wave.keys)
      /\ \A u \in tasks \ {t} : KeysIn(t.keys) \cap KeysIn(u.keys) = {}
  BY <1>0 DEF Join, FetchInv, FetchTypeOK, KeysApart, FoundIsTrue, TasksAnswer, KeysOfWave
<1>2. t.values \in SUBSET (Keys \X RpcValues) /\ t.keys \in Seq(Keys)
  BY <1>1 DEF Tasks
<1>3. KeysOf(t.values) \subseteq KeysIn(t.keys)
  BY <1>1 DEF Answers, KeysOf
<1>4. \A key : key \in KeysOf(values') <=> key \in KeysOf(values) \/ key \in KeysOf(t.values)
  BY <1>0 DEF KeysOf
<1>5. \E N : /\ tasks' = (tasks \ {t}) \cup N
             /\ N = {} \/ \E n : N = {n}
             /\ \A n \in N :
                   /\ n \in Tasks /\ n.keys # <<>> /\ Distinct(n.keys)
                   /\ n.start = 0 /\ ~ n.done /\ ~ n.failed /\ n.values = {} /\ ~ n.stop
                   /\ KeysIn(n.keys) \cap KeysIn(remaining') = {}
             /\ remaining' \in Seq(Keys) /\ Distinct(remaining')
             /\ \A key : key \in KeysIn(remaining) <=>
                   key \in KeysIn(remaining') \/ \E n \in N : key \in KeysIn(n.keys)
             /\ ~ stopped' /\ current /\ remaining' # <<>> => N # {}
  <2>0. Distinct(remaining)
    BY DEF FetchInv, KeysApart
  <2>1. CASE ~ stopped' /\ current /\ remaining # <<>>
    <3> DEFINE n == NewTask(wave.method, remaining)
               r == Rest(wave.method, remaining)
    <3>1. tasks' = (tasks \ {t}) \cup {n} /\ remaining' = r
      BY <2>1 DEF Join
    <3> HIDE DEF n, r
    <3>2. /\ n \in Tasks /\ n.keys # <<>> /\ Distinct(n.keys)
          /\ n.start = 0 /\ ~ n.done /\ ~ n.failed /\ n.values = {} /\ ~ n.stop
          /\ r \in Seq(Keys) /\ Distinct(r)
          /\ KeysIn(n.keys) \cap KeysIn(r) = {}
          /\ KeysIn(n.keys) \cup KeysIn(r) = KeysIn(remaining)
      BY <1>0, <2>0, <2>1, TakenBatch DEF n, r
    <3> WITNESS {n}
    <3> QED
      BY <3>1, <3>2
  <2>2. CASE ~ (~ stopped' /\ current /\ remaining # <<>>)
    <3>1. tasks' = tasks \ {t} /\ remaining' = remaining
      BY <2>2 DEF Join
    <3>2. tasks' = (tasks \ {t}) \cup {}
      BY <3>1
    <3>3. \A n \in {} : FALSE
      OBVIOUS
    <3> WITNESS {}
    <3> QED
      BY <1>0, <2>0, <2>2, <3>1, <3>2, <3>3
  <2> QED
    BY <2>1, <2>2
<1>6. PICK N :
             /\ tasks' = (tasks \ {t}) \cup N
             /\ N = {} \/ \E n : N = {n}
             /\ \A n \in N :
                   /\ n \in Tasks /\ n.keys # <<>> /\ Distinct(n.keys)
                   /\ n.start = 0 /\ ~ n.done /\ ~ n.failed /\ n.values = {} /\ ~ n.stop
                   /\ KeysIn(n.keys) \cap KeysIn(remaining') = {}
             /\ remaining' \in Seq(Keys) /\ Distinct(remaining')
             /\ \A key : key \in KeysIn(remaining) <=>
                   key \in KeysIn(remaining') \/ \E n \in N : key \in KeysIn(n.keys)
             /\ ~ stopped' /\ current /\ remaining' # <<>> => N # {}
  BY <1>5
<1>7. FetchTypeOK'
  <2>1. tasks' \in SUBSET Tasks
    BY <1>6 DEF FetchInv, FetchTypeOK
  <2>2. values' \in SUBSET (Keys \X RpcValues)
    BY <1>0, <1>2 DEF FetchInv, FetchTypeOK
  <2>3. stopped' \in BOOLEAN /\ failed' \in BOOLEAN
    BY <1>0
  <2> QED
    BY <1>0, <1>6, <2>1, <2>2, <2>3 DEF FetchInv, FetchTypeOK
<1>8. IdleIsEmpty'
  BY <1>0 DEF IdleIsEmpty
<1>9. KeysApart'
  <2>1. /\ KeysIn(remaining) \cap KeysOf(values) = {}
        /\ \A v \in tasks :
             /\ v.keys # <<>> /\ Distinct(v.keys)
             /\ KeysIn(v.keys) \cap KeysIn(remaining) = {}
             /\ KeysIn(v.keys) \cap KeysOf(values) = {}
             /\ \A w \in tasks : w # v => KeysIn(v.keys) \cap KeysIn(w.keys) = {}
    BY DEF FetchInv, KeysApart
  <2>2. KeysIn(remaining') \cap KeysOf(values') = {}
    BY <1>1, <1>3, <1>4, <1>6, <2>1
  <2>3. ASSUME NEW v \in tasks'
        PROVE  /\ v.keys # <<>> /\ Distinct(v.keys)
               /\ KeysIn(v.keys) \cap KeysIn(remaining') = {}
               /\ KeysIn(v.keys) \cap KeysOf(values') = {}
    <3>1. CASE v \in tasks \ {t}
      BY <1>1, <1>3, <1>4, <1>6, <2>1, <3>1
    <3>2. CASE v \in N
      <4>1. KeysIn(v.keys) \subseteq KeysIn(remaining)
        BY <1>6, <3>2
      <4> QED
        BY <1>1, <1>3, <1>4, <1>6, <2>1, <3>2, <4>1
    <3> QED
      BY <1>6, <3>1, <3>2
  <2>4. ASSUME NEW v \in tasks', NEW w \in tasks', w # v
        PROVE  KeysIn(v.keys) \cap KeysIn(w.keys) = {}
    <3>1. \A n \in N : KeysIn(n.keys) \subseteq KeysIn(remaining)
      BY <1>6
    <3>2. CASE v \in tasks \ {t} /\ w \in tasks \ {t}
      BY <2>1, <2>4, <3>2
    <3>3. CASE v \in N /\ w \in tasks
      BY <2>1, <3>1, <3>3
    <3>4. CASE w \in N /\ v \in tasks
      BY <2>1, <3>1, <3>4
    <3>5. ~ (v \in N /\ w \in N)
      BY <1>6, <2>4
    <3> QED
      BY <1>6, <3>2, <3>3, <3>4, <3>5
  <2> QED
    BY <1>6, <2>2, <2>3, <2>4 DEF KeysApart
<1>10. IdsAreOwned'
  BY <1>0, <1>6 DEF FetchInv, IdsAreOwned, OwnsIds
<1>11. FoundIsTrue'
  <2>1. FoundTrue(values')
    <3>1. FoundTrue(values) /\ FoundTrue(t.values)
      BY <1>1 DEF FetchInv, FoundIsTrue
    <3>2. \A kv \in values, other \in t.values : kv[1] # other[1]
      BY <1>1, <1>3 DEF KeysOf
    <3> QED
      BY <1>0, <3>1, <3>2 DEF FoundTrue, Single
  <2>2. \A v \in tasks' : FoundTrue(v.values)
    <3>1. FoundTrue({})
      BY DEF FoundTrue, Single
    <3> QED
      BY <1>6, <3>1 DEF FetchInv, FoundIsTrue
  <2> QED
    BY <2>1, <2>2 DEF FoundIsTrue
<1>12. TasksAnswer'
  <2>1. \A n \in N : Answers(n)
    BY <1>6, Zenon DEF Answers
  <2> QED
    BY <1>6, <2>1 DEF FetchInv, TasksAnswer
<1>13. LanesHeld'
  <2>1. IsFiniteSet(tasks) /\ Cardinality(tasks) + 0 <= Lanes[wave.method]
    BY <1>0 DEF FetchInv, LanesHeld
  <2>2. IsFiniteSet(tasks') /\ Cardinality(tasks') <= Cardinality(tasks)
    <3>1. CASE N = {}
      <4>1. tasks' = tasks \ {t}
        BY <1>6, <3>1
      <4>2. IsFiniteSet(tasks') /\ Cardinality(tasks') = Cardinality(tasks) - 1
        BY <2>1, <4>1, FS_RemoveElement
      <4> QED
        BY <2>1, <4>2, FS_CardinalityType
    <3>2. CASE \E n : N = {n}
      <4>1. PICK n : N = {n}
        BY <3>2
      <4>2. tasks' = (tasks \ {t}) \cup {n}
        BY <1>6, <4>1
      <4> QED
        BY <2>1, <4>2, ReplacedCount
    <3> QED
      BY <1>6, <3>1, <3>2
  <2>3. Cardinality(tasks) \in Nat /\ Cardinality(tasks') \in Nat
    BY <2>1, <2>2, FS_CardinalityType
  <2>4. Lanes[wave.method] \in Nat
    BY <1>0, ClassificationFetchAssumption
  <2> QED
    BY <1>0, <2>1, <2>2, <2>3, <2>4 DEF LanesHeld
<1>14. NothingMissing'
  <2> SUFFICES ASSUME ~ failed'
               PROVE  /\ \A i \in DOMAIN wave.keys :
                            \/ wave.keys[i] \in KeysIn(remaining')
                            \/ \E v \in tasks' : wave.keys[i] \in KeysIn(v.keys)
                            \/ wave.keys[i] \in KeysOf(values')
                      /\ \A kv \in values' : kv[2] # SystemicFailure
    BY <1>0 DEF NothingMissing
  <2>1. ~ failed /\ ~ t.stop /\ ~ t.failed
    BY <1>0
  <2>2. KeysOf(t.values) = KeysIn(t.keys) /\ \A kv \in t.values : kv[2] # SystemicFailure
    BY <1>1, <2>1 DEF Answers
  <2>3. /\ \A i \in DOMAIN wave.keys :
              \/ wave.keys[i] \in KeysIn(remaining)
              \/ \E v \in tasks : wave.keys[i] \in KeysIn(v.keys)
              \/ wave.keys[i] \in KeysOf(values)
        /\ \A kv \in values : kv[2] # SystemicFailure
    BY <1>0, <2>1 DEF FetchInv, NothingMissing
  <2> QED
    BY <1>0, <1>4, <1>6, <2>2, <2>3
<1>15. KeysOfWave'
  BY <1>0, <1>6 DEF FetchInv, KeysOfWave
<1>16. FailureHasKey'
  <2>1. \A key \in KeysIn(t.keys) :
          /\ key \notin KeysIn(remaining') /\ \A v \in tasks' : key \notin KeysIn(v.keys)
          /\ \A kv \in values : kv[1] # key
    BY <1>1, <1>6 DEF KeysOf
  <2>2. CASE failed
    <3>1. PICK i \in DOMAIN wave.keys : Spoilt(wave.keys[i])
      BY <2>2 DEF FetchInv, FailureHasKey
    <3>2. wave.keys[i] \notin KeysIn(t.keys)
      BY <3>1 DEF Spoilt
    <3>3. \A kv \in t.values : kv[1] # wave.keys[i]
      BY <1>3, <3>2 DEF KeysOf
    <3>4. Spoilt(wave.keys[i])'
      BY <1>0, <1>6, <3>1, <3>3 DEF Spoilt
    <3> QED
      BY <1>0, <3>4 DEF FailureHasKey
  <2>3. CASE t.failed
    <3>1. t.values = {}
      BY <1>1, <2>3 DEF Answers
    <3>2. Len(t.keys) \in Nat \ {0} /\ DOMAIN t.keys = 1..Len(t.keys)
      BY <1>1, <1>2, EmptySeq, LenProperties
    <3>3. t.keys[1] \in KeysIn(t.keys)
      BY <3>2 DEF KeysIn
    <3>4. PICK i \in DOMAIN wave.keys : wave.keys[i] = t.keys[1]
      BY <1>1, <3>3 DEF KeysIn
    <3>5. Spoilt(wave.keys[i])'
      BY <1>0, <2>1, <3>1, <3>3, <3>4 DEF Spoilt
    <3> QED
      BY <1>0, <3>5 DEF FailureHasKey
  <2>4. CASE t.stop
    <3>1. PICK kv \in t.values : kv[2] = SystemicFailure
      BY <1>1, <2>4 DEF Answers
    <3>2. kv[1] \in KeysIn(t.keys)
      BY <1>3 DEF KeysOf
    <3>3. PICK i \in DOMAIN wave.keys : wave.keys[i] = kv[1]
      BY <1>1, <3>2 DEF KeysIn
    <3>4. \A other \in t.values : other[1] = kv[1] => other[2] = SystemicFailure
      BY <1>1, <3>1 DEF FoundTrue, Single
    <3>5. Spoilt(wave.keys[i])'
      BY <1>0, <2>1, <3>2, <3>3, <3>4 DEF Spoilt
    <3> QED
      BY <1>0, <3>5 DEF FailureHasKey
  <2> QED
    BY <1>0, <2>2, <2>3, <2>4 DEF FailureHasKey
<1>17. LanesGoOn'
  <2>1. stopped = failed
    BY DEF FetchInv, LanesGoOn
  <2>2. stopped' = failed'
    BY <1>0, <2>1
  <2>3. current /\ ~ failed' /\ remaining' # <<>> => tasks' # {}
    BY <1>6, <2>2
  <2> QED
    BY <1>0, <2>2, <2>3 DEF LanesGoOn
<1> QED
  BY <1>7, <1>8, <1>9, <1>10, <1>11, <1>12, <1>13, <1>14, <1>15, <1>16, <1>17 DEF FetchInv

-----------------------------------------------------------------------------
(* Waves *)

\* A wave begins with all its keys to take.
LEMMA BeginKeeps ==
    ASSUME FetchInv, Begin
    PROVE  FetchInv'
<1>1. PICK w \in Waves : wave' = w /\ remaining' = w.keys /\ toSpawn' = Lanes[w.method]
  BY DEF Begin
<1>2. /\ w.method \in Methods /\ w.keys \in Seq(Keys) /\ Distinct(w.keys)
      /\ Lanes[w.method] \in Nat \ {0}
  BY <1>1, ClassificationFetchAssumption DEF Distinct
<1>3. /\ tasks' = {} /\ values' = {} /\ stopped' = FALSE /\ failed' = FALSE
      /\ current' = TRUE /\ waves' = waves + 1 /\ UNCHANGED <<nextId, asked>>
  BY DEF Begin
<1>4. Fetching'
  <2>1. w.method # "none"
    BY <1>2 DEF Methods
  <2> QED
    BY <1>1, <2>1 DEF Fetching, NoWave
<1>5. FetchTypeOK' /\ IdleIsEmpty'
  <2>1. waves' \in Nat /\ nextId' \in 1..MaxId /\ asked' \in [1..(nextId' - 1) -> Keys]
    BY <1>3 DEF FetchInv, FetchTypeOK
  <2>2. {} \in SUBSET Tasks /\ {} \in SUBSET (Keys \X RpcValues)
    OBVIOUS
  <2>3. current' \in BOOLEAN /\ stopped' \in BOOLEAN /\ failed' \in BOOLEAN
    BY <1>3
  <2> QED
    BY <1>1, <1>2, <1>3, <1>4, <2>1, <2>2, <2>3 DEF FetchTypeOK, IdleIsEmpty
<1>6. KeysApart' /\ IdsAreOwned' /\ FoundIsTrue' /\ TasksAnswer'
  BY <1>1, <1>2, <1>3
     DEF KeysApart, KeysOf, IdsAreOwned, FoundIsTrue, FoundTrue, Single, TasksAnswer
<1>7. LanesHeld'
  <2>1. IsFiniteSet({}) /\ Cardinality({}) = 0
    BY FS_EmptySet
  <2> QED
    BY <1>1, <1>2, <1>3, <2>1 DEF LanesHeld
<1>8. NothingMissing' /\ KeysOfWave'
  BY <1>1, <1>3 DEF NothingMissing, KeysOfWave, KeysIn
<1>9. FailureHasKey' /\ LanesGoOn'
  BY <1>1, <1>2, <1>3 DEF FailureHasKey, LanesGoOn
<1> QED
  BY <1>5, <1>6, <1>7, <1>8, <1>9 DEF FetchInv

\* Nothing is left of a wave that returned.
LEMMA ReturnKeeps ==
    ASSUME FetchInv, Return
    PROVE  FetchInv'
<1>1. /\ wave' = NoWave /\ remaining' = <<>> /\ values' = {}
      /\ stopped' = FALSE /\ failed' = FALSE /\ tasks' = {} /\ toSpawn' = 0
      /\ UNCHANGED <<nextId, current, asked, waves>>
  BY DEF Return, Ended
<1>2. ~ Fetching'
  BY <1>1 DEF Fetching
<1>3. FetchTypeOK' /\ IdleIsEmpty'
  <2>1. <<>> \in Seq(Keys) /\ {} \in SUBSET (Keys \X RpcValues)
    OBVIOUS
  <2> QED
    BY <1>1, <2>1 DEF FetchInv, FetchTypeOK, IdleIsEmpty
<1>4. KeysApart'
  BY <1>1 DEF KeysApart, Distinct, KeysOf
<1>5. IdsAreOwned' /\ FoundIsTrue' /\ TasksAnswer'
  BY <1>1 DEF IdsAreOwned, FoundIsTrue, FoundTrue, Single, TasksAnswer
<1>6. LanesHeld'
  BY <1>1, <1>2, FS_EmptySet DEF LanesHeld
<1>7. NothingMissing' /\ KeysOfWave' /\ FailureHasKey' /\ LanesGoOn'
  BY <1>1, <1>2 DEF NothingMissing, KeysOfWave, FailureHasKey, LanesGoOn
<1> QED
  BY <1>3, <1>4, <1>5, <1>6, <1>7 DEF FetchInv

\* Only `current' changes, and only from true to false.
LEMMA SupersedeKeeps ==
    ASSUME FetchInv, Supersede
    PROVE  FetchInv'
<1>1. current' = FALSE /\ UNCHANGED <<nextId, asked, waves, fetchVars>>
  BY DEF Supersede
<1>2. FetchTypeOK' /\ IdleIsEmpty' /\ KeysApart' /\ IdsAreOwned'
  BY <1>1
     DEF FetchInv, FetchTypeOK, IdleIsEmpty, KeysApart, IdsAreOwned, Fetching, fetchVars
<1>3. FoundIsTrue' /\ TasksAnswer' /\ LanesHeld' /\ KeysOfWave'
  BY <1>1
     DEF FetchInv, FoundIsTrue, TasksAnswer, LanesHeld, KeysOfWave, Fetching, fetchVars
<1>4. NothingMissing' /\ FailureHasKey' /\ LanesGoOn'
  BY <1>1
     DEF FetchInv, NothingMissing, FailureHasKey, Spoilt, LanesGoOn, Fetching, fetchVars
<1> QED
  BY <1>2, <1>3, <1>4 DEF FetchInv

\* Before the first wave there is nothing.
LEMMA InitFetchInv ==
    ASSUME Init
    PROVE  FetchInv
<1>1. FetchTypeOK
  <2>1. 1 \in 1..MaxId
    BY ClassificationFetchAssumption
  <2>2. <<>> \in [1..(1 - 1) -> Keys] /\ <<>> \in Seq(Keys)
    OBVIOUS
  <2>3. {} \in SUBSET Tasks /\ {} \in SUBSET (Keys \X RpcValues)
    OBVIOUS
  <2> QED
    BY <2>1, <2>2, <2>3 DEF Init, FetchTypeOK
<1>2. IdleIsEmpty
  BY DEF Init, IdleIsEmpty
<1>3. KeysApart
  BY DEF Init, KeysApart, Distinct, KeysOf
<1>4. IdsAreOwned /\ FoundIsTrue /\ TasksAnswer
  BY DEF Init, IdsAreOwned, FoundIsTrue, FoundTrue, Single, TasksAnswer
<1>5. ~ Fetching
  BY DEF Init, Fetching
<1>6. LanesHeld
  BY <1>5, FS_EmptySet DEF Init, LanesHeld
<1>7. NothingMissing /\ KeysOfWave /\ FailureHasKey /\ LanesGoOn
  BY <1>5 DEF Init, NothingMissing, KeysOfWave, FailureHasKey, LanesGoOn
<1> QED
  BY <1>1, <1>2, <1>3, <1>4, <1>6, <1>7 DEF FetchInv

\* A step that changes nothing.
LEMMA StutterKeeps ==
    ASSUME FetchInv, UNCHANGED vars
    PROVE  FetchInv'
<1>1. UNCHANGED <<nextId, current, asked, waves, wave, remaining, toSpawn, tasks,
                  stopped, failed, values>>
  BY DEF vars, fetchVars
<1>2. FetchTypeOK' /\ IdleIsEmpty' /\ KeysApart' /\ IdsAreOwned'
  BY <1>1
     DEF FetchInv, FetchTypeOK, IdleIsEmpty, KeysApart, IdsAreOwned, Fetching
<1>3. FoundIsTrue' /\ TasksAnswer' /\ LanesHeld' /\ KeysOfWave'
  BY <1>1
     DEF FetchInv, FoundIsTrue, TasksAnswer, LanesHeld, KeysOfWave, Fetching
<1>4. NothingMissing' /\ FailureHasKey' /\ LanesGoOn'
  BY <1>1
     DEF FetchInv, NothingMissing, FailureHasKey, Spoilt, LanesGoOn, Fetching
<1> QED
  BY <1>2, <1>3, <1>4 DEF FetchInv

-----------------------------------------------------------------------------
(* Theorems *)

\* The state of a fetch, its lanes and its client is always as FetchInv says:
\* whatever the node and the connection do, keys are never in two places, ids
\* are owned and values are true.
THEOREM FetchInvariant == Spec => []FetchInv
<1>1. Init => FetchInv
  BY InitFetchInv
<1>2. FetchInv /\ [Next]_vars => FetchInv'
  <2> SUFFICES ASSUME FetchInv, [Next]_vars PROVE FetchInv'
    OBVIOUS
  <2>1. CASE Begin
    BY <2>1, BeginKeeps
  <2>2. CASE SpawnLane
    BY <2>2, SpawnLaneKeeps
  <2>3. CASE Return
    BY <2>3, ReturnKeeps
  <2>4. CASE \E t \in tasks : Reserve(t) \/ Respond(t) \/ LoseTask(t) \/ Join(t)
    <3>1. PICK t \in tasks : Reserve(t) \/ Respond(t) \/ LoseTask(t) \/ Join(t)
      BY <2>4
    <3> QED
      BY <3>1, ReserveKeeps, RespondKeeps, LoseTaskKeeps, JoinKeeps
  <2>5. CASE Supersede
    BY <2>5, SupersedeKeeps
  <2>6. CASE Done
    BY <2>6, StutterKeeps DEF Done
  <2>7. CASE UNCHANGED vars
    BY <2>7, StutterKeeps
  <2> QED
    BY <2>1, <2>2, <2>3, <2>4, <2>5, <2>6, <2>7 DEF Next, FetchStep
<1> QED
  BY <1>1, <1>2, PTL DEF Spec

\* The ids of a batch that is out were given to its own requests: no other lane
\* reserves them, and the end of the counter is an error, never a second round
\* (ClassificationRpcClient::reserve_ids).
THEOREM FetchRequestsOwnTheirIds == Spec => []RequestsOwnTheirIds
<1>1. FetchInv => RequestsOwnTheirIds
  BY DEF FetchInv, IdsAreOwned, OwnsIds, RequestsOwnTheirIds
<1> QED
  BY <1>1, FetchInvariant, PTL

\* What fetch_raw_transactions_concurrently and
\* fetch_confirmed_prevouts_concurrently report of a key is what the node said
\* of that key, in whatever order the lanes and the answers come.
THEOREM FetchAnswersAreTrue == Spec => []AnswersAreTrue
<1>1. FetchInv => AnswersAreTrue
  BY DEF FetchInv, FoundIsTrue, FoundTrue, TrueOf, AnswersAreTrue
<1> QED
  BY <1>1, FetchInvariant, PTL

\* No key gets two values, no more batches are out than there are lanes, and a
\* wave that ended under its own generation reports a failure exactly when a key
\* of it got no value or a systemic one.
THEOREM FetchRequestsAreAccounted == Spec => []RequestsAreAccounted
<1>1. FetchInv => RequestsAreAccounted
  <2> SUFFICES ASSUME FetchInv PROVE RequestsAreAccounted
    OBVIOUS
  <2>1. \A kv, other \in values : kv[1] = other[1] => kv = other
    BY DEF FetchInv, FoundIsTrue, FoundTrue, Single
  <2>2. Fetching => Cardinality(tasks) <= Lanes[wave.method]
    <3> SUFFICES ASSUME Fetching PROVE Cardinality(tasks) <= Lanes[wave.method]
      OBVIOUS
    <3>1. /\ Cardinality(tasks) + toSpawn <= Lanes[wave.method]
          /\ Cardinality(tasks) \in Nat /\ toSpawn \in Nat
      BY FS_CardinalityType DEF FetchInv, FetchTypeOK, LanesHeld
    <3>2. Lanes[wave.method] \in Nat
      BY ClassificationFetchAssumption DEF FetchInv, FetchTypeOK, Fetching
    <3> QED
      BY <3>1, <3>2
  <2>3. ASSUME Ended, current
        PROVE  failed <=> \E i \in DOMAIN wave.keys :
                              \A kv \in values : kv[1] = wave.keys[i] =>
                                  kv[2] = SystemicFailure
    <3>1. Fetching /\ toSpawn = 0 /\ tasks = {}
      BY <2>3 DEF Ended
    <3>2. CASE failed
      BY <3>2 DEF FetchInv, FailureHasKey, Spoilt
    <3>3. CASE ~ failed
      <4>1. remaining = <<>>
        BY <2>3, <3>1, <3>3 DEF FetchInv, LanesGoOn
      <4>2. KeysIn(remaining) = {}
        BY <4>1 DEF KeysIn
      <4>3. /\ \A i \in DOMAIN wave.keys : wave.keys[i] \in KeysOf(values)
            /\ \A kv \in values : kv[2] # SystemicFailure
        BY <3>1, <3>3, <4>2 DEF FetchInv, NothingMissing
      <4> QED
        BY <3>3, <4>3 DEF KeysOf
    <3> QED
      BY <3>2, <3>3
  <2> QED
    BY <2>1, <2>2, <2>3 DEF RequestsAreAccounted
<1> QED
  BY <1>1, FetchInvariant, PTL
=============================================================================
