------------------------- MODULE ClassificationFetch -------------------------
(***************************************************************************)
(* fetch_raw_transactions_concurrently and                                 *)
(* fetch_confirmed_prevouts_concurrently of src/src/classification.rs: a   *)
(* wave of requests is cut into batches, several lanes send them at once   *)
(* through one client, and their answers are collected as they come.  The  *)
(* waves of a pipeline follow one another (ClassificationPipeline asks for *)
(* them); the node and the connection answer as they like.                 *)
(***************************************************************************)
EXTENDS ClassificationRpc, RpcTransport, SequencesExt

CONSTANTS
    Waves,              \* the waves the pipeline may ask for:
                        \*   [method, keys], a method and a sequence of keys
    Existing,           \* the keys the node knows
    Lanes,              \* [method -> rpc_lanes or prevout_rpc_lanes]
    BatchSize,          \* [method -> RAW_TRANSACTION_BATCH_SIZE or
                        \*   maximum_confirmed_prevouts_per_batch]
    EstimatedBytes,     \* [Keys -> estimated response bytes]
    MaxWaves            \* bound: waves in a behaviour

Methods == {"getrawtransaction", "gettxout"}

ASSUME ClassificationFetchAssumption ==
    /\ MaxId \in Nat \ {0}
    /\ Existing \subseteq Keys /\ Garbage \notin Keys
    /\ Waves \subseteq [method : Methods, keys : Seq(Keys)]
    /\ \A w \in Waves : \A i, j \in DOMAIN w.keys : w.keys[i] = w.keys[j] => i = j
    /\ Lanes \in [Methods -> Nat \ {0}]
    /\ BatchSize \in [Methods -> Nat \ {0}]
    /\ EstimatedBytes \in [Keys -> Nat]
    /\ MaxWaves \in Nat

VARIABLES
    nextId,     \* ClassificationRpcClient::next_id
    wave,       \* the wave being fetched
    current,    \* is_current_generation for the wave's generation
    remaining,  \* keys of the wave that no batch has taken
    toSpawn,    \* initial lanes the fetch still has to consider
    tasks,      \* the tasks of the JoinSet
    stopped,    \* stop_scheduling
    failed,     \* batch_failures, systemic_response_failures or
                \* all_missing_batches is not zero
    values,     \* ConcurrentFetch::values: <<key, RpcValue>>
    asked,      \* history: the key each id was given to
    waves       \* history: waves begun

fetchVars == <<wave, remaining, toSpawn, tasks, stopped, failed, values>>
vars == <<nextId, current, asked, waves, fetchVars>>

NoWave == [method |-> "none", keys |-> <<>>]

Fetching == wave # NoWave

Init ==
    /\ nextId = 1
    /\ wave = NoWave /\ current = TRUE
    /\ remaining = <<>> /\ toSpawn = 0 /\ tasks = {}
    /\ stopped = FALSE /\ failed = FALSE /\ values = {}
    /\ asked = <<>> /\ waves = 0

-----------------------------------------------------------------------------
(* Batches *)

BatchBytes(keys) == FoldLeft(LAMBDA sum, k : sum + EstimatedBytes[k], 0, keys)

\* How many of the keys the next batch takes: as many as the limits allow, but
\* always one.
FitsBatch(method, keys) ==
    /\ Len(keys) <= BatchSize[method]
    /\ BatchBytes(keys) <= MaxResponseBytes \/ Len(keys) = 1

NextBatchLength(method, keys) ==
    CHOOSE n \in 1..Len(keys) :
        /\ FitsBatch(method, SubSeq(keys, 1, n))
        /\ n < Len(keys) => ~ FitsBatch(method, SubSeq(keys, 1, n + 1))

\* A task takes the first keys that remain; `start' is the first of its ids,
\* 0 until it has reserved them.  A finished task holds its result.
NewTask(method, keys) ==
    [keys  |-> SubSeq(keys, 1, NextBatchLength(method, keys)), start |-> 0,
     done  |-> FALSE, failed |-> FALSE, values |-> {}, stop |-> FALSE]

\* Mutant: the last key of a batch is left for the next one too.
RestOverlapping(method, keys) ==
    IF NextBatchLength(method, keys) = 1 THEN Tail(keys)
    ELSE SubSeq(keys, NextBatchLength(method, keys), Len(keys))

Rest(method, keys) ==
    SubSeq(keys, NextBatchLength(method, keys) + 1, Len(keys))

-----------------------------------------------------------------------------
(* The fetch *)

\* The pipeline asks for a wave.
Begin ==
    /\ ~ Fetching /\ waves < MaxWaves
    /\ \E w \in Waves :
        /\ wave' = w
        /\ remaining' = w.keys
        /\ toSpawn' = Lanes[w.method]
    /\ tasks' = {} /\ stopped' = FALSE /\ failed' = FALSE /\ values' = {}
    /\ current' = TRUE
    /\ waves' = waves + 1
    /\ UNCHANGED <<nextId, asked>>

\* One turn of the loop over the lanes.
SpawnLane ==
    /\ Fetching /\ toSpawn > 0
    /\ IF current /\ remaining # <<>>
       THEN /\ tasks' = tasks \cup {NewTask(wave.method, remaining)}
            /\ remaining' = Rest(wave.method, remaining)
            /\ toSpawn' = toSpawn - 1
       ELSE toSpawn' = 0 /\ UNCHANGED <<tasks, remaining>>
    /\ UNCHANGED <<nextId, current, asked, waves, wave, stopped, failed, values>>

Replace(t, u) == tasks' = (tasks \ {t}) \cup {u}

\* The task returns an error.
FailTask(t) == Replace(t, [t EXCEPT !.done = TRUE, !.failed = TRUE])

Reserved(t) ==
    [id \in DOMAIN asked \cup IdsOf(nextId, Len(t.keys)) |->
        IF id \in IdsOf(nextId, Len(t.keys))
        THEN t.keys[id - nextId + 1] ELSE asked[id]]

\* Mutant: one id is counted for a batch, as the membership client does.
ReserveOne(t) ==
    /\ ~ t.done /\ t.start = 0
    /\ IF BatchBytes(t.keys) > MaxResponseBytes \/ ~ CanReserve(nextId, Len(t.keys))
       THEN FailTask(t) /\ UNCHANGED <<nextId, asked>>
       ELSE /\ nextId' = nextId + 1
            /\ Replace(t, [t EXCEPT !.start = nextId])
            /\ asked' = Reserved(t)
    /\ UNCHANGED <<current, waves, wave, remaining, toSpawn, stopped, failed, values>>

\* The blocking task checks its estimate and reserves its ids.
Reserve(t) ==
    /\ ~ t.done /\ t.start = 0
    /\ IF BatchBytes(t.keys) > MaxResponseBytes \/ ~ CanReserve(nextId, Len(t.keys))
       THEN FailTask(t) /\ UNCHANGED <<nextId, asked>>
       ELSE /\ nextId' = nextId + Len(t.keys)
            /\ Replace(t, [t EXCEPT !.start = nextId])
            /\ asked' = Reserved(t)
    /\ UNCHANGED <<current, waves, wave, remaining, toSpawn, stopped, failed, values>>

\* What the node may say of a key: the truth, in one of the shapes a member can
\* have, or a failure.  Asked for a raw transaction it may also return another
\* one, such as a variant with another witness.
AnswersAbout(id, key) ==
    {Answer(id, TRUE, e, "missing", Garbage) : e \in {"systemic", "other", "garbage"}}
    \cup {Answer(id, TRUE, "missing", "missing", Garbage),
          Answer(id, TRUE, "missing", "value", Garbage)}
    \cup (IF key \in Existing
          THEN {Answer(id, p[1], p[2], "value", key) :
                  p \in BOOLEAN \X {"missing", "null"}}
          ELSE {Answer(id, TRUE, "missing", "null", Garbage)})
    \cup (IF wave.method = "getrawtransaction"
          THEN {Answer(id, TRUE, "missing", "value", k) : k \in Existing}
          ELSE {})

\* The documents that may come back for a batch: answers in any order, some
\* missing, some repeated, some that belong to another request of the client.
Documents(t) ==
    (UNION {[1..n -> UNION {AnswersAbout(id, asked[id]) : id \in DOMAIN asked}] :
               n \in 0..Len(t.keys)})
    \cup {[i \in 1..(Len(t.keys) + 1) |->
             Answer(t.start + i - 1, TRUE, "missing", "value", t.keys[1])]}

\* The answers the node gives to a batch it understood.
PlainDocument(t) ==
    [i \in DOMAIN t.keys |->
        CHOOSE a \in AnswersAbout(t.start + i - 1, t.keys[i]) :
            a.version /\ a.error = "missing" /\ a.result # "missing"]

\* A response is read, decoded and turned into the task's result.
Settle(t, arrives, body) ==
    IF arrives /\ WellFormed(body, t.start, Len(t.keys))
    THEN LET batch == BatchValues(wave.method, t.keys, t.start, body)
         IN  Replace(t, [t EXCEPT !.done = TRUE, !.values = batch,
                                  !.stop = \E kv \in batch : kv[2] = SystemicFailure])
    ELSE FailTask(t)

Respond(t) ==
    /\ ~ t.done /\ t.start # 0
    /\ \/ \E body \in Documents(t) : Settle(t, TRUE, body)
       \/ \E r \in HttpResponses : Settle(t, Arrives(r), PlainDocument(t))
    /\ UNCHANGED <<nextId, current, asked, waves, wave, remaining, toSpawn,
                   stopped, failed, values>>

\* The task itself is lost: spawn_blocking or the join fails.
LoseTask(t) ==
    /\ ~ t.done
    /\ FailTask(t)
    /\ UNCHANGED <<nextId, current, asked, waves, wave, remaining, toSpawn,
                   stopped, failed, values>>

\* Mutant: a failed batch does not stop the wave, nor is it reported.
JoinIgnoringFailures(t) ==
    /\ toSpawn = 0 /\ t.done
    /\ values' = values \cup t.values
    /\ stopped' = (stopped \/ t.stop)
    /\ failed' = (failed \/ t.stop)
    /\ IF ~ stopped' /\ current /\ remaining # <<>>
       THEN /\ tasks' = (tasks \ {t}) \cup {NewTask(wave.method, remaining)}
            /\ remaining' = Rest(wave.method, remaining)
       ELSE tasks' = tasks \ {t} /\ UNCHANGED remaining
    /\ UNCHANGED <<nextId, current, asked, waves, wave, toSpawn>>

\* Mutant: a batch that failed is sent again at once.
JoinRetrying(t) ==
    /\ toSpawn = 0 /\ t.done
    /\ values' = values \cup t.values
    /\ stopped' = (stopped \/ t.stop)
    /\ failed' = (failed \/ t.stop)
    /\ IF ~ stopped' /\ current /\ (t.failed \/ remaining # <<>>)
       THEN LET keys == IF t.failed THEN t.keys \o remaining ELSE remaining
            IN  /\ tasks' = (tasks \ {t}) \cup {NewTask(wave.method, keys)}
                /\ remaining' = Rest(wave.method, keys)
       ELSE tasks' = tasks \ {t} /\ UNCHANGED remaining
    /\ UNCHANGED <<nextId, current, asked, waves, wave, toSpawn>>

\* join_next: the result of a task is collected, and its lane takes the next
\* batch unless something systemic happened.
Join(t) ==
    /\ toSpawn = 0 /\ t.done
    /\ values' = values \cup t.values
    /\ stopped' = (stopped \/ t.stop \/ t.failed)
    /\ failed' = (failed \/ t.stop \/ t.failed)
    /\ IF ~ stopped' /\ current /\ remaining # <<>>
       THEN /\ tasks' = (tasks \ {t}) \cup {NewTask(wave.method, remaining)}
            /\ remaining' = Rest(wave.method, remaining)
       ELSE tasks' = tasks \ {t} /\ UNCHANGED remaining
    /\ UNCHANGED <<nextId, current, asked, waves, wave, toSpawn>>

Ended == Fetching /\ toSpawn = 0 /\ tasks = {}

\* The fetch returns and the pipeline uses its result.
Return ==
    /\ Ended
    /\ wave' = NoWave
    /\ remaining' = <<>> /\ stopped' = FALSE /\ failed' = FALSE /\ values' = {}
    /\ UNCHANGED <<nextId, current, asked, waves, toSpawn, tasks>>

\* Fresh membership is installed while the wave is fetched.
Supersede ==
    /\ Fetching /\ current
    /\ current' = FALSE
    /\ UNCHANGED <<nextId, asked, waves, fetchVars>>

Done == ~ Fetching /\ waves = MaxWaves /\ UNCHANGED vars

FetchStep ==
    \/ SpawnLane \/ Return
    \/ \E t \in tasks : Reserve(t) \/ Respond(t) \/ LoseTask(t) \/ Join(t)

Next == Begin \/ FetchStep \/ Supersede \/ Done

\* Every task ends: its request has a timeout (RPC_BATCH_TIMEOUT), and the
\* executor runs what can run.
Spec == Init /\ [][Next]_vars /\ WF_vars(FetchStep)

-----------------------------------------------------------------------------
(* Properties *)

\* What a request came to is what the node said about its own key, whatever
\* else came back in its batch: a script or transaction is that of the key, and
\* only a key the node does not know is reported as explicitly absent.  For
\* gettxout nothing but the id protects this.
AnswersAreTrue ==
    \A kv \in values :
        /\ kv[2].kind = "found" => kv[2].data = kv[1] /\ kv[1] \in Existing
        /\ kv[2].kind = "null" => kv[1] \notin Existing

\* The ids of requests that are out belong to those requests alone, even when
\* the counter has reached its end.
RequestsOwnTheirIds ==
    \A t \in tasks : t.start # 0 =>
        \A i \in DOMAIN t.keys : asked[t.start + i - 1] = t.keys[i]

\* A key is asked for once, so it gets at most one value, from one of at most
\* Lanes batches (debug_assert in both fetches).  A wave that ended under its own
\* generation reports a failure exactly when one of its requests failed
\* systemically or got no value at all; this is the reading
\* ClassificationPipeline makes of a wave.
RequestsAreAccounted ==
    /\ \A kv, other \in values : kv[1] = other[1] => kv = other
    /\ Fetching => Cardinality(tasks) <= Lanes[wave.method]
    /\ Ended /\ current =>
          (failed <=> \E i \in DOMAIN wave.keys :
                          \A kv \in values : kv[1] = wave.keys[i] =>
                              kv[2] = SystemicFailure)

\* A wave comes to an end, whatever the node answers.
WaveEnds == Fetching ~> ~ Fetching
=============================================================================
