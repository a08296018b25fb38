--------------------------- MODULE PublisherState ---------------------------
(***************************************************************************)
(* The reader-visible state of one mempool source: the fields of           *)
(* CurrentState in src/src/runtime/publisher.rs, the operators that build  *)
(* a snapshot, a summary and an encoded response from them, and the        *)
(* effect of each critical section that holds the write lock.              *)
(*                                                                         *)
(* AtomicPublisher and Publisher both extend this module.  They differ     *)
(* only in when the response body is computed: in one step with the commit *)
(* (AtomicPublisher), or from values read earlier, outside the lock        *)
(* (Publisher, which is what the code does).                               *)
(***************************************************************************)
EXTENDS Naturals, FiniteSets

CONSTANTS
    Txids,      \* transaction ids that can appear in a mempool
    Wtxids,     \* witness ids: two variants of a transaction share a txid
    Results,    \* what the classifiers can conclude about one variant
    Errors,     \* public messages of a failed poll
    None        \* Rust's Option::None

ASSUME TxidsFinite == IsFiniteSet(Txids)

(***************************************************************************)
(* classification_generation is Option<u64>; generation ids start at 1, so *)
(* 0 stands for None and `is_some_and(|current| current >= g)' is          *)
(* generation >= g.  The u64 counters are unbounded here: they advance     *)
(* once per publication and do not wrap in the life of a process.          *)
(***************************************************************************)
VARIABLES
    lastPoll,           \* last_poll_started_at_ms
    membership,         \* the classification-free snapshot
    latest,             \* the materialized snapshot readers see
    classifications,    \* txid -> the classification readers can look up
    lastError,
    cachedResponse,     \* the encoded body and its ETag
    generation,
    revision,
    lifecycle,          \* classification_state
    statusRevision,
    responseRevision

readerVars == <<lastPoll, membership, latest, classifications, lastError,
                cachedResponse, generation, revision, lifecycle,
                statusRevision, responseRevision>>

-----------------------------------------------------------------------------
(* Data *)

Option(S) == S \cup {None}

Lifecycles == {"classifying", "complete", "paused"}

Classification == [wtxid : Wtxids, result : Results]

VariantMap == [Txids -> Option(Wtxids)]

ClassificationMap == [Txids -> Option(Classification)]

\* A membership snapshot is identified by its collection time.
Membership == [observed : Nat, variants : VariantMap]

Snapshot == [observed : Nat, revision : Nat, variants : VariantMap,
             results : [Txids -> Option(Results)]]

Progress == [state : Lifecycles, revision : Nat,
             classified : Nat, unclassified : Nat]

ResponseBody == [availability : {"waiting", "error", "ready", "stale"},
                 poll : Option(Nat), progress : Option(Progress),
                 error : Option(Errors), snapshot : Option(Snapshot)]

ETag == [observed : Nat, response : Nat]

Response == [body : ResponseBody, etag : Option(ETag)]

\* None is a value of its own, different from everything an option may hold.
ASSUME NoneIsNoValue ==
    /\ None \notin Nat
    /\ None \notin Wtxids
    /\ None \notin Results
    /\ None \notin Errors
    /\ None \notin Lifecycles
    /\ None \notin Classification
    /\ None \notin Membership
    /\ None \notin Snapshot
    /\ None \notin ETag
    /\ None \notin Response

StateTypeOK ==
    /\ lastPoll \in Option(Nat)
    /\ membership \in Option(Membership)
    /\ latest \in Option(Snapshot)
    /\ classifications \in ClassificationMap
    /\ lastError \in Option(Errors)
    /\ cachedResponse \in Option(Response)
    /\ generation \in Nat
    /\ revision \in Nat
    /\ lifecycle \in Option(Lifecycles)
    /\ statusRevision \in Nat
    /\ responseRevision \in Nat

NoClassifications == [t \in Txids |-> None]

Present(f) == {t \in Txids : f[t] # None}

-----------------------------------------------------------------------------
(* Pure helpers *)

\* MempoolObservation::new: every classification belongs to an entry of the
\* snapshot and to that entry's witness variant.
MatchesMembership(m, k) ==
    \A t \in Txids : k[t] # None => k[t].wtxid = m.variants[t]

\* MempoolObservation::materialize_retained, when it does not fail.
Materialize(m, r, k) ==
    [observed |-> m.observed,
     revision |-> r,
     variants |-> m.variants,
     results  |-> [t \in Txids |-> IF m.variants[t] = None \/ k[t] = None
                                   THEN None
                                   ELSE k[t].result]]

\* Mutant: the delta replaces what was retained.
AccumulateReplaces(k, changed) == changed

\* The publisher inserts each changed classification over the retained one.
Accumulate(k, changed) ==
    [t \in Txids |-> IF changed[t] # None THEN changed[t] ELSE k[t]]

ExceedsMembership(k, m) ==
    Cardinality(Present(k)) > Cardinality(Present(m.variants))

Availability(snapshot, error) ==
    IF snapshot = None
    THEN IF error = None THEN "waiting" ELSE "error"
    ELSE IF error = None THEN "ready" ELSE "stale"

\* ClassificationProgress::from_snapshot
ProgressOf(state, snapshot) ==
    [state        |-> state,
     revision     |-> snapshot.revision,
     classified   |-> Cardinality(Present(snapshot.results)),
     unclassified |-> Cardinality(Present(snapshot.variants)
                                    \ Present(snapshot.results))]

\* encode_response of summary_from_parts and the snapshot.
Encode(poll, snapshot, state, error) ==
    [availability |-> Availability(snapshot, error),
     poll         |-> poll,
     progress     |-> IF snapshot # None /\ state # None
                      THEN ProgressOf(state, snapshot)
                      ELSE None,
     error        |-> error,
     snapshot     |-> snapshot]

-----------------------------------------------------------------------------
(* Critical sections: what a holder of the write lock does. *)

StateInit ==
    /\ lastPoll = None
    /\ membership = None
    /\ latest = None
    /\ classifications = NoClassifications
    /\ lastError = None
    /\ cachedResponse = None
    /\ generation = 0
    /\ revision = 0
    /\ lifecycle = None
    /\ statusRevision = 0
    /\ responseRevision = 0

\* The process keeps nothing on disk: a restart starts from CurrentState's
\* default.
StateReset ==
    /\ lastPoll' = None
    /\ membership' = None
    /\ latest' = None
    /\ classifications' = NoClassifications
    /\ lastError' = None
    /\ cachedResponse' = None
    /\ generation' = 0
    /\ revision' = 0
    /\ lifecycle' = None
    /\ statusRevision' = 0
    /\ responseRevision' = 0

\* Mutant: the validator carries only the response number.
ReplaceCachedResponseUndated(body) ==
    /\ responseRevision' = responseRevision + 1
    /\ cachedResponse' =
         [body |-> body,
          etag |-> IF latest' = None
                   THEN None
                   ELSE [observed |-> 0, response |-> responseRevision + 1]]

ReplaceCachedResponse(body) ==
    /\ responseRevision' = responseRevision + 1
    /\ cachedResponse' =
         [body |-> body,
          etag |-> IF latest' = None
                   THEN None
                   ELSE [observed |-> latest'.observed,
                         response |-> responseRevision + 1]]

StorePollStart(time) ==
    /\ lastPoll' = time
    /\ statusRevision' = statusRevision + 1
    /\ UNCHANGED <<membership, latest, classifications, lastError,
                   cachedResponse, generation, revision, lifecycle,
                   responseRevision>>

StoreMembership(g, m, k, state, body) ==
    /\ membership' = m
    /\ latest' = Materialize(m, 0, k)
    /\ classifications' = k
    /\ lastError' = None
    /\ generation' = g
    /\ revision' = 0
    /\ lifecycle' = state
    /\ statusRevision' = statusRevision + 1
    /\ ReplaceCachedResponse(body)
    /\ UNCHANGED lastPoll

\* status_revision advances only when the lifecycle itself changes.
StoreUpdate(r, snapshot, k, state, body) ==
    /\ latest' = snapshot
    /\ classifications' = k
    /\ revision' = r
    /\ lifecycle' = state
    /\ statusRevision' = IF lifecycle # state THEN statusRevision + 1
                                              ELSE statusRevision
    /\ ReplaceCachedResponse(body)
    /\ UNCHANGED <<lastPoll, membership, lastError, generation>>

StoreLifecycle(state, body) ==
    /\ lifecycle' = state
    /\ latest' = latest
    /\ statusRevision' = statusRevision + 1
    /\ ReplaceCachedResponse(body)
    /\ UNCHANGED <<lastPoll, membership, classifications, lastError,
                   generation, revision>>

StoreFailure(error, body) ==
    /\ lastError' = error
    /\ latest' = latest
    /\ statusRevision' = statusRevision + 1
    /\ ReplaceCachedResponse(body)
    /\ UNCHANGED <<lastPoll, membership, classifications, generation,
                   revision, lifecycle>>

-----------------------------------------------------------------------------
(* What readers are given, under the read lock. *)

\* snapshot_response_payload: the cached response, or one encoded on demand
\* and without a validator before the first publication.
ServedResponse ==
    IF cachedResponse # None
    THEN cachedResponse
    ELSE [body |-> Encode(lastPoll, latest, lifecycle, lastError),
          etag |-> None]

\* Mutant: the detail does not say which revision it comes from.
TransactionDetailUnrevised(t) ==
    CASE latest = None -> "waiting_for_snapshot"
      [] latest # None /\ latest.variants[t] = None -> "not_present"
      [] latest # None /\ latest.variants[t] # None
           /\ classifications[t] = None -> "unclassified"
      [] OTHER -> [observed |-> latest.observed,
                   revision |-> 0,
                   classification |-> classifications[t]]

\* CurrentStatePublisher::transaction_detail
TransactionDetail(t) ==
    CASE latest = None -> "waiting_for_snapshot"
      [] latest # None /\ latest.variants[t] = None -> "not_present"
      [] latest # None /\ latest.variants[t] # None
           /\ classifications[t] = None -> "unclassified"
      [] OTHER -> [observed |-> latest.observed,
                   revision |-> revision,
                   classification |-> classifications[t]]
=============================================================================
