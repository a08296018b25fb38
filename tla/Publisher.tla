----------------------------- MODULE Publisher -----------------------------
(***************************************************************************)
(* CurrentStatePublisher of src/src/runtime/publisher.rs as the code runs  *)
(* it.  A publication reads the state under the read lock, releases the    *)
(* lock, materializes and encodes a response on a blocking worker, and     *)
(* then takes the write lock to re-check what it read: it commits,         *)
(* gives up because it was superseded, or goes round its loop.  Between    *)
(* those steps other tasks publish to the same source.                     *)
(*                                                                         *)
(* A caller is one task: pc is where its current call stands, arg the      *)
(* call's arguments and seen what the call last read.  Reader is one HTTP  *)
(* client with its cached copy, which outlives a restart of the process.   *)
(***************************************************************************)
EXTENDS PublisherState

CONSTANTS
    MembershipTasks,        \* tasks that run membership rounds
    ClassificationTasks,    \* tasks that publish classification slices
    Variants,               \* memberships a collection may return
    ClassificationInputs,   \* classification maps a pipeline may hand over
    MaxGeneration,          \* bound on the generations handed over
    MaxRevision,            \* bound on the revisions handed over
    MaxClock                \* bound on wall-clock ticks, hence on calls

ASSUME PublisherAssumption ==
    /\ Variants \subseteq VariantMap
    /\ ClassificationInputs \subseteq ClassificationMap
    /\ MaxGeneration \in Nat /\ MaxRevision \in Nat /\ MaxClock \in Nat

Callers == MembershipTasks \cup ClassificationTasks

VARIABLES
    pc,     \* caller -> where its call stands
    arg,    \* caller -> arguments of its call
    seen,   \* caller -> what its call last read under the read lock
    reader, \* the response an HTTP client holds
    clock,  \* wall clock; every call of the environment takes a tick
    boot    \* the tick at which the running process started

callVars == <<pc, arg, seen>>

vars == <<readerVars, callVars, reader, clock, boot>>

Argument ==
    [op : {"membership"}, generation : Nat,
     lifecycle : {"classifying", "complete"},
     membership : Membership, classifications : ClassificationMap]
    \cup
    [op : {"update"}, generation : Nat, lifecycle : Lifecycles,
     revision : Nat, classifications : ClassificationMap]
    \cup
    [op : {"lifecycle"}, generation : Nat, lifecycle : Lifecycles]
    \cup
    [op : {"failure"}, error : Errors]

\* What a call can read under the read lock.
View ==
    [status          |-> statusRevision,
     generation      |-> generation,
     revision        |-> revision,
     poll            |-> lastPoll,
     error           |-> lastError,
     lifecycle       |-> lifecycle,
     latest          |-> latest,
     membership      |-> membership,
     classifications |-> classifications]

Views ==
    [status : Nat, generation : Nat, revision : Nat, poll : Option(Nat),
     error : Option(Errors), lifecycle : Option(Lifecycles),
     latest : Option(Snapshot), membership : Option(Membership),
     classifications : ClassificationMap]

-----------------------------------------------------------------------------
(* Steps common to all calls *)

Tick == clock < MaxClock /\ clock' = clock + 1

Call(c, a, step) ==
    /\ pc[c] = "idle"
    /\ Tick
    /\ pc' = [pc EXCEPT ![c] = step]
    /\ arg' = [arg EXCEPT ![c] = a]
    /\ UNCHANGED <<readerVars, seen, reader, boot>>

\* The call ends; the caller forgets what it read.
EndCall(c) ==
    /\ pc' = [pc EXCEPT ![c] = "idle"]
    /\ arg' = [arg EXCEPT ![c] = None]
    /\ seen' = [seen EXCEPT ![c] = None]
    /\ UNCHANGED <<reader, clock, boot>>

\* The call returns Ok(false) because it was superseded, or Ok(true) because
\* there was nothing left to publish.
Return(c) == EndCall(c) /\ UNCHANGED readerVars

\* The call returns an error.
Fail(c) == EndCall(c) /\ UNCHANGED readerVars

\* Mutant: the loop goes on without reading.
ReadAgainSkipsRead(c) ==
    /\ pc' = [pc EXCEPT ![c] = "encode"]
    /\ UNCHANGED <<readerVars, arg, seen, reader, clock, boot>>

\* The loop of a call starts (again) with a fresh read.
ReadAgain(c) ==
    /\ pc' = [pc EXCEPT ![c] = "read"]
    /\ seen' = [seen EXCEPT ![c] = None]
    /\ UNCHANGED <<readerVars, arg, reader, clock, boot>>

Capture(c) ==
    /\ pc' = [pc EXCEPT ![c] = "encode"]
    /\ seen' = [seen EXCEPT ![c] = View]
    /\ UNCHANGED <<readerVars, arg, reader, clock, boot>>

\* The blocking worker that materializes or encodes is lost, or encoding
\* fails: the call returns the error and leaves the state alone.
WorkerFails(c) ==
    /\ pc[c] \in {"check", "encode"}
    /\ Fail(c)

-----------------------------------------------------------------------------
(* record_poll_started *)

RecordPollStarted(c) ==
    /\ pc[c] = "idle"
    /\ Tick
    /\ StorePollStart(clock + 1)
    /\ UNCHANGED <<callVars, reader, boot>>

-----------------------------------------------------------------------------
(* publish_membership *)

\* install_snapshot hands over a generation; it has no eligible work only if
\* every entry carries a classification.
CallPublishMembership(c) ==
    \E g \in 1 .. MaxGeneration, v \in Variants, k \in ClassificationInputs,
       state \in {"classifying", "complete"} :
        /\ state = "complete" => Present(v) \subseteq Present(k)
        /\ Call(c, [op |-> "membership", generation |-> g, lifecycle |-> state,
                    membership |-> [observed |-> clock + 1, variants |-> v],
                    classifications |-> k],
                "check")

\* The checks before the loop, and the materialization they guard.
CheckMembership(c) ==
    LET a == arg[c]
    IN  /\ pc[c] = "check"
        /\ \/ /\ ExceedsMembership(a.classifications, a.membership)
              /\ Fail(c)
           \/ /\ ~ ExceedsMembership(a.classifications, a.membership)
              /\ generation >= a.generation
              /\ Return(c)
           \/ /\ ~ ExceedsMembership(a.classifications, a.membership)
              /\ generation < a.generation
              /\ IF MatchesMembership(a.membership, a.classifications)
                 THEN ReadAgain(c)
                 ELSE Fail(c)

ReadMembership(c) ==
    /\ pc[c] = "read" /\ arg[c].op = "membership"
    /\ IF generation >= arg[c].generation
       THEN Return(c)
       ELSE Capture(c)

MembershipUnchanged(c) ==
    /\ statusRevision = seen[c].status
    /\ generation = seen[c].generation

CommitMembership(c) ==
    LET a == arg[c]
    IN  /\ pc[c] = "encode" /\ a.op = "membership"
        /\ \/ generation >= a.generation /\ Return(c)
           \/ generation < a.generation /\ ~ MembershipUnchanged(c)
                /\ ReadAgain(c)
           \/ /\ generation < a.generation /\ MembershipUnchanged(c)
              /\ StoreMembership(
                    a.generation, a.membership, a.classifications, a.lifecycle,
                    Encode(seen[c].poll,
                           Materialize(a.membership, 0, a.classifications),
                           a.lifecycle, None))
              /\ EndCall(c)

-----------------------------------------------------------------------------
(* publish_classification_update with a delta *)

\* A slice runs for a generation that this publisher has published.
CallPublishUpdate(c) ==
    \E g \in 1 .. generation, r \in 1 .. MaxRevision,
       k \in ClassificationInputs, state \in Lifecycles :
        Call(c, [op |-> "update", generation |-> g, lifecycle |-> state,
                 revision |-> r, classifications |-> k],
             "read")

UpdatedClassifications(v, a) ==
    Accumulate(v.classifications, a.classifications)

CanMaterialize(m, k) ==
    /\ m # None
    /\ ~ ExceedsMembership(k, m)
    /\ MatchesMembership(m, k)

\* The guarded read, and the accumulation and materialization that use only
\* what it returned.
ReadUpdate(c) ==
    LET a == arg[c]
        k == UpdatedClassifications(View, a)
        current == generation = a.generation /\ revision < a.revision
    IN  /\ pc[c] = "read" /\ a.op = "update"
        /\ \/ ~ current /\ Return(c)
           \/ current /\ a.revision # revision + 1 /\ Fail(c)
           \/ /\ current /\ a.revision = revision + 1
              /\ IF CanMaterialize(membership, k) THEN Capture(c)
                                                 ELSE Fail(c)

\* Mutant: only the revision is compared before an update commits.
SupersededByRevisionOnly(c) == revision # seen[c].revision

UpdateSuperseded(c) ==
    \/ generation # arg[c].generation
    \/ revision # seen[c].revision

\* A commit that lost a race only with a status change takes the new poll
\* time and error and encodes again; it does not read the rest anew.
RefreshUpdate(c) ==
    /\ seen' = [seen EXCEPT ![c] = [@ EXCEPT !.status = statusRevision,
                                             !.poll = lastPoll,
                                             !.error = lastError]]
    /\ UNCHANGED <<readerVars, pc, arg, reader, clock, boot>>

CommitUpdate(c) ==
    LET a == arg[c]
        v == seen[c]
        k == UpdatedClassifications(v, a)
        snapshot == Materialize(v.membership, a.revision, k)
    IN  /\ pc[c] = "encode" /\ a.op = "update"
        /\ \/ UpdateSuperseded(c) /\ Return(c)
           \/ ~ UpdateSuperseded(c) /\ statusRevision # v.status
                /\ RefreshUpdate(c)
           \/ /\ ~ UpdateSuperseded(c) /\ statusRevision = v.status
              /\ StoreUpdate(a.revision, snapshot, k, a.lifecycle,
                             Encode(v.poll, snapshot, a.lifecycle, v.error))
              /\ EndCall(c)

-----------------------------------------------------------------------------
(* publish_lifecycle: an update without a delta *)

CallPublishLifecycle(c) ==
    \E g \in 1 .. generation, state \in Lifecycles :
        Call(c, [op |-> "lifecycle", generation |-> g, lifecycle |-> state],
             "read")

ReadLifecycle(c) ==
    LET a == arg[c]
    IN  /\ pc[c] = "read" /\ a.op = "lifecycle"
        /\ \/ generation # a.generation /\ Return(c)
           \/ /\ generation = a.generation
              /\ IF latest = None THEN Fail(c)
                 ELSE IF lifecycle = a.lifecycle THEN Return(c)
                 ELSE Capture(c)

\* Mutant: a status change between read and commit goes unnoticed.
LifecycleIgnoresStatus(c) == revision = seen[c].revision

LifecycleUnchanged(c) ==
    /\ statusRevision = seen[c].status
    /\ revision = seen[c].revision

CommitLifecycle(c) ==
    LET a == arg[c]
        v == seen[c]
    IN  /\ pc[c] = "encode" /\ a.op = "lifecycle"
        /\ \/ generation # a.generation /\ Return(c)
           \/ generation = a.generation /\ ~ LifecycleUnchanged(c)
                /\ ReadAgain(c)
           \/ /\ generation = a.generation /\ LifecycleUnchanged(c)
              /\ StoreLifecycle(a.lifecycle,
                                Encode(v.poll, v.latest, a.lifecycle, v.error))
              /\ EndCall(c)

-----------------------------------------------------------------------------
(* publish_failure *)

CallPublishFailure(c) ==
    \E e \in Errors : Call(c, [op |-> "failure", error |-> e], "read")

ReadFailure(c) ==
    /\ pc[c] = "read" /\ arg[c].op = "failure"
    /\ Capture(c)

\* Mutant: a status change between read and commit goes unnoticed.
FailureIgnoresStatus(c) ==
    /\ generation = seen[c].generation
    /\ revision = seen[c].revision

FailureUnchanged(c) ==
    /\ statusRevision = seen[c].status
    /\ generation = seen[c].generation
    /\ revision = seen[c].revision

CommitFailure(c) ==
    LET a == arg[c]
        v == seen[c]
    IN  /\ pc[c] = "encode" /\ a.op = "failure"
        /\ \/ ~ FailureUnchanged(c) /\ ReadAgain(c)
           \/ /\ FailureUnchanged(c)
              /\ StoreFailure(a.error,
                              Encode(v.poll, v.latest, v.lifecycle, a.error))
              /\ EndCall(c)

-----------------------------------------------------------------------------
(* The HTTP reader and the process *)

\* source_snapshot answers 304 to a reader that holds this response.
NotModified(held) ==
    ServedResponse.etag # None /\ held.etag = ServedResponse.etag

\* source_snapshot with the reader's ETag in If-None-Match: 304 keeps the
\* reader's copy, anything else replaces it.
ConditionalGet ==
    /\ reader' = IF reader # None /\ NotModified(reader)
                 THEN reader
                 ELSE ServedResponse
    /\ UNCHANGED <<readerVars, callVars, clock, boot>>

\* A crash or redeployment: calls in flight die with the process.
Restart ==
    /\ Tick
    /\ boot' = clock + 1
    /\ StateReset
    /\ pc' = [c \in Callers |-> "idle"]
    /\ arg' = [c \in Callers |-> None]
    /\ seen' = [c \in Callers |-> None]
    /\ UNCHANGED reader

Init ==
    /\ StateInit
    /\ pc = [c \in Callers |-> "idle"]
    /\ arg = [c \in Callers |-> None]
    /\ seen = [c \in Callers |-> None]
    /\ reader = None
    /\ clock = 0
    /\ boot = 0

MembershipTask(c) ==
    \/ RecordPollStarted(c)
    \/ CallPublishMembership(c)
    \/ CheckMembership(c)
    \/ ReadMembership(c)
    \/ CommitMembership(c)
    \/ CallPublishFailure(c)
    \/ ReadFailure(c)
    \/ CommitFailure(c)
    \/ WorkerFails(c)

ClassificationTask(c) ==
    \/ CallPublishUpdate(c)
    \/ ReadUpdate(c)
    \/ CommitUpdate(c)
    \/ CallPublishLifecycle(c)
    \/ ReadLifecycle(c)
    \/ CommitLifecycle(c)
    \/ WorkerFails(c)

Next ==
    \/ \E c \in MembershipTasks : MembershipTask(c)
    \/ \E c \in ClassificationTasks : ClassificationTask(c)
    \/ ConditionalGet
    \/ Restart

Spec == Init /\ [][Next]_vars

-----------------------------------------------------------------------------
(* Properties *)

\* Type correctness: every field holds what its Rust type allows, and a call
\* has arguments while it runs and a view while it encodes, of a membership
\* if it is to extend one.
TypeOK ==
    /\ StateTypeOK
    /\ reader \in Option(Response)
    /\ clock \in Nat
    /\ boot \in Nat
    /\ pc \in [Callers -> {"idle", "check", "read", "encode"}]
    /\ arg \in [Callers -> Option(Argument)]
    /\ seen \in [Callers -> Option(Views)]
    /\ \A c \in Callers :
          /\ pc[c] # "idle" => arg[c] \in Argument
          /\ pc[c] = "check" => arg[c].op = "membership"
          /\ pc[c] = "encode" =>
                /\ seen[c] \in Views
                /\ arg[c].op = "update" => seen[c].membership # None

\* The encoded response is never torn: although it was encoded outside the
\* lock from values read earlier, it shows the snapshot, lifecycle and error
\* that the state holds now.  Only the poll start time may be older, because
\* record_poll_started leaves the cached response alone.
CachedResponseCoherent ==
    cachedResponse # None =>
        cachedResponse.body =
            Encode(cachedResponse.body.poll, latest, lifecycle, lastError)

\* The visible snapshot, the retained membership and the looked-up
\* classifications belong to one revision: none shows a result for a variant
\* the membership does not contain, and a snapshot exists exactly when a
\* lifecycle does (the debug_assert in summary_from_parts).
SnapshotMatchesState ==
    /\ latest = None <=> membership = None
    /\ latest = None <=> lifecycle = None
    /\ latest = None <=> generation = 0
    /\ membership # None =>
          /\ latest = Materialize(membership, revision, classifications)
          /\ MatchesMembership(membership, classifications)

\* A 304 is safe: whenever the server would answer "not modified", the copy
\* the client holds is the response the server would send, even when the
\* process restarted in between and its response counter began again.
NotModifiedMeansUnchanged ==
    reader # None /\ NotModified(reader) => reader = ServedResponse

\* The browser accepts a transaction detail when its observation time and
\* revision agree with the snapshot it holds.  Then the detail is about the
\* variant and result that snapshot shows.
AcceptedDetailMatchesHeldSnapshot ==
    \A t \in Txids :
        LET detail == TransactionDetail(t)
            held == reader.body.snapshot
        IN  /\ latest # None /\ latest.variants[t] # None
            /\ classifications[t] # None
            /\ reader # None /\ held # None
            /\ held.observed = detail.observed
            /\ held.revision = detail.revision
            => /\ held.variants[t] = detail.classification.wtxid
               /\ held.results[t] = detail.classification.result

\* Publications never go back: within a process a step keeps the generation
\* or moves to a newer one at revision zero; within a generation revisions
\* advance one by one and no transaction loses its classification, so no
\* delta is skipped, applied twice or overwritten by a concurrent call.
PublicationOrder ==
    [][ boot' = boot =>
          \/ generation' > generation /\ revision' = 0
          \/ /\ generation' = generation
             /\ revision' \in {revision, revision + 1}
             /\ Present(classifications) \subseteq Present(classifications')
             /\ revision' = revision => classifications' = classifications
      ]_readerVars

\* Why the loops are sound.  What a call read and still finds unchanged is
\* current in everything the commit relies on: an unchanged status revision
\* stands for the poll time, the error and the lifecycle, an unchanged
\* generation and revision for the snapshot and the classifications.
ViewIsCurrentOrDetectablyOld(c) ==
    LET a == arg[c]
        v == seen[c]
    IN  /\ v.generation <= generation
        /\ v.generation = generation => v.revision <= revision
        /\ v.generation = generation /\ v.revision = revision =>
              /\ v.latest = latest
              /\ v.membership = membership
              /\ v.classifications = classifications
        /\ v.status <= statusRevision
        /\ v.status = statusRevision =>
              /\ v.generation = generation
              /\ v.poll = lastPoll
              /\ v.error = lastError
              /\ a.op # "update" => v.lifecycle = lifecycle

\* What the checks before the commit established about the call's arguments.
ArgumentsChecked(c) ==
    LET a == arg[c]
        v == seen[c]
    IN  /\ pc[c] \in {"read", "encode"} /\ a.op = "membership" =>
              MatchesMembership(a.membership, a.classifications)
        /\ pc[c] = "encode" /\ a.op = "update" =>
              /\ v.generation = a.generation
              /\ a.revision = v.revision + 1
              /\ MatchesMembership(v.membership, UpdatedClassifications(v, a))
        /\ pc[c] = "encode" /\ a.op = "lifecycle" =>
              /\ v.generation = a.generation
              /\ v.latest # None
              /\ v.lifecycle # a.lifecycle

CallsConsistent ==
    \A c \in Callers :
        /\ pc[c] = "encode" => ViewIsCurrentOrDetectablyOld(c)
        /\ pc[c] # "idle" => ArgumentsChecked(c)

\* Validators are unique: collections published by this process were
\* completed after it started, and a validator naming one of them has a
\* response number that this process has handed out.
FreshArguments ==
    /\ boot <= clock
    /\ \A c \in Callers :
          pc[c] # "idle" /\ arg[c].op = "membership" =>
            arg[c].membership.observed \in (boot + 1) .. clock

FreshState ==
    /\ latest # None => latest.observed \in (boot + 1) .. clock
    /\ cachedResponse # None /\ cachedResponse.etag # None =>
          /\ cachedResponse.etag.observed \in (boot + 1) .. clock
          /\ cachedResponse.etag.response = responseRevision

FreshReader ==
    reader # None /\ reader.etag # None =>
        /\ reader.etag.observed <= clock
        /\ reader.etag.observed > boot =>
              reader.etag.response <= responseRevision

ValidatorsFresh == FreshArguments /\ FreshState /\ FreshReader

Atomic == INSTANCE AtomicPublisher

\* Every behaviour of the loops is one in which each publication happens in
\* a single atomic step (docs/architecture.md: "One publication atomically
\* replaces ...").
ImplementsAtomicPublisher == Atomic!Spec
=============================================================================
