---------------------------- MODULE AtlasRuntime ----------------------------
(***************************************************************************)
(* AtlasRuntime of src/src/runtime.rs: the membership rounds and the       *)
(* classification loop that share one RPC work gate over all sources.      *)
(*                                                                         *)
(* The two loops are the arms of one tokio::join!, so they interleave only *)
(* where they await: the gate, an RPC, a publication.  A publication is    *)
(* one step here, at the moment its commit holds the write lock; the       *)
(* module Publisher shows that the loops inside a publication amount to    *)
(* that.  Its reader-visible state is reduced to what scheduling depends   *)
(* on, and the classification pipeline to its current generation.          *)
(***************************************************************************)
EXTENDS Naturals, Sequences, FiniteSets

CONSTANTS
    NumSources,     \* configured sources, polled in order 0, 1, ...
    MaxWork,        \* bound on the slices a fresh generation may need
    MaxGeneration,  \* largest value of the u64 generation counter
    MaxRevision,    \* largest value of the u64 revision counter
    RoundWrap,      \* round ids wrap: number of values of the u64 round id
    Faults          \* what may fail around the two loops

\* AtlasRuntime::new refuses zero sources and more than four.
ASSUME AtlasRuntimeAssumption ==
    /\ NumSources \in 1 .. 4
    /\ MaxWork \in Nat
    /\ MaxGeneration \in Nat \ {0}
    /\ MaxRevision \in Nat \ {0}
    /\ RoundWrap \in Nat \ {0}
    /\ Faults \subseteq {"clock", "rpc", "publication"}

Sources == 0 .. NumSources - 1

VARIABLES
    gate,       \* rpc_work_gate: its holder, then the waiters in FIFO order
    pub,        \* source -> what its publisher shows (see Publisher)
    pipe,       \* source -> current generation of its pipeline
    wakeup,     \* classification_wakeup holds a permit
    pending,    \* classification_pending
    mpc,        \* where run_membership_rounds stands
    round,      \* round_id
    turn,       \* source whose turn it is in the round
    outcomes,   \* source -> outcome of its turn in the round
    cpc,        \* where run_classification stands
    active,     \* sources with work, in the classification loop
    next,       \* next_source_index
    source,     \* source_index being classified
    expected,   \* expected_generation of the slice
    report,     \* result of the slice, until it is published
    skipped     \* history: turns given to others while a source was active

membershipVars == <<mpc, round, turn, outcomes>>
classificationVars == <<cpc, active, next, source, expected, report, skipped>>
vars == <<gate, pub, pipe, wakeup, pending, membershipVars, classificationVars>>

-----------------------------------------------------------------------------
(* Data *)

\* Generation 0 stands for None; poll is the round of the last poll start.
Published == [generation : Nat, revision : Nat, failed : BOOLEAN,
              lifecycle : {"none", "classifying", "complete", "paused"},
              poll : Nat]

\* work bounds the slices the generation can still take: 0 when no eligible
\* transaction remains.
Generation == [generation : Nat, revision : Nat, work : Nat]

\* "failed" is RuntimeError::Rpc, "other" is every other error.
Outcome == [kind : {"none", "installed", "failed", "other"},
            generation : Nat, eligible : BOOLEAN]

NoOutcome == [kind |-> "none", generation |-> 0, eligible |-> FALSE]

\* revision 0: the slice classified nothing and carries no delta.
Report == [kind : {"none", "stale", "error", "continue", "complete", "paused"},
           revision : Nat]

NoReport == [kind |-> "none", revision |-> 0]

Init ==
    /\ gate = <<>>
    /\ pub = [s \in Sources |-> [generation |-> 0, revision |-> 0,
                                 failed |-> FALSE, lifecycle |-> "none",
                                 poll |-> 0]]
    /\ pipe = [s \in Sources |-> [generation |-> 0, revision |-> 0, work |-> 0]]
    /\ wakeup = FALSE
    /\ pending = {}
    /\ mpc = "interval"
    /\ round = 0
    /\ turn = 0
    /\ outcomes = [s \in Sources |-> NoOutcome]
    /\ cpc = "wait"
    /\ active = {}
    /\ next = 0
    /\ source = 0
    /\ expected = 0
    /\ report = NoReport
    /\ skipped = [s \in Sources |-> 0]

-----------------------------------------------------------------------------
(* The gate: a fair semaphore with one permit. *)

Acquire(task) == gate' = Append(gate, task)

\* Mutant: run without waiting for the permit.
HoldsWithoutWaiting(task) == TRUE

Holds(task) == gate # <<>> /\ Head(gate) = task

Release == gate' = Tail(gate)

-----------------------------------------------------------------------------
(* Membership rounds *)

\* The interval ticks; the round asks for the gate.
RoundBegins ==
    /\ mpc = "interval"
    /\ round' = (round + 1) % RoundWrap
    /\ mpc' = "poll"
    /\ Acquire("membership")
    /\ UNCHANGED <<pub, pipe, wakeup, pending, turn, outcomes,
                   classificationVars>>

\* Mutant: the first failure ends the round (break for continue).
EndTurnBreaks(outcome) ==
    /\ outcomes' = [outcomes EXCEPT ![turn] = outcome]
    /\ IF turn + 1 < NumSources /\ outcome.kind = "installed"
       THEN turn' = turn + 1 /\ mpc' = "poll" /\ UNCHANGED gate
       ELSE turn' = 0 /\ mpc' = "publish" /\ Release

\* Mutant: a source that failed internally is tried again at once.
EndTurnRetries(outcome) ==
    /\ outcomes' = [outcomes EXCEPT ![turn] = outcome]
    /\ IF turn + 1 < NumSources \/ outcome.kind = "other"
       THEN /\ turn' = IF outcome.kind = "other" THEN turn ELSE turn + 1
            /\ mpc' = "poll" /\ UNCHANGED gate
       ELSE turn' = 0 /\ mpc' = "publish" /\ Release

\* A source's turn ends; the last one drops the gate before publishing.
EndTurn(outcome) ==
    /\ outcomes' = [outcomes EXCEPT ![turn] = outcome]
    /\ IF turn + 1 < NumSources
       THEN /\ turn' = turn + 1
            /\ mpc' = "poll"
            /\ UNCHANGED gate
       ELSE /\ turn' = 0
            /\ mpc' = "publish"
            /\ Release

\* system_now_ms fails: the source is not polled in this round.
ClockFails ==
    /\ "clock" \in Faults
    /\ mpc = "poll" /\ Holds("membership")
    /\ EndTurn([NoOutcome EXCEPT !.kind = "other"])
    /\ UNCHANGED <<pub, pipe, wakeup, pending, round, classificationVars>>

\* record_poll_started, then the membership RPCs.
PollStarts ==
    /\ mpc = "poll" /\ Holds("membership")
    /\ pub' = [pub EXCEPT ![turn].poll = round]
    /\ mpc' = "collect"
    /\ UNCHANGED <<gate, pipe, wakeup, pending, round, turn, outcomes,
                   classificationVars>>

PollFails ==
    /\ "rpc" \in Faults
    /\ mpc = "collect"
    /\ EndTurn([NoOutcome EXCEPT !.kind = "failed"])
    /\ UNCHANGED <<pub, pipe, wakeup, pending, round, classificationVars>>

\* install_snapshot: the new generation supersedes the current one at once.
InstallSnapshot ==
    /\ mpc = "collect"
    /\ pipe[turn].generation < MaxGeneration
    /\ \E work \in 0 .. MaxWork :
        LET id == pipe[turn].generation + 1
        IN  /\ pipe' = [pipe EXCEPT ![turn] = [generation |-> id,
                                               revision |-> 0,
                                               work |-> work]]
            /\ EndTurn([kind |-> "installed", generation |-> id,
                        eligible |-> work > 0])
    /\ UNCHANGED <<pub, wakeup, pending, round, classificationVars>>

\* ClassificationError::GenerationOverflow
InstallOverflows ==
    /\ mpc = "collect"
    /\ pipe[turn].generation = MaxGeneration
    /\ EndTurn([NoOutcome EXCEPT !.kind = "other"])
    /\ UNCHANGED <<pub, pipe, wakeup, pending, round, classificationVars>>

\* The loop over the outcomes consumes them.
EndPublication ==
    /\ outcomes' = [outcomes EXCEPT ![turn] = NoOutcome]
    /\ IF turn + 1 < NumSources
       THEN turn' = turn + 1 /\ UNCHANGED mpc
       ELSE turn' = 0 /\ mpc' = "interval"

\* Mutant: the pending set grows without a notification.
ScheduleWithoutNotify(s) ==
    /\ pending' = pending \cup {s}
    /\ UNCHANGED wakeup

\* schedule_classification
ScheduleClassification(s) ==
    /\ pending' = pending \cup {s}
    /\ wakeup' = TRUE

\* publish_membership commits and the source is scheduled, with no await in
\* between; an older generation than the published one returns Ok(false).
PublishMembership ==
    LET o == outcomes[turn]
    IN  /\ mpc = "publish" /\ o.kind = "installed"
        /\ IF pub[turn].generation >= o.generation
           THEN UNCHANGED <<pub, wakeup, pending>>
           ELSE /\ pub' = [pub EXCEPT ![turn] =
                     [@ EXCEPT !.generation = o.generation,
                               !.revision = 0,
                               !.failed = FALSE,
                               !.lifecycle = IF o.eligible THEN "classifying"
                                                           ELSE "complete"]]
                /\ ScheduleClassification(turn)
        /\ EndPublication
        /\ UNCHANGED <<gate, pipe, round, classificationVars>>

PublishFailure ==
    /\ mpc = "publish" /\ outcomes[turn].kind = "failed"
    /\ pub' = [pub EXCEPT ![turn].failed = TRUE]
    /\ EndPublication
    /\ UNCHANGED <<gate, pipe, wakeup, pending, round, classificationVars>>

\* Every other error is only logged.
LogOtherError ==
    /\ mpc = "publish" /\ outcomes[turn].kind = "other"
    /\ EndPublication
    /\ UNCHANGED <<gate, pub, pipe, wakeup, pending, round,
                   classificationVars>>

\* publish_membership or record_failure returns an error: logged only.
MembershipPublicationFails ==
    /\ "publication" \in Faults
    /\ mpc = "publish" /\ outcomes[turn].kind \in {"installed", "failed"}
    /\ EndPublication
    /\ UNCHANGED <<gate, pub, pipe, wakeup, pending, round,
                   classificationVars>>

-----------------------------------------------------------------------------
(* Classification *)

\* The loop starts with no active source and next_source_index 0.
ClassificationWakes ==
    /\ cpc = "wait" /\ wakeup
    /\ wakeup' = FALSE
    /\ cpc' = "pick"
    /\ UNCHANGED <<gate, pub, pipe, pending, membershipVars, active, next,
                   source, expected, report, skipped>>

First(S) == CHOOSE s \in S : \A t \in S : s <= t

\* Mutant: the cursor is ignored.
LowestFirst(S) == First(S)

\* The first source at or after next_source_index, else the first of all.
RoundRobin(S) ==
    LET ahead == {s \in S : s >= next}
    IN  IF ahead # {} THEN First(ahead) ELSE First(S)

\* take_pending_classification, and the choice of the next source.
PickSource ==
    LET ready == active \cup pending
        s == RoundRobin(ready)
    IN  /\ cpc = "pick"
        /\ pending' = {}
        /\ \/ /\ ready = {}
              /\ active' = {}
              /\ next' = 0
              /\ cpc' = "wait"
              /\ UNCHANGED <<gate, source, skipped>>
           \/ /\ ready # {}
              /\ active' = ready \ {s}
              /\ source' = s
              /\ cpc' = "gate"
              /\ Acquire("classification")
              /\ skipped' = [t \in Sources |-> IF t \in ready \ {s}
                                               THEN skipped[t] + 1
                                               ELSE 0]
              /\ UNCHANGED next
        /\ UNCHANGED <<pub, pipe, wakeup, membershipVars, expected, report>>

\* With the gate held, the published generation is read; a slice for
\* anything but the pipeline's current generation is stale before it starts.
BeginSlice ==
    /\ cpc = "gate" /\ Holds("classification")
    /\ expected' = pub[source].generation
    /\ \/ /\ pipe[source].generation = expected'
          /\ cpc' = "slice"
          /\ UNCHANGED <<gate, report>>
       \/ /\ pipe[source].generation # expected'
          /\ cpc' = "publish"
          /\ report' = [NoReport EXCEPT !.kind = "stale"]
          /\ Release
    /\ UNCHANGED <<pub, pipe, wakeup, pending, membershipVars, active, next,
                   source, skipped>>

\* The last part of a slice, under the coordinator lock: either the
\* generation was superseded and nothing is stored, or the results are.
\* A slice without eligible work makes no request; one that neither fails
\* systemically nor runs out of work leaves less to do.
StoreSlice ==
    LET p == pipe[source]
    IN  IF p.generation # expected
        THEN /\ report' = [NoReport EXCEPT !.kind = "stale"]
             /\ UNCHANGED pipe
        ELSE \E work \in 0 .. p.work, classified, systemic \in BOOLEAN :
             /\ p.work = 0 => ~ classified /\ ~ systemic
             /\ p.work > 0 /\ ~ systemic => work < p.work
             /\ IF classified /\ p.revision = MaxRevision
                THEN /\ report' = [NoReport EXCEPT !.kind = "error"]
                     /\ pipe' = [pipe EXCEPT ![source].work = work]
                ELSE LET revision == IF classified THEN p.revision + 1
                                                   ELSE p.revision
                     IN  /\ report' =
                              [kind |-> IF systemic THEN "paused"
                                        ELSE IF work = 0 THEN "complete"
                                        ELSE "continue",
                               revision |-> IF classified THEN revision
                                                          ELSE 0]
                         /\ pipe' = [pipe EXCEPT ![source].work = work,
                                                 ![source].revision = revision]

EndSlice ==
    /\ cpc = "slice"
    /\ StoreSlice
    /\ cpc' = "publish"
    /\ Release
    /\ UNCHANGED <<pub, wakeup, pending, membershipVars, active, next, source,
                   expected, skipped>>

\* Mutant: a systemic failure ends the generation as complete.
LifecycleWithoutPause(kind) ==
    IF kind = "continue" THEN "classifying" ELSE "complete"

Lifecycle(kind) == CASE kind = "continue" -> "classifying"
                     [] kind = "complete" -> "complete"
                     [] OTHER -> "paused"

\* Mutant: a source with work left is not put back.
EndReportForgets(again) ==
    /\ next' = (source + 1) % NumSources
    /\ report' = NoReport /\ source' = 0 /\ expected' = 0
    /\ cpc' = "pick"
    /\ UNCHANGED active

\* The source stays active when its report was current and more remains; the
\* variables of the loop's body go out of scope.
EndReport(again) ==
    /\ active' = IF again THEN active \cup {source} ELSE active
    /\ next' = (source + 1) % NumSources
    /\ report' = NoReport
    /\ source' = 0
    /\ expected' = 0
    /\ cpc' = "pick"

\* Mutant: the generation of the report is not compared.
ReportIsCurrentAnyGeneration ==
    report.revision # 0 => pub[source].revision < report.revision

\* publish_classification_update: the report is for the published generation
\* and, if it carries a delta, for a later revision.
ReportIsCurrent ==
    /\ pub[source].generation = expected
    /\ report.revision # 0 => pub[source].revision < report.revision

\* ... but the delta does not follow the published revision.
ReportLeavesGap ==
    report.revision # 0 /\ report.revision # pub[source].revision + 1

\* Mutant: a report that pauses the generation drops its delta.
CommitReportUnlessPaused(p) ==
    [p EXCEPT !.lifecycle = Lifecycle(report.kind),
              !.revision = IF report.revision # 0 /\ report.kind # "paused"
                           THEN report.revision
                           ELSE @]

\* The delta and the lifecycle become visible together.
CommitReport(p) ==
    [p EXCEPT !.lifecycle = Lifecycle(report.kind),
              !.revision = IF report.revision # 0 THEN report.revision ELSE @]

PublishReport ==
    /\ cpc = "publish" /\ report.kind # "stale"
    /\ IF ReportIsCurrent /\ ~ ReportLeavesGap
       THEN /\ pub' = [pub EXCEPT ![source] = CommitReport(@)]
            /\ EndReport(report.kind = "continue")
       ELSE UNCHANGED pub /\ EndReport(FALSE)
    /\ UNCHANGED <<gate, pipe, wakeup, pending, membershipVars,
                   skipped>>

DropStaleReport ==
    /\ cpc = "publish" /\ report.kind = "stale"
    /\ EndReport(FALSE)
    /\ UNCHANGED <<gate, pub, pipe, wakeup, pending, membershipVars,
                   skipped>>

\* publish_classification_update returns an error: logged only.
ReportPublicationFails ==
    /\ "publication" \in Faults
    /\ cpc = "publish" /\ report.kind # "stale"
    /\ EndReport(FALSE)
    /\ UNCHANGED <<gate, pub, pipe, wakeup, pending, membershipVars,
                   skipped>>

-----------------------------------------------------------------------------
(* Specification *)

RoundSteps ==
    \/ ClockFails \/ PollStarts \/ PollFails
    \/ InstallSnapshot \/ InstallOverflows
    \/ PublishMembership \/ PublishFailure \/ LogOtherError
    \/ MembershipPublicationFails

ClassificationSteps ==
    \/ ClassificationWakes \/ PickSource \/ BeginSlice \/ EndSlice
    \/ PublishReport \/ DropStaleReport \/ ReportPublicationFails

Next == RoundBegins \/ RoundSteps \/ ClassificationSteps

\* Ready futures are polled and every RPC has a timeout, so both loops move
\* on; nothing is assumed of the interval.
Spec == Init /\ [][Next]_vars
             /\ WF_vars(RoundSteps) /\ WF_vars(ClassificationSteps)

-----------------------------------------------------------------------------
(* Properties *)

\* The gate does its job: a membership installed by a round never supersedes
\* the generation of a slice that is running, so no slice's requests are
\* spent on results that have to be thrown away.
SliceNeverSuperseded ==
    cpc = "slice" => pipe[source].generation = expected

\* A publisher never shows a generation or a revision its pipeline has not
\* reached, nor `complete', "No eligible work remains" (docs/architecture.md),
\* while its pipeline has work left.
PublishedNeverAhead ==
    \A s \in Sources :
        /\ pub[s].generation <= pipe[s].generation
        /\ pub[s].generation = pipe[s].generation =>
              /\ pub[s].revision <= pipe[s].revision
              /\ pub[s].lifecycle = "complete" => pipe[s].work = 0

\* No classification is lost between the pipeline and readers: unless its
\* report is just being published, every revision of the published
\* generation is visible.  So ClassificationRevisionSequence never happens.
EveryRevisionPublished ==
    \A s \in Sources :
        pub[s].generation = pipe[s].generation =>
          \/ pub[s].revision = pipe[s].revision
          \/ /\ cpc = "publish" /\ source = s
             /\ expected = pub[s].generation
             /\ report.revision = pub[s].revision + 1
             /\ report.revision = pipe[s].revision

\* docs/architecture.md: `classifying' means that work remains, and `paused'
\* that "a systemic or internal failure stopped this generation".  So a
\* generation shown as classifying has not been dropped: it is queued or in
\* hand, and the loop that serves the queue is awake or about to be woken.
ClassifyingIsScheduled ==
    \A s \in Sources :
        /\ pub[s].lifecycle = "classifying"
        /\ pub[s].generation = pipe[s].generation
        => \/ s \in pending /\ (cpc = "wait" => wakeup)
           \/ s \in active /\ cpc # "wait"
           \/ s = source /\ cpc \in {"gate", "slice", "publish"}

\* Classification is round-robin: while a source waits for its slice every
\* other source gets at most one.
RoundRobinIsFair == \A s \in Sources : skipped[s] < NumSources

\* "Failure of one source does not prevent later sources in the same round
\* from being attempted" (docs/architecture.md): every source whose outcome
\* is still to be published has had its turn in this round.
EverySourceAttempted ==
    mpc = "publish" =>
        \A s \in turn .. NumSources - 1 :
            /\ outcomes[s].kind # "none"
            /\ outcomes[s].kind \in {"failed", "installed"} =>
                  pub[s].poll = round

\* A round that is due gets the gate and finishes, whatever fails and however
\* much classification there is.
RoundFinishes == mpc = "poll" ~> mpc = "publish"

\* Classification of a published generation comes to an end, or the
\* generation is replaced: no wakeup is lost.
ClassificationEnds ==
    \A s \in Sources : \A g \in 1 .. MaxGeneration :
        pub[s].generation = g /\ pub[s].lifecycle = "classifying"
          ~> pub[s].generation # g \/ pub[s].lifecycle # "classifying"

\* src/src/runtime/tests.rs: a source "must remain paused until [it] publishes
\* a replacement generation".
PausedUntilReplaced ==
    [][ \A s \in Sources :
          pub[s].lifecycle = "paused" /\ pub'[s].generation = pub[s].generation
            => pub'[s].lifecycle = "paused" ]_vars

\* docs/architecture.md: "A failed poll leaves the previous successful
\* snapshot visible and marks it stale."
FailedPollMarksStale ==
    [][ /\ mpc = "publish" /\ outcomes[turn].kind # "installed"
        /\ pub[turn].generation # 0
        /\ turn' # turn \/ mpc' # mpc
        => pub'[turn].failed ]_vars
=============================================================================
