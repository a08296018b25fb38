------------------------- MODULE AtlasRuntimeProofs -------------------------
(***************************************************************************)
(* Proofs about AtlasRuntime, for any number of sources that it accepts    *)
(* and any bounds.                                                         *)
(***************************************************************************)
EXTENDS AtlasRuntime, SequenceTheorems, TLAPS

-----------------------------------------------------------------------------
(* The inductive invariant *)

\* The types of what scheduling depends on.
Typed ==
    /\ pub \in [Sources -> Published]
    /\ pipe \in [Sources -> Generation]
    /\ wakeup \in BOOLEAN
    /\ pending \subseteq Sources
    /\ mpc \in {"interval", "poll", "collect", "publish"}
    /\ round \in Nat
    /\ turn \in Sources
    /\ outcomes \in [Sources -> Outcome]
    /\ cpc \in {"wait", "pick", "gate", "slice", "publish"}
    /\ active \subseteq Sources
    /\ next \in Sources
    /\ source \in Sources
    /\ expected \in Nat
    /\ report \in Report

RoundInGate == mpc \in {"poll", "collect"}
SliceInGate == cpc \in {"gate", "slice"}

\* The queues of the gate: its holder, then who waits.
Nobody == <<>>
Round == <<"membership">>
Slice == <<"classification">>
RoundThenSlice == <<"membership", "classification">>
SliceThenRound == <<"classification", "membership">>

\* A loop is in the gate's queue exactly while it waits for the permit or has
\* it, and at its head while it uses it.
GateOrder ==
    \/ gate = Nobody /\ ~ RoundInGate /\ ~ SliceInGate
    \/ gate = Round /\ RoundInGate /\ ~ SliceInGate
    \/ gate = Slice /\ ~ RoundInGate /\ SliceInGate
    \/ gate = RoundThenSlice /\ RoundInGate /\ cpc = "gate"
    \/ gate = SliceThenRound /\ mpc = "poll" /\ SliceInGate

\* What a round has installed and not published yet.
OutcomesInstalled ==
    \A s \in Sources : outcomes[s].kind = "installed" =>
        /\ outcomes[s].generation <= pipe[s].generation
        /\ outcomes[s].generation = pipe[s].generation /\ ~ outcomes[s].eligible =>
              pipe[s].work = 0

\* A generation is classified only once it is published.
UnpublishedIsFresh ==
    \A s \in Sources :
        pub[s].generation < pipe[s].generation => pipe[s].revision = 0

\* What a slice reports of a generation that is still current is true of it.
ReportIsTrue ==
    /\ cpc \in {"slice", "publish"} => expected <= pub[source].generation
    /\ report.kind = "stale" => report.revision = 0
    /\ cpc = "publish" /\ report.kind # "stale" /\ pipe[source].generation = expected
         => /\ report.revision <= pipe[source].revision
            /\ report.kind = "complete" => pipe[source].work = 0

Inv ==
    /\ Typed
    /\ GateOrder
    /\ OutcomesInstalled
    /\ UnpublishedIsFresh
    /\ ReportIsTrue
    /\ SliceNeverSuperseded
    /\ PublishedNeverAhead

\* A report that carries a delta carries the next one.
DeltaFollows ==
    /\ cpc = "publish" /\ report.revision # 0
    /\ pub[source].generation = expected /\ pipe[source].generation = expected
    => report.revision = pub[source].revision + 1

\* A generation published after its source was chosen has scheduled the source.
Rescheduled ==
    /\ cpc \in {"slice", "publish"} /\ pub[source].generation # expected =>
          source \in pending
    /\ cpc = "publish" /\ report.kind = "stale"
         /\ pub[source].generation = pipe[source].generation => source \in pending

\* What holds in addition when no publication fails.
ScheduleInv ==
    /\ DeltaFollows
    /\ Rescheduled
    /\ EveryRevisionPublished
    /\ ClassifyingIsScheduled

-----------------------------------------------------------------------------
(* Sequences and sources *)

\* Appending to a queue of one task.
LEMMA AppendSecond ==
    ASSUME NEW a, NEW b
    PROVE  Append(<<a>>, b) = <<a, b>>
<1> DEFINE s == Append(<<a>>, b)
           t == <<a, b>>
<1>1. <<a>> \in Seq({a, b}) /\ Len(<<a>>) = 1 /\ <<a>>[1] = a  OBVIOUS
<1>2. s \in Seq({a, b}) /\ Len(s) = 2 /\ s[1] = a /\ s[2] = b
  BY <1>1, AppendProperties
<1>3. t \in Seq({a, b}) /\ Len(t) = 2 /\ t[1] = a /\ t[2] = b  OBVIOUS
<1>4. \A i \in 1 .. Len(s) : s[i] = t[i]  BY <1>2, <1>3
<1> QED  BY <1>2, <1>3, <1>4, SeqEqual

\* How the queue of the gate changes, and who holds the permit.
LEMMA QueueFacts ==
    /\ Append(Nobody, "membership") = Round
    /\ Append(Nobody, "classification") = Slice
    /\ Append(Slice, "membership") = SliceThenRound
    /\ Append(Round, "classification") = RoundThenSlice
    /\ Tail(Round) = Nobody /\ Tail(Slice) = Nobody
    /\ Tail(RoundThenSlice) = Slice /\ Tail(SliceThenRound) = Round
    /\ Head(Round) = "membership" /\ Head(Slice) = "classification"
    /\ Head(RoundThenSlice) = "membership"
    /\ Head(SliceThenRound) = "classification"
    /\ Nobody = <<>>
<1>1. Append(Nobody, "membership") = Round  BY DEF Nobody, Round
<1>2. Append(Nobody, "classification") = Slice  BY DEF Nobody, Slice
<1>3. Append(Slice, "membership") = SliceThenRound
  BY AppendSecond DEF Slice, SliceThenRound
<1>4. Append(Round, "classification") = RoundThenSlice
  BY AppendSecond DEF Round, RoundThenSlice
<1>5. Tail(Round) = Nobody /\ Tail(Slice) = Nobody  BY DEF Round, Slice, Nobody
<1>6. Tail(RoundThenSlice) = Slice  BY DEF RoundThenSlice, Slice
<1>7. Tail(SliceThenRound) = Round  BY DEF SliceThenRound, Round
<1>8. Head(Round) = "membership" /\ Head(Slice) = "classification"
  BY DEF Round, Slice
<1>9. Head(RoundThenSlice) = "membership" /\ Head(SliceThenRound) = "classification"
  BY DEF RoundThenSlice, SliceThenRound
<1> QED
  BY <1>1, <1>2, <1>3, <1>4, <1>5, <1>6, <1>7, <1>8, <1>9 DEF Nobody

\* A set of sources has a first one.
LEMMA FirstIsLeast ==
    ASSUME NEW T \in SUBSET Sources, T # {}
    PROVE  First(T) \in T /\ \A t \in T : First(T) <= t
<1>1. \E s \in T : \A t \in T : s <= t
  <2>1. T \subseteq 0 .. 3
    BY AtlasRuntimeAssumption DEF Sources
  <2>2. CASE 0 \in T  BY <2>1, <2>2
  <2>3. CASE 0 \notin T /\ 1 \in T  BY <2>1, <2>3
  <2>4. CASE 0 \notin T /\ 1 \notin T /\ 2 \in T  BY <2>1, <2>4
  <2>5. CASE 0 \notin T /\ 1 \notin T /\ 2 \notin T
    <3>1. \A t \in T : t = 3  BY <2>1, <2>5
    <3>2. 3 \in T  BY <3>1
    <3> QED  BY <3>1, <3>2
  <2> QED  BY <2>2, <2>3, <2>4, <2>5
<1> QED  BY <1>1 DEF First

\* RoundRobin chooses a source of the set: the first one at or after the
\* cursor, or the first one of all if there is none.
LEMMA RoundRobinChooses ==
    ASSUME NEW S \in SUBSET Sources, S # {}
    PROVE  /\ RoundRobin(S) \in S
           /\ \A t \in S :
                 \/ t >= next /\ RoundRobin(S) >= next /\ RoundRobin(S) <= t
                 \/ ~ (t >= next) /\ RoundRobin(S) >= next
                 \/ ~ (t >= next) /\ RoundRobin(S) <= t
<1> DEFINE ahead == {s \in S : s >= next}
<1>1. CASE ahead # {}
  <2>1. RoundRobin(S) = First(ahead)  BY <1>1 DEF RoundRobin
  <2>2. First(ahead) \in ahead /\ \A t \in ahead : First(ahead) <= t
    BY <1>1, FirstIsLeast
  <2> QED  BY <2>1, <2>2
<1>2. CASE ahead = {}
  <2>1. RoundRobin(S) = First(S)  BY <1>2 DEF RoundRobin
  <2>2. First(S) \in S /\ \A t \in S : First(S) <= t  BY FirstIsLeast
  <2>3. \A t \in S : ~ (t >= next)  BY <1>2
  <2> QED  BY <2>1, <2>2, <2>3
<1> QED  BY <1>1, <1>2

-----------------------------------------------------------------------------
(* Types and the gate *)

\* Ending a turn keeps the types.
LEMMA EndTurnTyped ==
    ASSUME Typed, NEW o \in Outcome, EndTurn(o)
    PROVE  /\ outcomes' \in [Sources -> Outcome]
           /\ turn' \in Sources
           /\ mpc' \in {"poll", "publish"}
BY AtlasRuntimeAssumption DEF Typed, EndTurn, Sources

\* Ending a publication keeps the types.
LEMMA EndPublicationTyped ==
    ASSUME Typed, mpc = "publish", EndPublication
    PROVE  /\ outcomes' \in [Sources -> Outcome]
           /\ turn' \in Sources
           /\ mpc' \in {"publish", "interval"}
<1>1. NoOutcome \in Outcome  BY DEF NoOutcome, Outcome
<1> QED  BY <1>1, AtlasRuntimeAssumption DEF Typed, EndPublication, Sources

\* Ending a report keeps the types.
LEMMA EndReportTyped ==
    ASSUME Typed, NEW again \in BOOLEAN, EndReport(again)
    PROVE  /\ active' \subseteq Sources
           /\ next' \in Sources
           /\ source' \in Sources
           /\ expected' \in Nat
           /\ report' \in Report
           /\ cpc' = "pick"
BY AtlasRuntimeAssumption DEF Typed, EndReport, Sources, Report, NoReport

\* What a slice of the current generation stores and reports: work does not
\* grow, and a delta is reported with its revision, the next one.
LEMMA StoreSliceEffect ==
    ASSUME Typed, StoreSlice
    PROVE  /\ pipe' \in [Sources -> Generation]
           /\ report' \in Report
           /\ \A s \in Sources \ {source} : pipe'[s] = pipe[s]
           /\ pipe'[source].generation = pipe[source].generation
           /\ pipe'[source].work <= pipe[source].work
           /\ report'.kind = "stale" =>
                 report'.revision = 0 /\ pipe[source].generation # expected
           /\ \/ /\ pipe'[source].revision = pipe[source].revision
                 /\ report'.revision = 0
              \/ /\ pipe'[source].revision = pipe[source].revision + 1
                 /\ report'.revision = pipe'[source].revision
           /\ report'.kind = "complete" => pipe'[source].work = 0
<1>1. CASE pipe[source].generation # expected
  <2>1. pipe' = pipe /\ report' = [kind |-> "stale", revision |-> 0]
    BY <1>1 DEF StoreSlice, NoReport
  <2> QED  BY <1>1, <2>1 DEF Typed, Generation, Report
<1>2. CASE pipe[source].generation = expected
  <2> DEFINE p == pipe[source]
  <2>0. p \in Generation  BY DEF Typed
  <2>1. PICK work \in 0 .. p.work, classified \in BOOLEAN, systemic \in BOOLEAN :
           IF classified /\ p.revision = MaxRevision
           THEN /\ report' = [NoReport EXCEPT !.kind = "error"]
                /\ pipe' = [pipe EXCEPT ![source].work = work]
           ELSE LET revision == IF classified THEN p.revision + 1 ELSE p.revision
                IN  /\ report' = [kind |-> IF systemic THEN "paused"
                                            ELSE IF work = 0 THEN "complete"
                                            ELSE "continue",
                                   revision |-> IF classified THEN revision ELSE 0]
                    /\ pipe' = [pipe EXCEPT ![source].work = work,
                                            ![source].revision = revision]
    BY <1>2 DEF StoreSlice
  <2>2. work \in Nat /\ work <= p.work /\ p.revision \in Nat /\ p.generation \in Nat
    BY <2>0 DEF Generation
  <2>3. CASE classified /\ p.revision = MaxRevision
    <3>1. /\ report' = [kind |-> "error", revision |-> 0]
          /\ pipe' = [pipe EXCEPT ![source] = [generation |-> p.generation,
                         revision |-> p.revision, work |-> work]]
      BY <2>0, <2>1, <2>3 DEF NoReport, Generation
    <3> QED  BY <2>2, <3>1 DEF Typed, Generation, Report
  <2>4. CASE ~ (classified /\ p.revision = MaxRevision) /\ classified
    <3>1. /\ report'.revision = p.revision + 1 /\ report' \in Report
          /\ report'.kind # "stale" /\ (report'.kind = "complete" => work = 0)
      BY <2>1, <2>2, <2>4 DEF Report
    <3>2. pipe' = [pipe EXCEPT ![source] = [generation |-> p.generation,
                     revision |-> p.revision + 1, work |-> work]]
      BY <2>0, <2>1, <2>4 DEF Generation
    <3> QED  BY <2>2, <3>1, <3>2 DEF Typed, Generation
  <2>5. CASE ~ classified
    <3>1. /\ report'.revision = 0 /\ report' \in Report
          /\ report'.kind # "stale" /\ (report'.kind = "complete" => work = 0)
      BY <2>1, <2>2, <2>5 DEF Report
    <3>2. pipe' = [pipe EXCEPT ![source] = [generation |-> p.generation,
                     revision |-> p.revision, work |-> work]]
      BY <2>0, <2>1, <2>5 DEF Generation
    <3> QED  BY <2>2, <3>1, <3>2 DEF Typed, Generation
  <2> QED  BY <2>3, <2>4, <2>5
<1> QED  BY <1>1, <1>2

\* Every step keeps the types.
LEMMA TypedStep ==
    ASSUME Typed, Next
    PROVE  Typed'
<1> USE DEF membershipVars, classificationVars
<1>1. CASE RoundBegins
  BY <1>1, AtlasRuntimeAssumption DEF RoundBegins, Typed
<1>2. CASE ClockFails
  <2>1. [NoOutcome EXCEPT !.kind = "other"] \in Outcome  BY DEF NoOutcome, Outcome
  <2> QED  BY <1>2, <2>1, EndTurnTyped DEF ClockFails, Typed
<1>3. CASE PollStarts
  <2>1. pub' \in [Sources -> Published]
    BY <1>3 DEF PollStarts, Typed, Published
  <2> QED  BY <1>3, <2>1 DEF PollStarts, Typed
<1>4. CASE PollFails
  <2>1. [NoOutcome EXCEPT !.kind = "failed"] \in Outcome  BY DEF NoOutcome, Outcome
  <2> QED  BY <1>4, <2>1, EndTurnTyped DEF PollFails, Typed
<1>5. CASE InstallSnapshot
  <2> PICK work \in 0 .. MaxWork :
        /\ pipe' = [pipe EXCEPT ![turn] = [generation |-> pipe[turn].generation + 1,
                                           revision |-> 0, work |-> work]]
        /\ EndTurn([kind |-> "installed", generation |-> pipe[turn].generation + 1,
                    eligible |-> work > 0])
    BY <1>5 DEF InstallSnapshot
  <2>1. pipe[turn].generation + 1 \in Nat /\ work \in Nat
    BY AtlasRuntimeAssumption DEF Typed, Generation
  <2>2. pipe' \in [Sources -> Generation]
    BY <2>1 DEF Typed, Generation
  <2>3. [kind |-> "installed", generation |-> pipe[turn].generation + 1,
         eligible |-> work > 0] \in Outcome
    BY <2>1 DEF Outcome
  <2> QED  BY <1>5, <2>2, <2>3, EndTurnTyped DEF InstallSnapshot, Typed
<1>6. CASE InstallOverflows
  <2>1. [NoOutcome EXCEPT !.kind = "other"] \in Outcome  BY DEF NoOutcome, Outcome
  <2> QED  BY <1>6, <2>1, EndTurnTyped DEF InstallOverflows, Typed
<1>7. CASE PublishMembership
  <2>1. pub' \in [Sources -> Published]
    <3> DEFINE p == [pub[turn] EXCEPT !.generation = outcomes[turn].generation,
                                      !.revision = 0, !.failed = FALSE,
                                      !.lifecycle = IF outcomes[turn].eligible
                                                    THEN "classifying" ELSE "complete"]
    <3>1. p \in Published
      <4>1. pub[turn] \in Published /\ outcomes[turn].generation \in Nat
        BY DEF Typed, Outcome
      <4>2. (IF outcomes[turn].eligible THEN "classifying" ELSE "complete")
              \in {"none", "classifying", "complete", "paused"}
        OBVIOUS
      <4> QED  BY <4>1, <4>2 DEF Published
    <3>2. pub' = pub \/ pub' = [pub EXCEPT ![turn] = p]
      BY <1>7 DEF PublishMembership
    <3> HIDE DEF p
    <3> QED  BY <3>1, <3>2 DEF Typed
  <2>2. pending' \subseteq Sources /\ wakeup' \in BOOLEAN
    BY <1>7 DEF PublishMembership, Typed, ScheduleClassification
  <2> QED  BY <1>7, <2>1, <2>2, EndPublicationTyped DEF PublishMembership, Typed
<1>8. CASE PublishFailure
  <2>1. pub' \in [Sources -> Published]
    BY <1>8 DEF PublishFailure, Typed, Published
  <2> QED  BY <1>8, <2>1, EndPublicationTyped DEF PublishFailure, Typed
<1>9. CASE LogOtherError
  BY <1>9, EndPublicationTyped DEF LogOtherError, Typed
<1>10. CASE MembershipPublicationFails
  BY <1>10, EndPublicationTyped DEF MembershipPublicationFails, Typed
<1>11. CASE ClassificationWakes
  BY <1>11 DEF ClassificationWakes, Typed
<1>12. CASE PickSource
  <2>1. CASE active \cup pending = {}
    <3>1. 0 \in Sources  BY AtlasRuntimeAssumption DEF Sources
    <3> QED  BY <1>12, <2>1, <3>1 DEF PickSource, Typed
  <2>2. CASE active \cup pending # {}
    <3>1. RoundRobin(active \cup pending) \in Sources
      BY <2>2, RoundRobinChooses DEF Typed
    <3> QED  BY <1>12, <2>2, <3>1 DEF PickSource, Typed
  <2> QED  BY <2>1, <2>2
<1>13. CASE BeginSlice
  <2>1. expected' \in Nat  BY <1>13 DEF BeginSlice, Typed, Published
  <2>2. report' \in Report
    BY <1>13 DEF BeginSlice, Typed, Report, NoReport
  <2> QED  BY <1>13, <2>1, <2>2 DEF BeginSlice, Typed
<1>14. CASE EndSlice
  <2>1. pipe' \in [Sources -> Generation] /\ report' \in Report
    BY <1>14, StoreSliceEffect DEF EndSlice
  <2> QED  BY <1>14, <2>1 DEF EndSlice, Typed
<1>15. CASE PublishReport
  <2>1. pub' \in [Sources -> Published]
    <3>1. CommitReport(pub[source]) \in Published
      BY DEF CommitReport, Lifecycle, Typed, Published, Report
    <3>2. pub' = pub \/ pub' = [pub EXCEPT ![source] = CommitReport(pub[source])]
      BY <1>15 DEF PublishReport
    <3> QED  BY <3>1, <3>2 DEF Typed
  <2>2. \E again \in BOOLEAN : EndReport(again)
    BY <1>15 DEF PublishReport
  <2> QED  BY <1>15, <2>1, <2>2, EndReportTyped DEF PublishReport, Typed
<1>16. CASE DropStaleReport
  BY <1>16, EndReportTyped DEF DropStaleReport, Typed
<1>17. CASE ReportPublicationFails
  BY <1>17, EndReportTyped DEF ReportPublicationFails, Typed
<1> QED
  BY <1>1, <1>2, <1>3, <1>4, <1>5, <1>6, <1>7, <1>8, <1>9, <1>10, <1>11, <1>12,
     <1>13, <1>14, <1>15, <1>16, <1>17 DEF Next, RoundSteps, ClassificationSteps

\* Ending a turn of a round that holds the gate leaves it in order.
LEMMA EndTurnGate ==
    ASSUME Typed, GateOrder, NEW o, EndTurn(o), UNCHANGED cpc,
           mpc = "collect" \/ (mpc = "poll" /\ Holds("membership"))
    PROVE  GateOrder'
<1>1. \/ gate = Round /\ RoundInGate /\ ~ SliceInGate
      \/ gate = RoundThenSlice /\ RoundInGate /\ cpc = "gate"
  BY QueueFacts DEF GateOrder, Holds, RoundInGate, SliceInGate
<1> QED
  BY <1>1, QueueFacts DEF EndTurn, Release, GateOrder, RoundInGate, SliceInGate

\* Every step leaves the queue of the gate in order.
LEMMA GateStep ==
    ASSUME Typed, GateOrder, Next
    PROVE  GateOrder'
<1> USE DEF membershipVars, classificationVars
<1>1. CASE RoundBegins
  BY <1>1, QueueFacts DEF RoundBegins, Acquire, GateOrder, RoundInGate, SliceInGate
<1>2. CASE ClockFails
  BY <1>2, EndTurnGate DEF ClockFails
<1>3. CASE PollStarts
  BY <1>3, QueueFacts DEF PollStarts, Holds, GateOrder, RoundInGate, SliceInGate
<1>4. CASE PollFails
  BY <1>4, EndTurnGate DEF PollFails
<1>5. CASE InstallSnapshot
  BY <1>5, EndTurnGate DEF InstallSnapshot
<1>6. CASE InstallOverflows
  BY <1>6, EndTurnGate DEF InstallOverflows
<1>7. CASE PublishMembership \/ PublishFailure \/ LogOtherError
             \/ MembershipPublicationFails
  <2>1. mpc = "publish" /\ mpc' \in {"publish", "interval"} /\ UNCHANGED <<gate, cpc>>
    BY <1>7, EndPublicationTyped DEF PublishMembership, PublishFailure, LogOtherError,
       MembershipPublicationFails
  <2> QED  BY <2>1 DEF GateOrder, RoundInGate, SliceInGate
<1>8. CASE ClassificationWakes
  BY <1>8 DEF ClassificationWakes, GateOrder, RoundInGate, SliceInGate
<1>9. CASE PickSource
  <2>1. \/ gate = Nobody /\ ~ RoundInGate
        \/ gate = Round /\ RoundInGate
    BY <1>9 DEF PickSource, GateOrder, SliceInGate
  <2>2. /\ UNCHANGED mpc
        /\ \/ cpc' = "wait" /\ UNCHANGED gate
           \/ cpc' = "gate" /\ gate' = Append(gate, "classification")
    BY <1>9 DEF PickSource, Acquire
  <2> QED  BY <2>1, <2>2, QueueFacts DEF GateOrder, RoundInGate, SliceInGate
<1>10. CASE BeginSlice
  <2>1. \/ gate = Slice /\ ~ RoundInGate
        \/ gate = SliceThenRound /\ mpc = "poll"
    BY <1>10, QueueFacts DEF BeginSlice, Holds, GateOrder, SliceInGate
  <2>2. /\ UNCHANGED mpc
        /\ \/ cpc' = "slice" /\ UNCHANGED gate
           \/ cpc' = "publish" /\ gate' = Tail(gate)
    BY <1>10 DEF BeginSlice, Release
  <2> QED  BY <2>1, <2>2, QueueFacts DEF GateOrder, RoundInGate, SliceInGate
<1>11. CASE EndSlice
  <2>1. \/ gate = Slice /\ ~ RoundInGate
        \/ gate = SliceThenRound /\ mpc = "poll"
    BY <1>11 DEF EndSlice, GateOrder, SliceInGate
  <2>2. UNCHANGED mpc /\ cpc' = "publish" /\ gate' = Tail(gate)
    BY <1>11 DEF EndSlice, Release
  <2> QED  BY <2>1, <2>2, QueueFacts DEF GateOrder, RoundInGate, SliceInGate
<1>12. CASE PublishReport \/ DropStaleReport \/ ReportPublicationFails
  BY <1>12 DEF PublishReport, DropStaleReport, ReportPublicationFails, EndReport,
     GateOrder, RoundInGate, SliceInGate
<1> QED
  BY <1>1, <1>2, <1>3, <1>4, <1>5, <1>6, <1>7, <1>8, <1>9, <1>10, <1>11, <1>12
     DEF Next, RoundSteps, ClassificationSteps

-----------------------------------------------------------------------------
(* Safety of what is published *)

\* The part of Inv that relates what is published, installed and reported.
InvData ==
    /\ OutcomesInstalled
    /\ UnpublishedIsFresh
    /\ ReportIsTrue
    /\ SliceNeverSuperseded
    /\ PublishedNeverAhead

\* The numbers that InvData compares.
LEMMA Numbers ==
    ASSUME Typed
    PROVE  /\ \A s \in Sources :
                /\ pub[s].generation \in Nat /\ pub[s].revision \in Nat
                /\ pipe[s].generation \in Nat /\ pipe[s].revision \in Nat
                /\ pipe[s].work \in Nat
                /\ outcomes[s].generation \in Nat
           /\ report.revision \in Nat /\ expected \in Nat
           /\ turn \in Sources /\ source \in Sources
BY DEF Typed, Published, Generation, Outcome, Report

\* A step that shows readers nothing new, installs nothing and leaves the
\* classification loop alone keeps InvData.
LEMMA QuietStep ==
    ASSUME InvData, UNCHANGED <<pipe, cpc, source, expected, report>>, Typed,
           \A s \in Sources : /\ pub'[s].generation = pub[s].generation
                              /\ pub'[s].revision = pub[s].revision
                              /\ pub'[s].lifecycle = pub[s].lifecycle,
           \A s \in Sources : outcomes'[s] = outcomes[s]
                                \/ outcomes'[s].kind # "installed"
    PROVE  InvData'
<1>1. source \in Sources  BY DEF Typed
<1>2. OutcomesInstalled'  BY DEF InvData, OutcomesInstalled
<1>3. UnpublishedIsFresh'  BY DEF InvData, UnpublishedIsFresh
<1>4. ReportIsTrue'  BY <1>1 DEF InvData, ReportIsTrue
<1>5. SliceNeverSuperseded'  BY DEF InvData, SliceNeverSuperseded
<1>6. PublishedNeverAhead'  BY DEF InvData, PublishedNeverAhead
<1> QED  BY <1>2, <1>3, <1>4, <1>5, <1>6 DEF InvData

\* A step of the classification loop that touches neither the publisher nor
\* the pipeline, and leaves no slice and no report behind, keeps InvData.
LEMMA LoopStep ==
    ASSUME InvData, UNCHANGED <<pub, pipe, outcomes>>,
           cpc' \notin {"slice", "publish"},
           report' = report \/ report' = NoReport
    PROVE  InvData'
<1>1. ReportIsTrue'  BY DEF InvData, ReportIsTrue, NoReport
<1>2. SliceNeverSuperseded'  BY DEF SliceNeverSuperseded
<1> QED
  BY <1>1, <1>2 DEF InvData, OutcomesInstalled, UnpublishedIsFresh, PublishedNeverAhead

\* A turn that ends with an error keeps InvData.
LEMMA EndTurnQuiet ==
    ASSUME InvData, Typed, NEW kind \in {"failed", "other"},
           EndTurn([NoOutcome EXCEPT !.kind = kind]),
           UNCHANGED <<pub, pipe, classificationVars>>
    PROVE  InvData'
<1>1. \A s \in Sources : outcomes'[s] = outcomes[s] \/ outcomes'[s].kind = kind
  BY DEF EndTurn, Typed, Outcome, NoOutcome
<1> QED  BY <1>1, QuietStep DEF classificationVars

\* A publication that is over consumes its outcome.
LEMMA EndPublicationOutcomes ==
    ASSUME Typed, EndPublication
    PROVE  \A s \in Sources : \/ s # turn /\ outcomes'[s] = outcomes[s]
                              \/ s = turn /\ outcomes'[s].kind = "none"
BY DEF EndPublication, Typed, NoOutcome

\* Installing a snapshot: no slice is running, so none is superseded, and what
\* was reported of the generation before is no longer about the current one.
LEMMA InstallData ==
    ASSUME Typed, GateOrder, InvData, InstallSnapshot
    PROVE  InvData'
<1> USE Numbers DEF membershipVars, classificationVars
<1> PICK work \in 0 .. MaxWork :
      /\ pipe' = [pipe EXCEPT ![turn] = [generation |-> pipe[turn].generation + 1,
                                         revision |-> 0, work |-> work]]
      /\ EndTurn([kind |-> "installed", generation |-> pipe[turn].generation + 1,
                  eligible |-> work > 0])
  BY DEF InstallSnapshot
<1>1. UNCHANGED <<pub, cpc, source, expected, report>>  BY DEF InstallSnapshot
<1>2. work \in Nat  BY AtlasRuntimeAssumption
<1>3. /\ pipe'[turn].generation = pipe[turn].generation + 1
      /\ pipe'[turn].revision = 0 /\ pipe'[turn].work = work
      /\ \A s \in Sources \ {turn} : pipe'[s] = pipe[s]
  BY DEF Typed
<1>4. /\ outcomes'[turn].generation = pipe[turn].generation + 1
      /\ outcomes'[turn].eligible \/ work = 0
      /\ \A s \in Sources \ {turn} : outcomes'[s] = outcomes[s]
  <2> DEFINE o == [kind |-> "installed", generation |-> pipe[turn].generation + 1,
                   eligible |-> work > 0]
  <2>1. /\ outcomes'[turn] = o
        /\ \A s \in Sources \ {turn} : outcomes'[s] = outcomes[s]
    BY DEF Typed, EndTurn
  <2>2. o.eligible = (work > 0)  BY Zenon
  <2>3. work > 0 \/ work = 0  BY <1>2
  <2>4. o.generation = pipe[turn].generation + 1  OBVIOUS
  <2> HIDE DEF o
  <2>5. o.eligible \/ work = 0  BY <2>2, <2>3, Zenon
  <2> QED  BY <2>1, <2>4, <2>5
<1>5. OutcomesInstalled'
  <2> SUFFICES ASSUME NEW s \in Sources, outcomes'[s].kind = "installed"
               PROVE  /\ outcomes'[s].generation <= pipe'[s].generation
                      /\ outcomes'[s].generation = pipe'[s].generation
                           /\ ~ outcomes'[s].eligible => pipe'[s].work = 0
    BY DEF OutcomesInstalled
  <2>1. CASE s = turn  BY <1>2, <1>3, <1>4, <2>1
  <2>2. CASE s # turn  BY <1>3, <1>4, <2>2 DEF InvData, OutcomesInstalled
  <2> QED  BY <2>1, <2>2
<1>6. UnpublishedIsFresh'  BY <1>1, <1>3 DEF InvData, UnpublishedIsFresh
<1>7. ReportIsTrue'
  <2>1. cpc \in {"slice", "publish"} => expected <= pub[source].generation
    BY DEF InvData, ReportIsTrue
  <2>2. pub[source].generation <= pipe[source].generation
    BY DEF InvData, PublishedNeverAhead
  <2>3. CASE source = turn
    <3>1. cpc = "publish" => pipe'[source].generation # expected
      BY <1>3, <2>1, <2>2, <2>3
    <3> QED  BY <1>1, <3>1 DEF InvData, ReportIsTrue
  <2>4. CASE source # turn
    BY <1>1, <1>3, <2>4 DEF InvData, ReportIsTrue
  <2> QED  BY <2>3, <2>4
<1>8. SliceNeverSuperseded'
  <2>1. cpc # "slice"
    BY DEF InstallSnapshot, GateOrder, RoundInGate, SliceInGate
  <2> QED  BY <1>1, <2>1 DEF SliceNeverSuperseded
<1>9. PublishedNeverAhead'
  <2> SUFFICES ASSUME NEW s \in Sources
               PROVE  /\ pub[s].generation <= pipe'[s].generation
                      /\ pub[s].generation = pipe'[s].generation =>
                            /\ pub[s].revision <= pipe'[s].revision
                            /\ pub[s].lifecycle = "complete" => pipe'[s].work = 0
    BY <1>1 DEF PublishedNeverAhead
  <2>1. /\ pub[s].generation <= pipe[s].generation
        /\ pub[s].generation = pipe[s].generation =>
              /\ pub[s].revision <= pipe[s].revision
              /\ pub[s].lifecycle = "complete" => pipe[s].work = 0
    BY DEF InvData, PublishedNeverAhead
  <2> QED  BY <1>3, <2>1
<1> QED  BY <1>5, <1>6, <1>7, <1>8, <1>9 DEF InvData

\* Publishing a membership: it was installed, and `complete' is true of it.
LEMMA PublishMembershipData ==
    ASSUME Typed, InvData, PublishMembership
    PROVE  InvData'
<1> USE Numbers DEF classificationVars
<1>0. \A s \in Sources : outcomes'[s] = outcomes[s] \/ outcomes'[s].kind # "installed"
  BY EndPublicationOutcomes DEF PublishMembership
<1>1. UNCHANGED <<pipe, cpc, source, expected, report>>  BY DEF PublishMembership
<1>2. CASE pub[turn].generation >= outcomes[turn].generation
  <2>1. pub' = pub  BY <1>2 DEF PublishMembership
  <2> QED  BY <1>0, <1>1, <2>1, QuietStep
<1>3. CASE pub[turn].generation < outcomes[turn].generation
  <2> DEFINE o == outcomes[turn]
  <2>1. /\ pub'[turn].generation = o.generation
        /\ pub'[turn].revision = 0
        /\ pub'[turn].lifecycle = "complete" => ~ o.eligible
        /\ \A s \in Sources \ {turn} : pub'[s] = pub[s]
    <3> DEFINE lifecycle == IF o.eligible THEN "classifying" ELSE "complete"
               p == [pub[turn] EXCEPT !.generation = o.generation, !.revision = 0,
                                      !.failed = FALSE, !.lifecycle = lifecycle]
    <3>1. pub' = [pub EXCEPT ![turn] = p]  BY <1>3 DEF PublishMembership
    <3>2. pub[turn] \in Published  BY DEF Typed
    <3>3. /\ p.generation = o.generation /\ p.revision = 0
          /\ p.lifecycle = lifecycle
      BY <3>2 DEF Published
    <3>4. lifecycle = "complete" => ~ o.eligible  OBVIOUS
    <3> HIDE DEF p, lifecycle
    <3>5. pub'[turn] = p /\ \A s \in Sources \ {turn} : pub'[s] = pub[s]
      BY <3>1 DEF Typed
    <3> QED  BY <3>3, <3>4, <3>5
  <2>2. /\ o.generation <= pipe[turn].generation
        /\ o.generation = pipe[turn].generation /\ ~ o.eligible => pipe[turn].work = 0
    BY DEF PublishMembership, InvData, OutcomesInstalled
  <2>3. OutcomesInstalled'  BY <1>0, <1>1 DEF InvData, OutcomesInstalled
  <2>4. UnpublishedIsFresh'
    <3> HIDE DEF o
    <3>1. \A s \in Sources : pub'[s].generation < pipe[s].generation =>
                               pub[s].generation < pipe[s].generation
      BY <1>3, <2>1 DEF o
    <3> QED  BY <1>1, <3>1 DEF InvData, UnpublishedIsFresh
  <2>5. ReportIsTrue'
    <3>1. pub[source].generation <= pub'[source].generation
      BY <1>3, <2>1
    <3>2. pub'[source].generation \in Nat  BY <2>1
    <3> QED  BY <1>1, <3>1, <3>2 DEF InvData, ReportIsTrue
  <2>6. SliceNeverSuperseded'  BY <1>1 DEF InvData, SliceNeverSuperseded
  <2>7. PublishedNeverAhead'
    BY <1>1, <2>1, <2>2 DEF InvData, PublishedNeverAhead
  <2> QED  BY <2>3, <2>4, <2>5, <2>6, <2>7 DEF InvData
<1> QED  BY <1>2, <1>3

\* A slice begins with the published generation, if it is the current one.
LEMMA BeginSliceData ==
    ASSUME Typed, InvData, BeginSlice
    PROVE  InvData'
<1> USE Numbers DEF membershipVars
<1>1. UNCHANGED <<pub, pipe, outcomes, source>> /\ expected' = pub[source].generation
  BY DEF BeginSlice
<1>2. \/ cpc' = "slice" /\ pipe[source].generation = expected' /\ report' = report
      \/ cpc' = "publish" /\ report'.kind = "stale" /\ report'.revision = 0
  BY DEF BeginSlice, NoReport
<1>3. ReportIsTrue'  BY <1>1, <1>2 DEF InvData, ReportIsTrue
<1>4. SliceNeverSuperseded'  BY <1>1, <1>2 DEF SliceNeverSuperseded
<1> QED
  BY <1>1, <1>3, <1>4
     DEF InvData, OutcomesInstalled, UnpublishedIsFresh, PublishedNeverAhead

\* A slice stores what it reports, of the generation that is published.
LEMMA EndSliceData ==
    ASSUME Typed, InvData, EndSlice
    PROVE  InvData'
<1> USE Numbers DEF membershipVars
<1>1. /\ UNCHANGED <<pub, outcomes, source, expected>>
      /\ cpc = "slice" /\ cpc' = "publish"
  BY DEF EndSlice
<1>2. /\ \A s \in Sources \ {source} : pipe'[s] = pipe[s]
      /\ pipe'[source].generation = pipe[source].generation
      /\ pipe'[source].work <= pipe[source].work
      /\ pipe'[source].work \in Nat /\ pipe'[source].revision \in Nat
      /\ pipe[source].revision <= pipe'[source].revision
      /\ report'.revision <= pipe'[source].revision
      /\ report'.kind = "stale" => report'.revision = 0
      /\ report'.kind = "complete" => pipe'[source].work = 0
  BY StoreSliceEffect DEF EndSlice, Generation
<1>3. pub[source].generation = pipe[source].generation /\ expected = pub[source].generation
  BY <1>1 DEF InvData, SliceNeverSuperseded, ReportIsTrue, PublishedNeverAhead
<1>4. OutcomesInstalled'
  <2> SUFFICES ASSUME NEW s \in Sources, outcomes[s].kind = "installed"
               PROVE  /\ outcomes[s].generation <= pipe'[s].generation
                      /\ outcomes[s].generation = pipe'[s].generation
                           /\ ~ outcomes[s].eligible => pipe'[s].work = 0
    BY <1>1 DEF OutcomesInstalled
  <2>1. /\ outcomes[s].generation <= pipe[s].generation
        /\ outcomes[s].generation = pipe[s].generation /\ ~ outcomes[s].eligible =>
              pipe[s].work = 0
    BY DEF InvData, OutcomesInstalled
  <2> QED  BY <1>2, <2>1
<1>5. UnpublishedIsFresh'  BY <1>1, <1>2, <1>3 DEF InvData, UnpublishedIsFresh
<1>6. ReportIsTrue'  BY <1>1, <1>2, <1>3 DEF ReportIsTrue
<1>7. SliceNeverSuperseded'  BY <1>1 DEF SliceNeverSuperseded
<1>8. PublishedNeverAhead'
  <2> SUFFICES ASSUME NEW s \in Sources
               PROVE  /\ pub[s].generation <= pipe'[s].generation
                      /\ pub[s].generation = pipe'[s].generation =>
                            /\ pub[s].revision <= pipe'[s].revision
                            /\ pub[s].lifecycle = "complete" => pipe'[s].work = 0
    BY <1>1 DEF PublishedNeverAhead
  <2>1. /\ pub[s].generation <= pipe[s].generation
        /\ pub[s].generation = pipe[s].generation =>
              /\ pub[s].revision <= pipe[s].revision
              /\ pub[s].lifecycle = "complete" => pipe[s].work = 0
    BY DEF InvData, PublishedNeverAhead
  <2> QED  BY <1>2, <2>1
<1> QED  BY <1>4, <1>5, <1>6, <1>7, <1>8 DEF InvData

\* Publishing a report shows what is true of the generation it is about.
LEMMA PublishReportData ==
    ASSUME Typed, InvData, PublishReport
    PROVE  InvData'
<1> USE Numbers DEF membershipVars
<1>1. /\ UNCHANGED <<pipe, outcomes>> /\ report' = NoReport /\ cpc' = "pick"
      /\ cpc = "publish" /\ report.kind # "stale"
  BY DEF PublishReport, EndReport
<1>2. CASE pub' = pub
  BY <1>1, <1>2, LoopStep
<1>3. CASE pub' = [pub EXCEPT ![source] = CommitReport(pub[source])] /\ ReportIsCurrent
  <2> DEFINE p == CommitReport(pub[source])
  <2>1. pub[source] \in Published  BY DEF Typed
  <2>2. /\ p.generation = pub[source].generation
        /\ p.revision = IF report.revision # 0 THEN report.revision
                                               ELSE pub[source].revision
        /\ p.lifecycle = Lifecycle(report.kind)
    BY <2>1 DEF CommitReport, Published
  <2>3. Lifecycle(report.kind) = "complete" => report.kind = "complete"
    BY DEF Lifecycle
  <2>4. pub'[source] = p /\ \A s \in Sources \ {source} : pub'[s] = pub[s]
    BY <1>3 DEF Typed
  <2> HIDE DEF p
  <2>5. pub[source].generation = expected  BY <1>3 DEF ReportIsCurrent
  <2>6. UnpublishedIsFresh'
    BY <1>1, <2>2, <2>4 DEF InvData, UnpublishedIsFresh
  <2>7. PublishedNeverAhead'
    <3>1. \A s \in Sources \ {source} :
             /\ pub'[s].generation <= pipe'[s].generation
             /\ pub'[s].generation = pipe'[s].generation =>
                   /\ pub'[s].revision <= pipe'[s].revision
                   /\ pub'[s].lifecycle = "complete" => pipe'[s].work = 0
      BY <1>1, <2>4 DEF InvData, PublishedNeverAhead
    <3>2. /\ pub[source].generation <= pipe[source].generation
          /\ pub[source].generation = pipe[source].generation =>
                pub[source].revision <= pipe[source].revision
      BY DEF InvData, PublishedNeverAhead
    <3>3. pipe[source].generation = expected =>
             /\ report.revision <= pipe[source].revision
             /\ report.kind = "complete" => pipe[source].work = 0
      BY <1>1 DEF InvData, ReportIsTrue
    <3>4. /\ pub'[source].generation <= pipe'[source].generation
          /\ pub'[source].generation = pipe'[source].generation =>
                /\ pub'[source].revision <= pipe'[source].revision
                /\ pub'[source].lifecycle = "complete" => pipe'[source].work = 0
      BY <1>1, <2>2, <2>3, <2>4, <2>5, <3>2, <3>3
    <3> QED  BY <3>1, <3>4 DEF PublishedNeverAhead
  <2>8. OutcomesInstalled'  BY <1>1 DEF InvData, OutcomesInstalled
  <2>9. ReportIsTrue'  BY <1>1 DEF ReportIsTrue, NoReport
  <2>10. SliceNeverSuperseded'  BY <1>1 DEF SliceNeverSuperseded
  <2> QED  BY <2>6, <2>7, <2>8, <2>9, <2>10 DEF InvData
<1> QED  BY <1>2, <1>3 DEF PublishReport

\* Every step keeps InvData.
LEMMA DataStep ==
    ASSUME Typed, GateOrder, InvData, Next
    PROVE  InvData'
<1> USE DEF membershipVars, classificationVars
<1>1. CASE RoundBegins
  BY <1>1, QuietStep DEF RoundBegins
<1>2. CASE ClockFails
  BY <1>2, EndTurnQuiet DEF ClockFails
<1>3. CASE PollStarts
  <2>1. \A s \in Sources : /\ pub'[s].generation = pub[s].generation
                           /\ pub'[s].revision = pub[s].revision
                           /\ pub'[s].lifecycle = pub[s].lifecycle
    BY <1>3 DEF PollStarts, Typed, Published
  <2> QED  BY <1>3, <2>1, QuietStep DEF PollStarts
<1>4. CASE PollFails
  BY <1>4, EndTurnQuiet DEF PollFails
<1>5. CASE InstallSnapshot
  BY <1>5, InstallData
<1>6. CASE InstallOverflows
  BY <1>6, EndTurnQuiet DEF InstallOverflows
<1>7. CASE PublishMembership
  BY <1>7, PublishMembershipData
<1>8. CASE PublishFailure \/ LogOtherError \/ MembershipPublicationFails
  <2>1. \A s \in Sources : outcomes'[s] = outcomes[s]
                             \/ outcomes'[s].kind # "installed"
    BY <1>8, EndPublicationOutcomes
       DEF PublishFailure, LogOtherError, MembershipPublicationFails
  <2>2. \A s \in Sources : /\ pub'[s].generation = pub[s].generation
                           /\ pub'[s].revision = pub[s].revision
                           /\ pub'[s].lifecycle = pub[s].lifecycle
    BY <1>8 DEF PublishFailure, LogOtherError, MembershipPublicationFails, Typed,
       Published
  <2>3. UNCHANGED <<pipe, cpc, source, expected, report>>
    BY <1>8 DEF PublishFailure, LogOtherError, MembershipPublicationFails
  <2> QED  BY <2>1, <2>2, <2>3, QuietStep
<1>9. CASE ClassificationWakes
  BY <1>9, LoopStep DEF ClassificationWakes
<1>10. CASE PickSource
  BY <1>10, LoopStep DEF PickSource
<1>11. CASE BeginSlice
  BY <1>11, BeginSliceData
<1>12. CASE EndSlice
  BY <1>12, EndSliceData
<1>13. CASE PublishReport
  BY <1>13, PublishReportData
<1>14. CASE DropStaleReport \/ ReportPublicationFails
  BY <1>14, LoopStep DEF DropStaleReport, ReportPublicationFails, EndReport
<1> QED
  BY <1>1, <1>2, <1>3, <1>4, <1>5, <1>6, <1>7, <1>8, <1>9, <1>10, <1>11, <1>12,
     <1>13, <1>14 DEF Next, RoundSteps, ClassificationSteps

\* The program starts in the invariant.
LEMMA InvInit == Init => Inv
<1> SUFFICES ASSUME Init PROVE Inv  OBVIOUS
<1>1. Typed
  <2>1. 0 \in Sources  BY AtlasRuntimeAssumption DEF Sources
  <2>2. pub \in [Sources -> Published]  BY DEF Init, Published
  <2>3. pipe \in [Sources -> Generation]  BY DEF Init, Generation
  <2>4. outcomes \in [Sources -> Outcome]  BY DEF Init, Outcome, NoOutcome
  <2>5. report \in Report  BY DEF Init, Report, NoReport
  <2> QED  BY <2>1, <2>2, <2>3, <2>4, <2>5 DEF Init, Typed
<1>2. GateOrder  BY DEF Init, GateOrder, Nobody, RoundInGate, SliceInGate
<1>3. OutcomesInstalled  BY DEF Init, OutcomesInstalled, NoOutcome
<1>4. UnpublishedIsFresh  BY DEF Init, UnpublishedIsFresh
<1>5. ReportIsTrue  BY DEF Init, ReportIsTrue, NoReport
<1>6. SliceNeverSuperseded  BY DEF Init, SliceNeverSuperseded
<1>7. PublishedNeverAhead  BY DEF Init, PublishedNeverAhead
<1> QED  BY <1>1, <1>2, <1>3, <1>4, <1>5, <1>6, <1>7 DEF Inv

\* Every step, and every stuttering step, keeps the invariant.
LEMMA InvStep == Inv /\ [Next]_vars => Inv'
<1> SUFFICES ASSUME Inv, [Next]_vars PROVE Inv'  OBVIOUS
<1>1. CASE Next
  <2>1. Typed /\ GateOrder /\ InvData  BY DEF Inv, InvData
  <2>2. Typed' /\ GateOrder' /\ InvData'
    BY <1>1, <2>1, TypedStep, GateStep, DataStep
  <2> QED  BY <2>2 DEF Inv, InvData
<1>2. CASE UNCHANGED vars
  <2>1. Typed'
    BY <1>2 DEF vars, membershipVars, classificationVars, Inv, Typed
  <2>2. GateOrder'
    BY <1>2 DEF vars, membershipVars, classificationVars, Inv, GateOrder,
       RoundInGate, SliceInGate
  <2>3. InvData'
    BY <1>2, QuietStep DEF vars, membershipVars, classificationVars, Inv, InvData
  <2> QED  BY <2>1, <2>2, <2>3 DEF Inv, InvData
<1> QED  BY <1>1, <1>2

\* The inductive invariant holds in every reachable state.
LEMMA InvHolds == Spec => []Inv
BY InvInit, InvStep, PTL DEF Spec

\* The types of the scheduler's state hold in every reachable state.
THEOREM TypesHold == Spec => []Typed
<1>1. Inv => Typed  BY DEF Inv
<1> QED  BY <1>1, InvHolds, PTL

\* The work gate of src/src/runtime.rs is in order in every reachable state:
\* the two loops never use the RPC endpoints at the same time.
THEOREM GateIsExclusive == Spec => []GateOrder
<1>1. Inv => GateOrder  BY DEF Inv
<1> QED  BY <1>1, InvHolds, PTL

\* No slice is superseded while its requests run: install_snapshot and
\* classify_slice are kept apart by the gate.
THEOREM SlicesAreNotSuperseded == Spec => []SliceNeverSuperseded
<1>1. Inv => SliceNeverSuperseded  BY DEF Inv
<1> QED  BY <1>1, InvHolds, PTL

\* What a publisher shows is never ahead of its pipeline, and `complete' is
\* shown only of a generation without eligible work, whatever fails.
THEOREM PublishedIsNotAhead == Spec => []PublishedNeverAhead
<1>1. Inv => PublishedNeverAhead  BY DEF Inv
<1> QED  BY <1>1, InvHolds, PTL

-----------------------------------------------------------------------------
(* Nothing is lost between the pipeline and readers *)

\* A step that shows readers nothing new, installs nothing and leaves the
\* classification loop and what is scheduled alone keeps ScheduleInv.
LEMMA QuietSchedule ==
    ASSUME ScheduleInv, Typed,
           UNCHANGED <<pipe, cpc, source, expected, report, pending, active, wakeup>>,
           \A s \in Sources : /\ pub'[s].generation = pub[s].generation
                              /\ pub'[s].revision = pub[s].revision
                              /\ pub'[s].lifecycle = pub[s].lifecycle
    PROVE  ScheduleInv'
<1>1. source \in Sources  BY DEF Typed
<1>2. DeltaFollows'  BY <1>1 DEF ScheduleInv, DeltaFollows
<1>3. Rescheduled'  BY <1>1 DEF ScheduleInv, Rescheduled
<1>4. EveryRevisionPublished'  BY DEF ScheduleInv, EveryRevisionPublished
<1>5. ClassifyingIsScheduled'  BY DEF ScheduleInv, ClassifyingIsScheduled
<1> QED  BY <1>2, <1>3, <1>4, <1>5 DEF ScheduleInv

\* A generation that was just installed is not published yet.
LEMMA InstallSchedule ==
    ASSUME Inv, ScheduleInv, InstallSnapshot
    PROVE  ScheduleInv'
<1> USE DEF classificationVars
<1>0. Typed  BY DEF Inv
<1> USE <1>0, Numbers
<1>1. UNCHANGED <<pub, cpc, source, expected, report, pending, active, wakeup>>
  BY DEF InstallSnapshot
<1>2. /\ pipe'[turn].generation = pipe[turn].generation + 1
      /\ \A s \in Sources \ {turn} : pipe'[s] = pipe[s]
  BY DEF InstallSnapshot, Typed
<1>3. pub[turn].generation # pipe'[turn].generation
  BY <1>2 DEF Inv, PublishedNeverAhead
<1>4. DeltaFollows'  BY <1>1, <1>2, <1>3 DEF ScheduleInv, DeltaFollows
<1>5. Rescheduled'  BY <1>1, <1>2, <1>3 DEF ScheduleInv, Rescheduled
<1>6. EveryRevisionPublished'
  BY <1>1, <1>2, <1>3 DEF ScheduleInv, EveryRevisionPublished
<1>7. ClassifyingIsScheduled'
  BY <1>1, <1>2, <1>3 DEF ScheduleInv, ClassifyingIsScheduled
<1> QED  BY <1>4, <1>5, <1>6, <1>7 DEF ScheduleInv

\* A generation that is published is scheduled in the same step.
LEMMA PublishMembershipSchedule ==
    ASSUME Inv, ScheduleInv, PublishMembership
    PROVE  ScheduleInv'
<1> USE DEF classificationVars
<1>0. Typed  BY DEF Inv
<1> USE <1>0, Numbers
<1>1. UNCHANGED <<pipe, cpc, source, expected, report, active>>
  BY DEF PublishMembership
<1>2. CASE pub[turn].generation >= outcomes[turn].generation
  <2>1. UNCHANGED <<pub, pending, wakeup>>  BY <1>2 DEF PublishMembership
  <2> QED  BY <1>1, <2>1, QuietSchedule
<1>3. CASE pub[turn].generation < outcomes[turn].generation
  <2> DEFINE g == outcomes[turn].generation
  <2>1. /\ pub'[turn].generation = g /\ pub'[turn].revision = 0
        /\ \A s \in Sources \ {turn} : pub'[s] = pub[s]
    <3> DEFINE lifecycle == IF outcomes[turn].eligible THEN "classifying" ELSE "complete"
               p == [pub[turn] EXCEPT !.generation = g, !.revision = 0,
                                      !.failed = FALSE, !.lifecycle = lifecycle]
    <3>1. pub' = [pub EXCEPT ![turn] = p]  BY <1>3 DEF PublishMembership
    <3>2. pub[turn] \in Published  BY DEF Typed
    <3>3. p.generation = g /\ p.revision = 0  BY <3>2 DEF Published
    <3> HIDE DEF p
    <3>4. pub'[turn] = p /\ \A s \in Sources \ {turn} : pub'[s] = pub[s]
      BY <3>1 DEF Typed
    <3> QED  BY <3>3, <3>4
  <2>2. pending' = pending \cup {turn} /\ wakeup' = TRUE
    BY <1>3 DEF PublishMembership, ScheduleClassification
  <2>3. g <= pipe[turn].generation
    BY DEF PublishMembership, Inv, OutcomesInstalled
  <2>4. pipe[turn].revision = 0
    BY <1>3, <2>3 DEF Inv, UnpublishedIsFresh
  <2>5. source = turn /\ cpc \in {"slice", "publish"} => pub'[turn].generation # expected
    BY <1>3, <2>1 DEF Inv, ReportIsTrue
  <2>6. DeltaFollows'  BY <1>1, <2>1, <2>5 DEF ScheduleInv, DeltaFollows
  <2>7. Rescheduled'  BY <1>1, <2>1, <2>2 DEF ScheduleInv, Rescheduled
  <2>8. EveryRevisionPublished'
    BY <1>1, <2>1, <2>4 DEF ScheduleInv, EveryRevisionPublished
  <2>9. ClassifyingIsScheduled'
    BY <1>1, <2>1, <2>2 DEF ScheduleInv, ClassifyingIsScheduled
  <2> QED  BY <2>6, <2>7, <2>8, <2>9 DEF ScheduleInv
<1> QED  BY <1>2, <1>3

\* The loop that wakes up serves what is pending, and the source it picks is
\* in hand.
LEMMA PickSchedule ==
    ASSUME Inv, ScheduleInv, ClassificationWakes \/ PickSource
    PROVE  ScheduleInv'
<1> USE DEF membershipVars
<1>1. /\ UNCHANGED <<pub, pipe>> /\ cpc # "publish"
      /\ cpc' \in {"pick", "wait", "gate"}
  BY DEF ClassificationWakes, PickSource
<1>2. DeltaFollows' /\ Rescheduled'  BY <1>1 DEF DeltaFollows, Rescheduled
<1>3. EveryRevisionPublished'  BY <1>1 DEF ScheduleInv, EveryRevisionPublished
<1>4. ClassifyingIsScheduled'
  <2>1. CASE ClassificationWakes
    BY <2>1 DEF ClassificationWakes, ScheduleInv, ClassifyingIsScheduled
  <2>2. CASE PickSource
    <3>1. \A s \in Sources : pub[s].lifecycle = "classifying"
                               /\ pub[s].generation = pipe[s].generation
                             => s \in active \cup pending
      BY <2>2 DEF PickSource, ScheduleInv, ClassifyingIsScheduled
    <3>2. \A s \in active \cup pending :
             \/ s \in active' /\ cpc' # "wait"
             \/ s = source' /\ cpc' = "gate"
      BY <2>2 DEF PickSource
    <3> QED  BY <1>1, <3>1, <3>2 DEF ClassifyingIsScheduled
  <2> QED  BY <2>1, <2>2
<1> QED  BY <1>2, <1>3, <1>4 DEF ScheduleInv

\* A slice that begins, or is stale before it starts, is still in hand.
LEMMA BeginSliceSchedule ==
    ASSUME Inv, ScheduleInv, BeginSlice
    PROVE  ScheduleInv'
<1> USE DEF membershipVars
<1>1. /\ UNCHANGED <<pub, pipe, source, active, pending, wakeup>>
      /\ cpc = "gate" /\ cpc' \in {"slice", "publish"}
      /\ expected' = pub[source].generation
      /\ cpc' = "publish" => /\ pipe[source].generation # expected'
                             /\ report'.revision = 0
  BY DEF BeginSlice, NoReport
<1>2. DeltaFollows' /\ Rescheduled'  BY <1>1 DEF DeltaFollows, Rescheduled
<1>3. EveryRevisionPublished'
  BY <1>1 DEF ScheduleInv, EveryRevisionPublished
<1>4. ClassifyingIsScheduled'
  BY <1>1 DEF ScheduleInv, ClassifyingIsScheduled
<1> QED  BY <1>2, <1>3, <1>4 DEF ScheduleInv

\* A slice reports the next revision of the generation that is published.
LEMMA EndSliceSchedule ==
    ASSUME Inv, ScheduleInv, EndSlice
    PROVE  ScheduleInv'
<1> USE DEF membershipVars
<1>0. Typed  BY DEF Inv
<1> USE <1>0, Numbers
<1>1. /\ UNCHANGED <<pub, source, expected, active, pending, wakeup>>
      /\ cpc = "slice" /\ cpc' = "publish"
  BY DEF EndSlice
<1>2. pub[source].generation = pipe[source].generation /\ expected = pub[source].generation
  BY <1>1 DEF Inv, SliceNeverSuperseded, ReportIsTrue, PublishedNeverAhead
<1>3. pub[source].revision = pipe[source].revision
  BY <1>1, <1>2 DEF ScheduleInv, EveryRevisionPublished
<1>4. /\ \A s \in Sources \ {source} : pipe'[s] = pipe[s]
      /\ pipe'[source].generation = pipe[source].generation
      /\ report'.kind # "stale"
      /\ \/ /\ pipe'[source].revision = pipe[source].revision
            /\ report'.revision = 0
         \/ /\ pipe'[source].revision = pipe[source].revision + 1
            /\ report'.revision = pipe'[source].revision
  BY <1>2, StoreSliceEffect DEF EndSlice
<1>5. DeltaFollows'  BY <1>1, <1>3, <1>4 DEF DeltaFollows
<1>6. Rescheduled'  BY <1>1, <1>2, <1>4 DEF Rescheduled
<1>7. EveryRevisionPublished'
  BY <1>1, <1>2, <1>3, <1>4 DEF ScheduleInv, EveryRevisionPublished
<1>8. ClassifyingIsScheduled'
  BY <1>1, <1>4 DEF ScheduleInv, ClassifyingIsScheduled
<1> QED  BY <1>5, <1>6, <1>7, <1>8 DEF ScheduleInv

\* A report that is committed shows the last revision, and the source of one
\* that is not has been scheduled again.
LEMMA PublishReportSchedule ==
    ASSUME Inv, ScheduleInv, PublishReport
    PROVE  ScheduleInv'
<1> USE DEF membershipVars
<1>0. Typed  BY DEF Inv
<1> USE <1>0, Numbers
<1>1. /\ UNCHANGED <<pipe, pending, wakeup>>
      /\ cpc = "publish" /\ cpc' = "pick" /\ report.kind # "stale"
  BY DEF PublishReport, EndReport
<1>2. DeltaFollows' /\ Rescheduled'  BY <1>1 DEF DeltaFollows, Rescheduled
<1>3. \A s \in Sources \ {source} :
         pub[s].generation = pipe[s].generation => pub[s].revision = pipe[s].revision
  BY DEF ScheduleInv, EveryRevisionPublished
<1>4. \A s \in Sources \ {source} :
         pub[s].lifecycle = "classifying" /\ pub[s].generation = pipe[s].generation
           => s \in active \cup pending
  BY DEF ScheduleInv, ClassifyingIsScheduled
<1>5. CASE ReportIsCurrent /\ ~ ReportLeavesGap
  <2> DEFINE p == CommitReport(pub[source])
  <2>1. /\ pub' = [pub EXCEPT ![source] = p]
        /\ EndReport(report.kind = "continue")
    BY <1>5 DEF PublishReport
  <2>2. pub[source] \in Published  BY DEF Typed
  <2>3. /\ p.generation = pub[source].generation
        /\ p.revision = IF report.revision # 0 THEN report.revision
                                               ELSE pub[source].revision
        /\ p.lifecycle = Lifecycle(report.kind)
    BY <2>2 DEF CommitReport, Published
  <2>4. Lifecycle(report.kind) = "classifying" => report.kind = "continue"
    BY DEF Lifecycle
  <2> HIDE DEF p
  <2>5. pub'[source] = p /\ \A s \in Sources \ {source} : pub'[s] = pub[s]
    BY <2>1 DEF Typed
  <2>6. active \subseteq active' /\ (report.kind = "continue" => source \in active')
    BY <2>1 DEF EndReport
  <2>7. EveryRevisionPublished'
    <3>1. ASSUME pub[source].generation = pipe[source].generation
          PROVE  p.revision = pipe[source].revision
      <4>1. pub[source].generation = expected /\ pipe[source].generation = expected
        BY <1>5, <3>1 DEF ReportIsCurrent
      <4>2. \/ pub[source].revision = pipe[source].revision
            \/ report.revision = pub[source].revision + 1
                 /\ report.revision = pipe[source].revision
        BY <3>1 DEF ScheduleInv, EveryRevisionPublished
      <4>3. report.revision <= pipe[source].revision
        BY <1>1, <4>1 DEF Inv, ReportIsTrue
      <4>4. report.revision # 0 => report.revision = pub[source].revision + 1
        BY <1>5 DEF ReportLeavesGap
      <4> QED  BY <2>3, <4>2, <4>3, <4>4
    <3> QED  BY <1>1, <1>3, <2>3, <2>5, <3>1 DEF EveryRevisionPublished
  <2>8. ClassifyingIsScheduled'
    BY <1>1, <1>4, <2>3, <2>4, <2>5, <2>6 DEF ClassifyingIsScheduled
  <2> QED  BY <1>2, <2>7, <2>8 DEF ScheduleInv
<1>6. CASE ~ (ReportIsCurrent /\ ~ ReportLeavesGap)
  <2>1. pub' = pub /\ active \subseteq active'
    BY <1>6 DEF PublishReport, EndReport
  <2>2. pub[source].generation = expected /\ pipe[source].generation = expected => FALSE
    <3> SUFFICES ASSUME pub[source].generation = expected,
                        pipe[source].generation = expected
                 PROVE  FALSE
      OBVIOUS
    <3>1. report.revision # 0 => report.revision = pub[source].revision + 1
      BY <1>1 DEF ScheduleInv, DeltaFollows
    <3> QED  BY <1>6, <3>1 DEF ReportIsCurrent, ReportLeavesGap
  <2>3. EveryRevisionPublished'
    <3>1. pub[source].generation = pipe[source].generation =>
             pub[source].revision = pipe[source].revision
      BY <2>2 DEF ScheduleInv, EveryRevisionPublished
    <3> QED  BY <1>1, <1>3, <2>1, <3>1 DEF EveryRevisionPublished
  <2>4. ClassifyingIsScheduled'
    <3>1. pub[source].generation = pipe[source].generation => source \in pending
      BY <1>1, <2>2 DEF ScheduleInv, Rescheduled
    <3> QED  BY <1>1, <1>4, <2>1, <3>1 DEF ClassifyingIsScheduled
  <2> QED  BY <1>2, <2>3, <2>4 DEF ScheduleInv
<1> QED  BY <1>5, <1>6

\* A stale report carries no delta, and its source has been scheduled again.
LEMMA DropStaleSchedule ==
    ASSUME Inv, ScheduleInv, DropStaleReport
    PROVE  ScheduleInv'
<1> USE DEF membershipVars
<1>0. Typed  BY DEF Inv
<1> USE <1>0, Numbers
<1>1. /\ UNCHANGED <<pub, pipe, pending, wakeup>> /\ active \subseteq active'
      /\ cpc = "publish" /\ cpc' = "pick" /\ report.kind = "stale"
  BY DEF DropStaleReport, EndReport
<1>2. DeltaFollows' /\ Rescheduled'  BY <1>1 DEF DeltaFollows, Rescheduled
<1>3. EveryRevisionPublished'
  <2>1. report.revision = 0  BY <1>1 DEF Inv, ReportIsTrue
  <2> QED  BY <1>1, <2>1 DEF ScheduleInv, EveryRevisionPublished
<1>4. ClassifyingIsScheduled'
  <2>1. pub[source].generation = pipe[source].generation => source \in pending
    BY <1>1 DEF ScheduleInv, Rescheduled
  <2> QED  BY <1>1, <2>1 DEF ScheduleInv, ClassifyingIsScheduled
<1> QED  BY <1>2, <1>3, <1>4 DEF ScheduleInv

\* Without publication errors every step keeps ScheduleInv.
LEMMA ScheduleStep ==
    ASSUME "publication" \notin Faults, Inv, ScheduleInv, [Next]_vars
    PROVE  ScheduleInv'
<1> USE DEF membershipVars, classificationVars
<1>0. Typed  BY DEF Inv
<1>1. CASE RoundBegins \/ ClockFails \/ PollFails \/ InstallOverflows \/ LogOtherError
             \/ UNCHANGED vars
  <2>1. UNCHANGED <<pub, pipe, cpc, source, expected, report, pending, active, wakeup>>
    BY <1>1 DEF RoundBegins, ClockFails, PollFails, InstallOverflows, LogOtherError, vars
  <2> QED  BY <1>0, <2>1, QuietSchedule
<1>2. CASE PollStarts \/ PublishFailure
  <2>1. UNCHANGED <<pipe, cpc, source, expected, report, pending, active, wakeup>>
    BY <1>2 DEF PollStarts, PublishFailure
  <2>2. \A s \in Sources : /\ pub'[s].generation = pub[s].generation
                           /\ pub'[s].revision = pub[s].revision
                           /\ pub'[s].lifecycle = pub[s].lifecycle
    BY <1>0, <1>2 DEF PollStarts, PublishFailure, Typed, Published
  <2> QED  BY <1>0, <2>1, <2>2, QuietSchedule
<1>3. CASE InstallSnapshot  BY <1>3, InstallSchedule
<1>4. CASE PublishMembership  BY <1>4, PublishMembershipSchedule
<1>5. CASE ClassificationWakes \/ PickSource  BY <1>5, PickSchedule
<1>6. CASE BeginSlice  BY <1>6, BeginSliceSchedule
<1>7. CASE EndSlice  BY <1>7, EndSliceSchedule
<1>8. CASE PublishReport  BY <1>8, PublishReportSchedule
<1>9. CASE DropStaleReport  BY <1>9, DropStaleSchedule
<1>10. ~ MembershipPublicationFails /\ ~ ReportPublicationFails
  BY DEF MembershipPublicationFails, ReportPublicationFails
<1> QED
  BY <1>1, <1>2, <1>3, <1>4, <1>5, <1>6, <1>7, <1>8, <1>9, <1>10
     DEF Next, RoundSteps, ClassificationSteps

\* Nothing is scheduled, and nothing is published, at the start.
LEMMA ScheduleInit == Init => ScheduleInv
BY DEF Init, ScheduleInv, DeltaFollows, Rescheduled, EveryRevisionPublished,
   ClassifyingIsScheduled, NoReport

\* As long as no publication fails, ScheduleInv holds in every reachable state.
LEMMA ScheduleHolds ==
    ASSUME "publication" \notin Faults
    PROVE  Spec => []ScheduleInv
<1>1. Inv /\ ScheduleInv /\ [Next]_vars => ScheduleInv'  BY ScheduleStep
<1> QED  BY <1>1, InvHolds, ScheduleInit, PTL DEF Spec

\* As long as no publication fails, every revision of the published generation
\* is visible or about to be: publish_classification_update never meets a gap.
THEOREM RevisionsArePublished ==
    ASSUME "publication" \notin Faults
    PROVE  Spec => []EveryRevisionPublished
<1>1. ScheduleInv => EveryRevisionPublished  BY DEF ScheduleInv
<1> QED  BY <1>1, ScheduleHolds, PTL

\* As long as no publication fails, a generation shown as classifying is queued
\* or in hand, and the loop that serves it is awake or about to be woken.
THEOREM ClassifyingStaysScheduled ==
    ASSUME "publication" \notin Faults
    PROVE  Spec => []ClassifyingIsScheduled
<1>1. ScheduleInv => ClassifyingIsScheduled  BY DEF ScheduleInv
<1> QED  BY <1>1, ScheduleHolds, PTL

-----------------------------------------------------------------------------
(* Every source is attempted in every round *)

\* The source has had its turn in this round.
Attempted(s) ==
    /\ outcomes[s].kind # "none"
    /\ outcomes[s].kind \in {"failed", "installed"} => pub[s].poll = round

\* A round starts with the first source, and the sources before the one whose
\* turn it is have had theirs.
RoundInv ==
    /\ mpc = "interval" => turn = 0
    /\ mpc = "collect" => pub[turn].poll = round
    /\ RoundInGate => \A s \in 0 .. turn - 1 : Attempted(s)
    /\ mpc = "publish" => \A s \in turn .. NumSources - 1 : Attempted(s)

\* A turn that ends has been attempted.
LEMMA EndTurnRound ==
    ASSUME Typed, RoundInv, NEW o, EndTurn(o), UNCHANGED <<pub, round>>, RoundInGate,
           o.kind # "none",
           o.kind \in {"failed", "installed"} => pub[turn].poll = round
    PROVE  RoundInv'
<1>1. turn \in Sources /\ NumSources \in 1 .. 4  BY AtlasRuntimeAssumption DEF Typed
<1>2. \A s \in 0 .. turn - 1 : Attempted(s)  BY DEF RoundInv
<1>3. outcomes'[turn] = o /\ \A s \in Sources \ {turn} : outcomes'[s] = outcomes[s]
  BY <1>1 DEF EndTurn, Typed
<1>4. \A s \in 0 .. turn : Attempted(s)'
  BY <1>1, <1>2, <1>3 DEF Attempted, Sources
<1>5. \/ mpc' = "poll" /\ turn' = turn + 1
      \/ mpc' = "publish" /\ turn' = 0 /\ turn = NumSources - 1
  BY <1>1 DEF EndTurn, Sources
<1>6. turn \in Nat  BY <1>1 DEF Sources
<1>7. CASE mpc' = "poll" /\ turn' = turn + 1
  <2>1. 0 .. turn' - 1 = 0 .. turn  BY <1>6, <1>7
  <2> QED  BY <1>4, <1>7, <2>1 DEF RoundInv, RoundInGate
<1>8. CASE mpc' = "publish" /\ turn' = 0 /\ turn = NumSources - 1
  <2>1. turn' .. NumSources - 1 = 0 .. turn  BY <1>8
  <2> QED  BY <1>4, <1>8, <2>1 DEF RoundInv, RoundInGate
<1> QED  BY <1>5, <1>7, <1>8

\* A publication that ends leaves the outcomes of later sources alone.
LEMMA EndPublicationRound ==
    ASSUME Typed, RoundInv, mpc = "publish", EndPublication, UNCHANGED round,
           \A s \in Sources : pub'[s].poll = pub[s].poll
    PROVE  RoundInv'
<1>1. turn \in Sources /\ NumSources \in 1 .. 4  BY AtlasRuntimeAssumption DEF Typed
<1>2. \A s \in (turn + 1) .. (NumSources - 1) : Attempted(s)'
  <2> SUFFICES ASSUME NEW s \in (turn + 1) .. (NumSources - 1)
               PROVE  Attempted(s)'
    OBVIOUS
  <2>1. s \in Sources /\ s # turn /\ s \in turn .. NumSources - 1  BY <1>1 DEF Sources
  <2>2. Attempted(s)  BY <2>1 DEF RoundInv
  <2>3. outcomes'[s] = outcomes[s]  BY <2>1, EndPublicationOutcomes
  <2> QED  BY <2>1, <2>2, <2>3 DEF Attempted
<1>3. \/ mpc' = "publish" /\ turn' = turn + 1
      \/ mpc' = "interval" /\ turn' = 0
  BY DEF EndPublication
<1> QED  BY <1>2, <1>3 DEF RoundInv, RoundInGate

\* What the other loop does is no part of a round.
LEMMA OtherLoopRound ==
    ASSUME Typed, RoundInv, UNCHANGED membershipVars,
           \A s \in Sources : pub'[s].poll = pub[s].poll
    PROVE  RoundInv'
<1>1. turn \in Sources /\ NumSources \in 1 .. 4  BY AtlasRuntimeAssumption DEF Typed
<1>2. \A s \in Sources : Attempted(s) => Attempted(s)'
  BY DEF Attempted, membershipVars
<1>3. 0 .. turn - 1 \subseteq Sources /\ turn .. NumSources - 1 \subseteq Sources
  BY <1>1 DEF Sources
<1> QED  BY <1>1, <1>2, <1>3 DEF RoundInv, RoundInGate, membershipVars

\* Every step keeps RoundInv.
LEMMA RoundStep ==
    ASSUME Typed, RoundInv, [Next]_vars
    PROVE  RoundInv'
<1> USE DEF classificationVars
<1>1. CASE RoundBegins
  BY <1>1 DEF RoundBegins, RoundInv, RoundInGate
<1>2. CASE ClockFails
  <2>1. [NoOutcome EXCEPT !.kind = "other"].kind = "other"  BY DEF NoOutcome
  <2> QED  BY <1>2, <2>1, EndTurnRound DEF ClockFails, RoundInGate
<1>3. CASE PollStarts
  <2>1. /\ mpc = "poll" /\ mpc' = "collect" /\ UNCHANGED <<round, turn, outcomes>>
        /\ pub'[turn].poll = round
        /\ \A s \in Sources \ {turn} : pub'[s] = pub[s]
    BY <1>3 DEF PollStarts, Typed, Published
  <2>2. turn \in Sources  BY DEF Typed
  <2>3. \A s \in 0 .. turn - 1 : s \in Sources \ {turn} /\ Attempted(s)
    BY <2>1, <2>2, AtlasRuntimeAssumption DEF Sources, RoundInv, RoundInGate
  <2>4. \A s \in 0 .. turn - 1 : Attempted(s)'
    BY <2>1, <2>3 DEF Attempted
  <2> QED  BY <2>1, <2>4 DEF RoundInv, RoundInGate
<1>4. CASE PollFails
  <2>1. [NoOutcome EXCEPT !.kind = "failed"].kind = "failed"  BY DEF NoOutcome
  <2>2. pub[turn].poll = round  BY <1>4 DEF PollFails, RoundInv
  <2> QED  BY <1>4, <2>1, <2>2, EndTurnRound DEF PollFails, RoundInGate
<1>5. CASE InstallSnapshot
  <2>1. pub[turn].poll = round  BY <1>5 DEF InstallSnapshot, RoundInv
  <2>2. PICK work \in 0 .. MaxWork :
           EndTurn([kind |-> "installed", generation |-> pipe[turn].generation + 1,
                    eligible |-> work > 0])
    BY <1>5 DEF InstallSnapshot
  <2> QED  BY <1>5, <2>1, <2>2, EndTurnRound DEF InstallSnapshot, RoundInGate
<1>6. CASE InstallOverflows
  <2>1. [NoOutcome EXCEPT !.kind = "other"].kind = "other"  BY DEF NoOutcome
  <2> QED  BY <1>6, <2>1, EndTurnRound DEF InstallOverflows, RoundInGate
<1>7. CASE PublishMembership \/ PublishFailure \/ LogOtherError
             \/ MembershipPublicationFails
  <2>1. \A s \in Sources : pub'[s].poll = pub[s].poll
    <3>1. CASE PublishMembership
      <4> DEFINE o == outcomes[turn]
                 p == [pub[turn] EXCEPT !.generation = o.generation, !.revision = 0,
                                        !.failed = FALSE,
                                        !.lifecycle = IF o.eligible THEN "classifying"
                                                                    ELSE "complete"]
      <4>1. p.poll = pub[turn].poll  BY DEF Typed, Published
      <4>2. pub' = pub \/ pub' = [pub EXCEPT ![turn] = p]
        BY <3>1 DEF PublishMembership
      <4> HIDE DEF p
      <4> QED  BY <4>1, <4>2 DEF Typed
    <3>2. CASE PublishFailure  BY <3>2 DEF PublishFailure, Typed, Published
    <3>3. CASE LogOtherError \/ MembershipPublicationFails
      BY <3>3 DEF LogOtherError, MembershipPublicationFails
    <3> QED  BY <1>7, <3>1, <3>2, <3>3
  <2>2. mpc = "publish" /\ EndPublication /\ UNCHANGED round
    BY <1>7 DEF PublishMembership, PublishFailure, LogOtherError,
       MembershipPublicationFails
  <2> QED  BY <2>1, <2>2, EndPublicationRound
<1>8. CASE PublishReport
  <2>1. \A s \in Sources : pub'[s].poll = pub[s].poll
    <3>1. CommitReport(pub[source]).poll = pub[source].poll
      BY DEF CommitReport, Typed, Published
    <3>2. pub' = pub \/ pub' = [pub EXCEPT ![source] = CommitReport(pub[source])]
      BY <1>8 DEF PublishReport
    <3> QED  BY <3>1, <3>2 DEF Typed
  <2> QED  BY <1>8, <2>1, OtherLoopRound DEF PublishReport
<1>9. CASE ClassificationWakes \/ PickSource \/ BeginSlice \/ EndSlice
             \/ DropStaleReport \/ ReportPublicationFails \/ UNCHANGED vars
  <2>1. UNCHANGED <<pub, membershipVars>>
    BY <1>9 DEF ClassificationWakes, PickSource, BeginSlice, EndSlice,
       DropStaleReport, ReportPublicationFails, vars
  <2> QED  BY <2>1, OtherLoopRound
<1> QED
  BY <1>1, <1>2, <1>3, <1>4, <1>5, <1>6, <1>7, <1>8, <1>9
     DEF Next, RoundSteps, ClassificationSteps

\* Whatever fails for one source, every source of a round has had its turn when
\* the round's outcomes are published.
THEOREM SourcesAreAttempted == Spec => []EverySourceAttempted
<1>1. Init => RoundInv  BY DEF Init, RoundInv, RoundInGate
<1>2. Typed /\ RoundInv /\ [Next]_vars => RoundInv'  BY RoundStep
<1>3. RoundInv => EverySourceAttempted
  BY DEF RoundInv, EverySourceAttempted, Attempted
<1> QED  BY <1>1, <1>2, <1>3, TypesHold, PTL DEF Spec

-----------------------------------------------------------------------------
(* Classification is round-robin *)

InHand == cpc \in {"gate", "slice", "publish"}

After(s) == IF s + 1 = NumSources THEN 0 ELSE s + 1

\* Where the next search starts.
Cursor == IF InHand THEN After(source) ELSE next

\* Sources between the cursor and a source, in the order of the search.
Distance(c, t) == IF t >= c THEN t - c ELSE t + NumSources - c

\* Each time another source is served the cursor comes closer.
FairInv ==
    /\ skipped \in [Sources -> Nat]
    /\ InHand => source \notin active
    /\ \A t \in Sources : t \notin active => skipped[t] = 0
    /\ \A t \in active : skipped[t] + Distance(Cursor, t) < NumSources

\* The cursor wraps around.
LEMMA CursorWraps ==
    ASSUME NEW s \in Sources
    PROVE  (s + 1) % NumSources = After(s) /\ After(s) \in Sources
<1>1. NumSources = 1 \/ NumSources = 2 \/ NumSources = 3 \/ NumSources = 4
  BY AtlasRuntimeAssumption
<1>2. CASE NumSources = 1  BY <1>2 DEF Sources, After
<1>3. CASE NumSources = 2  BY <1>3 DEF Sources, After
<1>4. CASE NumSources = 3  BY <1>4 DEF Sources, After
<1>5. CASE NumSources = 4  BY <1>5 DEF Sources, After
<1> QED  BY <1>1, <1>2, <1>3, <1>4, <1>5

\* Serving the source that RoundRobin chooses brings the cursor closer to every
\* other one.
LEMMA ChoiceComesCloser ==
    ASSUME NEW S \in SUBSET Sources, NEW t \in S, t # RoundRobin(S), next \in Sources
    PROVE  Distance(After(RoundRobin(S)), t) + 1 <= Distance(next, t)
<1> DEFINE s == RoundRobin(S)
<1>1. s \in Sources /\ t \in Sources /\ s # t
  BY RoundRobinChooses
<1>2. \/ t >= next /\ s >= next /\ s <= t
      \/ ~ (t >= next) /\ s >= next
      \/ ~ (t >= next) /\ s <= t
  BY RoundRobinChooses
<1> HIDE DEF s
<1>3. Distance(After(s), t) + 1 <= Distance(next, t)
  BY <1>1, <1>2, AtlasRuntimeAssumption DEF Sources, After, Distance
<1> QED  BY <1>3 DEF s

\* A step that leaves the queue of sources alone keeps FairInv.
LEMMA QueueUnchanged ==
    ASSUME FairInv, UNCHANGED <<active, next, source, skipped>>, InHand' <=> InHand
    PROVE  FairInv'
BY DEF FairInv, Cursor

\* The report that ends puts its source behind all others.
LEMMA EndReportFair ==
    ASSUME Typed, FairInv, NEW again \in BOOLEAN, EndReport(again),
           cpc = "publish", UNCHANGED skipped
    PROVE  FairInv'
<1>1. source \in Sources /\ NumSources \in 1 .. 4 /\ active \subseteq Sources
  BY AtlasRuntimeAssumption DEF Typed
<1>2. /\ next' = After(source) /\ After(source) \in Sources
      /\ active' \subseteq active \cup {source} /\ active \subseteq active'
      /\ cpc' = "pick"
  BY <1>1, CursorWraps DEF EndReport
<1>3. Cursor' = After(source) /\ Cursor = After(source) /\ ~ InHand'
  BY <1>2 DEF Cursor, InHand
<1>4. skipped[source] = 0  BY <1>1 DEF FairInv, InHand
<1>5. Distance(After(source), source) < NumSources
  BY <1>1, <1>2 DEF Distance, Sources
<1>6. Distance(After(source), source) \in Int
  BY <1>1, <1>2 DEF Distance, Sources
<1>7. \A t \in active' : skipped[t] + Distance(After(source), t) < NumSources
  BY <1>2, <1>3, <1>4, <1>5, <1>6 DEF FairInv
<1> QED  BY <1>2, <1>3, <1>7 DEF FairInv

\* The source that is picked was never more than a round away.
LEMMA PickSourceFair ==
    ASSUME Typed, FairInv, PickSource
    PROVE  FairInv'
<1> DEFINE ready == active \cup pending
           s == RoundRobin(ready)
<1>1. ready \subseteq Sources /\ next \in Sources /\ NumSources \in 1 .. 4
  BY AtlasRuntimeAssumption DEF Typed
<1>2. CASE ready = {}
  <2>1. active' = {} /\ active = {} /\ cpc' = "wait" /\ UNCHANGED skipped
    BY <1>2 DEF PickSource
  <2> QED  BY <2>1 DEF FairInv, InHand
<1>3. CASE ready # {}
  <2>1. /\ active' = ready \ {s} /\ source' = s /\ cpc' = "gate" /\ cpc = "pick"
        /\ skipped' = [t \in Sources |-> IF t \in ready \ {s} THEN skipped[t] + 1 ELSE 0]
    BY <1>3 DEF PickSource
  <2>2. Cursor' = After(s) /\ Cursor = next  BY <2>1 DEF Cursor, InHand
  <2>3. ASSUME NEW t \in ready, t # s
        PROVE  skipped'[t] + Distance(After(s), t) < NumSources
    <3>1. t \in Sources /\ skipped[t] \in Nat /\ skipped'[t] = skipped[t] + 1
      BY <1>1, <2>1, <2>3 DEF FairInv
    <3>2. Distance(After(s), t) + 1 <= Distance(next, t)
      BY <1>1, <2>3, ChoiceComesCloser
    <3>3. Distance(next, t) \in Int /\ Distance(next, t) < NumSources
      BY <1>1, <3>1 DEF Distance, Sources
    <3>4. skipped[t] + Distance(next, t) < NumSources
      <4>1. CASE t \in active  BY <2>2, <4>1 DEF FairInv
      <4>2. CASE t \notin active
        <5>1. skipped[t] = 0  BY <3>1, <4>2 DEF FairInv
        <5> QED  BY <3>3, <5>1
      <4> QED  BY <4>1, <4>2
    <3>5. s \in Sources  BY <1>1, <1>3, RoundRobinChooses
    <3>6. After(s) \in Sources  BY <3>5, CursorWraps
    <3>7. Distance(After(s), t) \in Int  BY <1>1, <3>1, <3>6 DEF Distance, Sources
    <3> QED  BY <1>1, <3>1, <3>2, <3>3, <3>4, <3>7
  <2> HIDE DEF s
  <2>4. skipped' \in [Sources -> Nat]  BY <1>1, <2>1 DEF FairInv
  <2>5. \A t \in Sources : t \notin active' => skipped'[t] = 0  BY <2>1
  <2>6. \A t \in active' : skipped'[t] + Distance(Cursor', t) < NumSources
    BY <2>1, <2>2, <2>3
  <2>7. source' \notin active'  BY <2>1
  <2> QED  BY <2>4, <2>5, <2>6, <2>7 DEF FairInv
<1> QED  BY <1>2, <1>3

\* Every step keeps FairInv.
LEMMA FairStep ==
    ASSUME Typed, FairInv, [Next]_vars
    PROVE  FairInv'
<1> USE DEF membershipVars, classificationVars
<1>1. CASE RoundBegins \/ RoundSteps \/ UNCHANGED vars
  <2>1. UNCHANGED classificationVars
    BY <1>1 DEF RoundBegins, RoundSteps, ClockFails, PollStarts, PollFails,
       InstallSnapshot, InstallOverflows, PublishMembership, PublishFailure,
       LogOtherError, MembershipPublicationFails, vars
  <2> QED  BY <2>1, QueueUnchanged DEF InHand
<1>2. CASE ClassificationWakes
  BY <1>2, QueueUnchanged DEF ClassificationWakes, InHand
<1>3. CASE PickSource  BY <1>3, PickSourceFair
<1>4. CASE BeginSlice
  BY <1>4, QueueUnchanged DEF BeginSlice, InHand
<1>5. CASE EndSlice
  BY <1>5, QueueUnchanged DEF EndSlice, InHand
<1>6. CASE PublishReport \/ DropStaleReport \/ ReportPublicationFails
  <2>1. \E again \in BOOLEAN : EndReport(again)
    BY <1>6 DEF PublishReport, DropStaleReport, ReportPublicationFails
  <2>2. cpc = "publish" /\ UNCHANGED skipped
    BY <1>6 DEF PublishReport, DropStaleReport, ReportPublicationFails
  <2> QED  BY <2>1, <2>2, EndReportFair
<1> QED
  BY <1>1, <1>2, <1>3, <1>4, <1>5, <1>6 DEF Next, ClassificationSteps

\* While a source waits for its slice every other source gets at most one: the
\* cursor of run_classification makes the search round-robin.
THEOREM ClassificationIsRoundRobin == Spec => []RoundRobinIsFair
<1>1. Init => FairInv
  BY AtlasRuntimeAssumption DEF Init, FairInv, InHand
<1>2. Typed /\ FairInv /\ [Next]_vars => FairInv'  BY FairStep
<1>3. Typed /\ FairInv => RoundRobinIsFair
  <2> SUFFICES ASSUME Typed, FairInv, NEW t \in Sources
               PROVE  skipped[t] < NumSources
    BY DEF RoundRobinIsFair
  <2>1. NumSources \in 1 .. 4 /\ skipped[t] \in Nat
    BY AtlasRuntimeAssumption DEF FairInv
  <2>2. CASE t \notin active  BY <2>1, <2>2 DEF FairInv
  <2>3. CASE t \in active
    <3>1. Cursor \in Sources  BY CursorWraps DEF Cursor, Typed
    <3>2. Distance(Cursor, t) \in Nat
      BY <2>1, <3>1 DEF Distance, Sources
    <3>3. skipped[t] + Distance(Cursor, t) < NumSources  BY <2>3 DEF FairInv
    <3> QED  BY <2>1, <3>2, <3>3
  <2> QED  BY <2>2, <2>3
<1> QED  BY <1>1, <1>2, <1>3, TypesHold, PTL DEF Spec

=============================================================================
