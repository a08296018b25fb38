--------------------------- MODULE PublisherProofs ---------------------------
(***************************************************************************)
(* Proofs about Publisher, for any sets of tasks, transactions, variants,  *)
(* results and errors and any bounds.                                      *)
(***************************************************************************)
EXTENDS Publisher, FiniteSetTheorems, TLAPS

-----------------------------------------------------------------------------
(* The operators the model is built from *)

\* Materializing classifications of a membership yields a snapshot.
LEMMA MaterializeType ==
    ASSUME NEW m \in Membership, NEW r \in Nat, NEW k \in ClassificationMap
    PROVE  Materialize(m, r, k) \in Snapshot
BY DEF Materialize, Membership, Snapshot, ClassificationMap, VariantMap,
       Classification, Option

\* Accumulating a delta yields a classification map that drops nothing.
LEMMA AccumulateType ==
    ASSUME NEW k \in ClassificationMap, NEW d \in ClassificationMap
    PROVE  /\ Accumulate(k, d) \in ClassificationMap
           /\ Present(k) \subseteq Present(Accumulate(k, d))
BY DEF Accumulate, ClassificationMap, Present

\* The counts in a summary are natural numbers.
LEMMA PresentFinite ==
    ASSUME NEW f, NEW g
    PROVE  /\ Cardinality(Present(f)) \in Nat
           /\ Cardinality(Present(f) \ Present(g)) \in Nat
<1>1. IsFiniteSet(Present(f))
  BY TxidsFinite, FS_Subset DEF Present
<1>2. IsFiniteSet(Present(f) \ Present(g))
  BY <1>1, FS_Subset
<1> QED
  BY <1>1, <1>2, FS_CardinalityType

\* Encoding well-typed parts yields a well-typed body that shows exactly them.
LEMMA EncodeType ==
    ASSUME NEW poll \in Option(Nat), NEW snapshot \in Option(Snapshot),
           NEW state \in Option(Lifecycles), NEW error \in Option(Errors)
    PROVE  Encode(poll, snapshot, state, error) \in ResponseBody
<1>1. Availability(snapshot, error) \in {"waiting", "error", "ready", "stale"}
  BY DEF Availability
<1>2. snapshot # None /\ state # None =>
        ProgressOf(state, snapshot) \in Progress
  BY PresentFinite DEF ProgressOf, Progress, Option, Snapshot
<1>3. (IF snapshot # None /\ state # None
       THEN ProgressOf(state, snapshot) ELSE None) \in Option(Progress)
  BY <1>2 DEF Option
<1> QED
  BY <1>1, <1>3 DEF Encode, ResponseBody

\* The poll time of an encoded body is the one it was encoded with, and
\* encoding again with it gives the same body.
LEMMA EncodeAgain ==
    ASSUME NEW poll, NEW snapshot, NEW state, NEW error
    PROVE  LET b == Encode(poll, snapshot, state, error)
           IN  b = Encode(b.poll, snapshot, state, error)
BY DEF Encode

-----------------------------------------------------------------------------
(* Critical sections keep the state well typed *)

\* Replacing the cached response keeps it well typed.
LEMMA ReplaceCachedResponseType ==
    ASSUME StateTypeOK, latest' \in Option(Snapshot),
           NEW body \in ResponseBody, ReplaceCachedResponse(body)
    PROVE  /\ cachedResponse' \in Response
           /\ responseRevision' \in Nat
BY DEF StateTypeOK, ReplaceCachedResponse, Response, ETag, Option, Snapshot

\* Recording a poll start keeps the types.
LEMMA StorePollStartType ==
    ASSUME StateTypeOK, NEW time \in Nat, StorePollStart(time)
    PROVE  StateTypeOK'
BY DEF StateTypeOK, StorePollStart, Option

\* Committing a membership keeps the types.
LEMMA StoreMembershipType ==
    ASSUME StateTypeOK, NEW g \in Nat, NEW m \in Membership,
           NEW k \in ClassificationMap, NEW state \in Lifecycles,
           NEW body \in ResponseBody, StoreMembership(g, m, k, state, body)
    PROVE  StateTypeOK'
<1>1. latest' \in Option(Snapshot)
  BY MaterializeType DEF StoreMembership, Option
<1>2. cachedResponse' \in Response /\ responseRevision' \in Nat
  BY <1>1, ReplaceCachedResponseType DEF StoreMembership
<1> QED
  BY <1>1, <1>2 DEF StateTypeOK, StoreMembership, Option

\* Committing a classification update keeps the types.
LEMMA StoreUpdateType ==
    ASSUME StateTypeOK, NEW r \in Nat, NEW snapshot \in Snapshot,
           NEW k \in ClassificationMap, NEW state \in Lifecycles,
           NEW body \in ResponseBody, StoreUpdate(r, snapshot, k, state, body)
    PROVE  StateTypeOK'
<1>1. latest' \in Option(Snapshot)
  BY DEF StoreUpdate, Option
<1>2. cachedResponse' \in Response /\ responseRevision' \in Nat
  BY <1>1, ReplaceCachedResponseType DEF StoreUpdate
<1> QED
  BY <1>1, <1>2 DEF StateTypeOK, StoreUpdate, Option

\* Committing a lifecycle change keeps the types.
LEMMA StoreLifecycleType ==
    ASSUME StateTypeOK, NEW state \in Lifecycles, NEW body \in ResponseBody,
           StoreLifecycle(state, body)
    PROVE  StateTypeOK'
<1>1. latest' \in Option(Snapshot)
  BY DEF StoreLifecycle, StateTypeOK
<1>2. cachedResponse' \in Response /\ responseRevision' \in Nat
  BY <1>1, ReplaceCachedResponseType DEF StoreLifecycle
<1> QED
  BY <1>1, <1>2 DEF StateTypeOK, StoreLifecycle, Option

\* Committing a failure keeps the types.
LEMMA StoreFailureType ==
    ASSUME StateTypeOK, NEW error \in Errors, NEW body \in ResponseBody,
           StoreFailure(error, body)
    PROVE  StateTypeOK'
<1>1. latest' \in Option(Snapshot)
  BY DEF StoreFailure, StateTypeOK
<1>2. cachedResponse' \in Response /\ responseRevision' \in Nat
  BY <1>1, ReplaceCachedResponseType DEF StoreFailure
<1> QED
  BY <1>1, <1>2 DEF StateTypeOK, StoreFailure, Option

\* The state of a fresh process is well typed.
LEMMA StateResetType == ASSUME StateReset PROVE StateTypeOK'
BY DEF StateReset, StateTypeOK, NoClassifications, ClassificationMap, Option

-----------------------------------------------------------------------------
(* Type correctness *)

\* What a call reads under the lock is well typed.
LEMMA ViewType == ASSUME StateTypeOK PROVE View \in Views
BY DEF StateTypeOK, View, Views

\* A step of caller c that ends its call keeps the types.
LEMMA EndCallType ==
    ASSUME TypeOK, NEW c \in Callers, EndCall(c), StateTypeOK'
    PROVE  TypeOK'
BY DEF TypeOK, EndCall, Option

\* A call that gives up keeps the types.
LEMMA ReturnType ==
    ASSUME TypeOK, NEW c \in Callers, Return(c) \/ Fail(c)
    PROVE  TypeOK'
BY EndCallType DEF Return, Fail, TypeOK, StateTypeOK, readerVars

\* Starting a call with well-typed arguments keeps the types.
LEMMA CallType ==
    ASSUME TypeOK, NEW c \in Callers, NEW a \in Argument,
           NEW step \in {"check", "read"}, Call(c, a, step),
           step = "check" => a.op = "membership"
    PROVE  TypeOK'
BY DEF TypeOK, Call, Tick, StateTypeOK, readerVars, Option

\* Reading under the lock keeps the types.
LEMMA CaptureType ==
    ASSUME TypeOK, NEW c \in Callers, pc[c] = "read", Capture(c),
           arg[c].op = "update" => membership # None
    PROVE  TypeOK'
<1>1. View \in Views /\ View.membership = membership
  BY ViewType DEF TypeOK, View
<1>2. StateTypeOK'
  BY DEF TypeOK, StateTypeOK, Capture, readerVars
<1> QED
  BY <1>1, <1>2 DEF TypeOK, Capture, Option

\* Going round the loop keeps the types.
LEMMA ReadAgainType ==
    ASSUME TypeOK, NEW c \in Callers, pc[c] # "idle", ReadAgain(c)
    PROVE  TypeOK'
BY DEF TypeOK, ReadAgain, StateTypeOK, readerVars, Option

\* The arguments of a running call, by operation.
LEMMA ArgumentType ==
    ASSUME TypeOK, NEW c \in Callers, pc[c] # "idle"
    PROVE  /\ arg[c].op \in {"membership", "update", "lifecycle", "failure"}
           /\ arg[c].op = "membership" =>
                /\ arg[c].generation \in Nat
                /\ arg[c].lifecycle \in {"classifying", "complete"}
                /\ arg[c].membership \in Membership
                /\ arg[c].classifications \in ClassificationMap
           /\ arg[c].op = "update" =>
                /\ arg[c].generation \in Nat
                /\ arg[c].lifecycle \in Lifecycles
                /\ arg[c].revision \in Nat
                /\ arg[c].classifications \in ClassificationMap
           /\ arg[c].op = "lifecycle" =>
                /\ arg[c].generation \in Nat
                /\ arg[c].lifecycle \in Lifecycles
           /\ arg[c].op = "failure" => arg[c].error \in Errors
<1>1. arg[c] \in Argument
  BY DEF TypeOK
<1> QED
  BY <1>1 DEF Argument

\* Initially every field has its type.
LEMMA InitType == Init => TypeOK
BY DEF Init, StateInit, TypeOK, StateTypeOK, NoClassifications,
       ClassificationMap, Option

\* Every step keeps the types.
LEMMA StepType == TypeOK /\ [Next]_vars => TypeOK'
<1> SUFFICES ASSUME TypeOK, [Next]_vars PROVE TypeOK'
  OBVIOUS
<1>1. ASSUME NEW c \in Callers, RecordPollStarted(c) PROVE TypeOK'
  <2>1. StateTypeOK'
    BY <1>1, StorePollStartType DEF RecordPollStarted, TypeOK
  <2> QED
    BY <1>1, <2>1 DEF RecordPollStarted, TypeOK, Tick, callVars
<1>2. ASSUME NEW c \in Callers, CallPublishMembership(c) PROVE TypeOK'
  <2>1. PICK g \in 1 .. MaxGeneration, v \in Variants,
             k \in ClassificationInputs, state \in {"classifying", "complete"} :
          Call(c, [op |-> "membership", generation |-> g, lifecycle |-> state,
                   membership |-> [observed |-> clock + 1, variants |-> v],
                   classifications |-> k], "check")
    BY <1>2 DEF CallPublishMembership
  <2>2. [op |-> "membership", generation |-> g, lifecycle |-> state,
         membership |-> [observed |-> clock + 1, variants |-> v],
         classifications |-> k] \in Argument
    BY PublisherAssumption DEF Argument, Membership, TypeOK
  <2> QED
    BY <2>1, <2>2, CallType
<1>3. ASSUME NEW c \in Callers, CheckMembership(c) PROVE TypeOK'
  BY <1>3, ReturnType, ReadAgainType DEF CheckMembership
<1>4. ASSUME NEW c \in Callers, ReadMembership(c) PROVE TypeOK'
  BY <1>4, ReturnType, CaptureType DEF ReadMembership
<1>5. ASSUME NEW c \in Callers, CommitMembership(c) PROVE TypeOK'
  <2>1. CASE Return(c)
    BY <2>1, ReturnType
  <2>2. CASE ReadAgain(c)
    BY <1>5, <2>2, ReadAgainType DEF CommitMembership
  <2>3. CASE /\ StoreMembership(
                   arg[c].generation, arg[c].membership,
                   arg[c].classifications, arg[c].lifecycle,
                   Encode(seen[c].poll,
                          Materialize(arg[c].membership, 0,
                                      arg[c].classifications),
                          arg[c].lifecycle, None))
             /\ EndCall(c)
    <3>1. /\ arg[c].generation \in Nat /\ arg[c].membership \in Membership
          /\ arg[c].classifications \in ClassificationMap
          /\ arg[c].lifecycle \in Lifecycles
      BY <1>5, ArgumentType DEF CommitMembership, Lifecycles
    <3>2. seen[c].poll \in Option(Nat)
      BY <1>5 DEF CommitMembership, TypeOK, Views
    <3>3. Encode(seen[c].poll,
                 Materialize(arg[c].membership, 0, arg[c].classifications),
                 arg[c].lifecycle, None) \in ResponseBody
      BY <3>1, <3>2, EncodeType, MaterializeType DEF Option
    <3>4. StateTypeOK'
      BY <2>3, <3>1, <3>3, StoreMembershipType DEF TypeOK
    <3> QED
      BY <2>3, <3>4, EndCallType
  <2> QED
    BY <1>5, <2>1, <2>2, <2>3 DEF CommitMembership
<1>6. ASSUME NEW c \in Callers, CallPublishUpdate(c) PROVE TypeOK'
  <2>1. PICK g \in 1 .. generation, r \in 1 .. MaxRevision,
             k \in ClassificationInputs, state \in Lifecycles :
          Call(c, [op |-> "update", generation |-> g, lifecycle |-> state,
                   revision |-> r, classifications |-> k], "read")
    BY <1>6 DEF CallPublishUpdate
  <2>2. [op |-> "update", generation |-> g, lifecycle |-> state,
         revision |-> r, classifications |-> k] \in Argument
    BY PublisherAssumption DEF Argument
  <2> QED
    BY <2>1, <2>2, CallType
<1>7. ASSUME NEW c \in Callers, ReadUpdate(c) PROVE TypeOK'
  BY <1>7, ReturnType, CaptureType DEF ReadUpdate, CanMaterialize
<1>8. ASSUME NEW c \in Callers, CommitUpdate(c) PROVE TypeOK'
  <2> DEFINE k == UpdatedClassifications(seen[c], arg[c])
             snapshot == Materialize(seen[c].membership, arg[c].revision, k)
             body == Encode(seen[c].poll, snapshot, arg[c].lifecycle,
                            seen[c].error)
  <2>1. CASE Return(c)
    BY <2>1, ReturnType
  <2>2. CASE RefreshUpdate(c)
    <3>1. seen[c] \in Views
      BY <1>8 DEF CommitUpdate, TypeOK
    <3>2. [seen[c] EXCEPT !.status = statusRevision, !.poll = lastPoll,
                          !.error = lastError] \in Views
      BY <3>1 DEF Views, TypeOK, StateTypeOK
    <3>3. seen' \in [Callers -> Option(Views)]
      BY <2>2, <3>2 DEF RefreshUpdate, TypeOK, Option
    <3>4. \A d \in Callers : pc'[d] = "encode" =>
             /\ seen'[d] \in Views
             /\ arg'[d].op = "update" => seen'[d].membership # None
      BY <2>2, <3>1, <3>2 DEF RefreshUpdate, TypeOK, Views
    <3> QED
      BY <2>2, <3>3, <3>4 DEF RefreshUpdate, TypeOK, StateTypeOK, readerVars
  <2>3. CASE ~ UpdateSuperseded(c)
             /\ StoreUpdate(arg[c].revision, snapshot, k, arg[c].lifecycle, body)
             /\ EndCall(c)
    <3>1. /\ arg[c].revision \in Nat /\ arg[c].lifecycle \in Lifecycles
          /\ arg[c].classifications \in ClassificationMap
      BY <1>8, ArgumentType DEF CommitUpdate
    <3>2. /\ seen[c].membership \in Membership
          /\ seen[c].classifications \in ClassificationMap
          /\ seen[c].poll \in Option(Nat) /\ seen[c].error \in Option(Errors)
      BY <1>8 DEF CommitUpdate, TypeOK, Views, Option
    <3>3. k \in ClassificationMap
      BY <3>1, <3>2, AccumulateType DEF UpdatedClassifications
    <3>4. snapshot \in Snapshot
      BY <3>1, <3>2, <3>3, MaterializeType
    <3>5. body \in ResponseBody
      BY <3>1, <3>2, <3>4, EncodeType DEF Option
    <3>6. StateTypeOK'
      BY <2>3, <3>1, <3>3, <3>4, <3>5, StoreUpdateType DEF TypeOK
    <3> QED
      BY <2>3, <3>6, EndCallType
  <2> QED
    BY <1>8, <2>1, <2>2, <2>3 DEF CommitUpdate
<1>9. ASSUME NEW c \in Callers, CallPublishLifecycle(c) PROVE TypeOK'
  <2>1. PICK g \in 1 .. generation, state \in Lifecycles :
          Call(c, [op |-> "lifecycle", generation |-> g, lifecycle |-> state],
               "read")
    BY <1>9 DEF CallPublishLifecycle
  <2>2. [op |-> "lifecycle", generation |-> g, lifecycle |-> state] \in Argument
    BY DEF Argument
  <2> QED
    BY <2>1, <2>2, CallType
<1>10. ASSUME NEW c \in Callers, ReadLifecycle(c) PROVE TypeOK'
  BY <1>10, ReturnType, CaptureType DEF ReadLifecycle
<1>11. ASSUME NEW c \in Callers, CommitLifecycle(c) PROVE TypeOK'
  <2> DEFINE body == Encode(seen[c].poll, seen[c].latest, arg[c].lifecycle,
                            seen[c].error)
  <2>1. CASE Return(c)
    BY <2>1, ReturnType
  <2>2. CASE ReadAgain(c)
    BY <1>11, <2>2, ReadAgainType DEF CommitLifecycle
  <2>3. CASE StoreLifecycle(arg[c].lifecycle, body) /\ EndCall(c)
    <3>1. arg[c].lifecycle \in Lifecycles
      BY <1>11, ArgumentType DEF CommitLifecycle
    <3>2. body \in ResponseBody
      BY <1>11, <3>1, EncodeType DEF CommitLifecycle, TypeOK, Views, Option
    <3>3. StateTypeOK'
      BY <2>3, <3>1, <3>2, StoreLifecycleType DEF TypeOK
    <3> QED
      BY <2>3, <3>3, EndCallType
  <2> QED
    BY <1>11, <2>1, <2>2, <2>3 DEF CommitLifecycle
<1>12. ASSUME NEW c \in Callers, CallPublishFailure(c) PROVE TypeOK'
  BY <1>12, CallType DEF CallPublishFailure, Argument
<1>13. ASSUME NEW c \in Callers, ReadFailure(c) PROVE TypeOK'
  BY <1>13, CaptureType DEF ReadFailure
<1>14. ASSUME NEW c \in Callers, CommitFailure(c) PROVE TypeOK'
  <2> DEFINE body == Encode(seen[c].poll, seen[c].latest, seen[c].lifecycle,
                            arg[c].error)
  <2>1. CASE ReadAgain(c)
    BY <1>14, <2>1, ReadAgainType DEF CommitFailure
  <2>2. CASE StoreFailure(arg[c].error, body) /\ EndCall(c)
    <3>1. arg[c].error \in Errors
      BY <1>14, ArgumentType DEF CommitFailure
    <3>2. body \in ResponseBody
      BY <1>14, <3>1, EncodeType DEF CommitFailure, TypeOK, Views, Option
    <3>3. StateTypeOK'
      BY <2>2, <3>1, <3>2, StoreFailureType DEF TypeOK
    <3> QED
      BY <2>2, <3>3, EndCallType
  <2> QED
    BY <1>14, <2>1, <2>2 DEF CommitFailure
<1>15. ASSUME NEW c \in Callers, WorkerFails(c) PROVE TypeOK'
  BY <1>15, ReturnType DEF WorkerFails
<1>16. CASE ConditionalGet
  <2>1. ServedResponse \in Response
    BY EncodeType DEF ServedResponse, TypeOK, StateTypeOK, Option, Response
  <2> QED
    BY <1>16, <2>1 DEF ConditionalGet, TypeOK, StateTypeOK, readerVars,
                       callVars, Option
<1>17. CASE Restart
  BY <1>17, StateResetType DEF Restart, Tick, TypeOK, Option
<1>18. CASE UNCHANGED vars
  BY <1>18 DEF vars, readerVars, callVars, TypeOK, StateTypeOK
<1> QED
  BY <1>1, <1>2, <1>3, <1>4, <1>5, <1>6, <1>7, <1>8, <1>9, <1>10, <1>11,
     <1>12, <1>13, <1>14, <1>15, <1>16, <1>17, <1>18
     DEF Next, MembershipTask, ClassificationTask, Callers

\* Every field keeps its type in every behaviour of the publication loops.
THEOREM TypeCorrect == Spec => []TypeOK
<1>1. Init => TypeOK
  BY InitType
<1>2. TypeOK /\ [Next]_vars => TypeOK'
  BY StepType
<1> QED
  BY <1>1, <1>2, PTL DEF Spec

-----------------------------------------------------------------------------
(* Reads that are still current, or detectably old *)

\* What every step of a running process does to the fields a call re-checks:
\* they only move forward, and whatever they stand for changes with them.
Advance ==
    /\ generation <= generation'
    /\ generation' = generation => revision <= revision'
    /\ generation' = generation /\ revision' = revision =>
          /\ latest' = latest
          /\ membership' = membership
          /\ classifications' = classifications
    /\ statusRevision <= statusRevision'
    /\ statusRevision' = statusRevision =>
          /\ generation' = generation
          /\ lastPoll' = lastPoll
          /\ lastError' = lastError
          /\ lifecycle' = lifecycle

\* Only caller c takes a step of its call.
OnlyMoves(c) ==
    \A d \in Callers \ {c} :
        pc'[d] = pc[d] /\ arg'[d] = arg[d] /\ seen'[d] = seen[d]

\* A step that leaves the visible state alone moves nothing back.
LEMMA StutterAdvances ==
    ASSUME StateTypeOK, UNCHANGED readerVars PROVE Advance
BY DEF Advance, StateTypeOK, readerVars

\* A poll start is noticed through the status revision.
LEMMA StorePollStartAdvances ==
    ASSUME StateTypeOK, NEW time, StorePollStart(time) PROVE Advance
BY DEF Advance, StateTypeOK, StorePollStart

\* A membership is noticed through the generation and the status.
LEMMA StoreMembershipAdvances ==
    ASSUME StateTypeOK, NEW g \in Nat, g > generation,
           NEW m, NEW k, NEW state, NEW body,
           StoreMembership(g, m, k, state, body)
    PROVE  Advance
BY DEF Advance, StateTypeOK, StoreMembership

\* An update is noticed through the revision.
LEMMA StoreUpdateAdvances ==
    ASSUME StateTypeOK, NEW snapshot, NEW k, NEW state, NEW body,
           StoreUpdate(revision + 1, snapshot, k, state, body)
    PROVE  Advance
BY DEF Advance, StateTypeOK, StoreUpdate

\* A lifecycle change is noticed through the status revision.
LEMMA StoreLifecycleAdvances ==
    ASSUME StateTypeOK, NEW state, NEW body, StoreLifecycle(state, body)
    PROVE  Advance
BY DEF Advance, StateTypeOK, StoreLifecycle

\* A failure is noticed through the status revision.
LEMMA StoreFailureAdvances ==
    ASSUME StateTypeOK, NEW error, NEW body, StoreFailure(error, body)
    PROVE  Advance
BY DEF Advance, StateTypeOK, StoreFailure

\* A call that does not move stays consistent while others publish.
LEMMA ConsistencyIsStable ==
    ASSUME TypeOK, TypeOK', CallsConsistent, Advance,
           NEW d \in Callers,
           pc'[d] = pc[d], arg'[d] = arg[d], seen'[d] = seen[d]
    PROVE  /\ pc'[d] = "encode" => ViewIsCurrentOrDetectablyOld(d)'
           /\ pc'[d] # "idle" => ArgumentsChecked(d)'
<1>1. pc'[d] # "idle" => ArgumentsChecked(d)'
  BY DEF CallsConsistent, ArgumentsChecked
<1>2. ASSUME pc[d] = "encode" PROVE ViewIsCurrentOrDetectablyOld(d)'
  <2>1. ViewIsCurrentOrDetectablyOld(d) /\ seen[d] \in Views
    BY <1>2 DEF CallsConsistent, TypeOK
  <2>2. /\ seen[d].generation \in Nat /\ seen[d].revision \in Nat
        /\ seen[d].status \in Nat
        /\ generation \in Nat /\ generation' \in Nat
        /\ revision \in Nat /\ revision' \in Nat
        /\ statusRevision \in Nat /\ statusRevision' \in Nat
    BY <2>1 DEF Views, TypeOK, StateTypeOK
  <2> QED
    BY <2>1, <2>2 DEF ViewIsCurrentOrDetectablyOld, Advance
<1> QED
  BY <1>1, <1>2

\* If c ends consistent, everyone does.
LEMMA ConsistencyFromMover ==
    ASSUME TypeOK, TypeOK', CallsConsistent, Advance,
           NEW c \in Callers, OnlyMoves(c),
           pc'[c] = "encode" => ViewIsCurrentOrDetectablyOld(c)',
           pc'[c] # "idle" => ArgumentsChecked(c)'
    PROVE  CallsConsistent'
BY ConsistencyIsStable DEF CallsConsistent, OnlyMoves

\* A call that ends leaves the others consistent.
LEMMA EndCallConsistent ==
    ASSUME TypeOK, TypeOK', CallsConsistent, Advance,
           NEW c \in Callers, EndCall(c)
    PROVE  CallsConsistent'
BY ConsistencyFromMover DEF EndCall, OnlyMoves, TypeOK

\* A call that gives up leaves the others consistent.
LEMMA ReturnConsistent ==
    ASSUME TypeOK, TypeOK', CallsConsistent,
           NEW c \in Callers, Return(c) \/ Fail(c)
    PROVE  CallsConsistent'
BY EndCallConsistent, StutterAdvances DEF Return, Fail, TypeOK

\* A call that starts has nothing to be consistent with yet.
LEMMA CallConsistent ==
    ASSUME TypeOK, TypeOK', CallsConsistent, NEW c \in Callers,
           NEW a \in Argument, NEW step \in {"check", "read"},
           Call(c, a, step), step = "read" => a.op # "membership"
    PROVE  CallsConsistent'
<1>1. Advance
  BY StutterAdvances DEF Call, TypeOK
<1>2. pc'[c] = step /\ arg'[c] = a /\ OnlyMoves(c)
  BY DEF Call, TypeOK, OnlyMoves
<1> QED
  BY <1>1, <1>2, ConsistencyFromMover DEF ArgumentsChecked

\* A call that goes round its loop forgets its view.
LEMMA ReadAgainConsistent ==
    ASSUME TypeOK, TypeOK', CallsConsistent, NEW c \in Callers,
           ReadAgain(c),
           arg[c].op = "membership" =>
             MatchesMembership(arg[c].membership, arg[c].classifications)
    PROVE  CallsConsistent'
<1>1. Advance
  BY StutterAdvances DEF ReadAgain, TypeOK
<1>2. pc'[c] = "read" /\ arg'[c] = arg[c] /\ OnlyMoves(c)
  BY DEF ReadAgain, TypeOK, OnlyMoves
<1>3. ArgumentsChecked(c)'
  BY <1>2 DEF ArgumentsChecked
<1> QED
  BY <1>1, <1>2, <1>3, ConsistencyFromMover

\* A fresh read is current; the remaining obligation is what the read's own
\* checks established.
LEMMA CaptureConsistent ==
    ASSUME TypeOK, TypeOK', CallsConsistent, NEW c \in Callers,
           Capture(c), ArgumentsChecked(c)'
    PROVE  CallsConsistent'
<1>1. Advance
  BY StutterAdvances DEF Capture, TypeOK
<1>2. pc'[c] = "encode" /\ seen'[c] = View /\ OnlyMoves(c)
  BY DEF Capture, TypeOK, OnlyMoves
<1>3. ViewIsCurrentOrDetectablyOld(c)'
  BY <1>2 DEF ViewIsCurrentOrDetectablyOld, View, Capture, readerVars, TypeOK,
              StateTypeOK
<1> QED
  BY <1>1, <1>2, <1>3, ConsistencyFromMover

\* Initially no call runs.
LEMMA InitConsistent == Init => CallsConsistent
BY DEF Init, CallsConsistent

\* The commit that a membership call makes when nothing it read changed.
MembershipCommitted(c) ==
    /\ pc[c] = "encode" /\ arg[c].op = "membership"
    /\ generation < arg[c].generation /\ MembershipUnchanged(c)
    /\ StoreMembership(arg[c].generation, arg[c].membership,
                       arg[c].classifications, arg[c].lifecycle,
                       Encode(seen[c].poll,
                              Materialize(arg[c].membership, 0,
                                          arg[c].classifications),
                              arg[c].lifecycle, None))
    /\ EndCall(c)

UpdateCommitted(c) ==
    LET k == UpdatedClassifications(seen[c], arg[c])
        snapshot == Materialize(seen[c].membership, arg[c].revision, k)
    IN  /\ pc[c] = "encode" /\ arg[c].op = "update"
        /\ ~ UpdateSuperseded(c) /\ statusRevision = seen[c].status
        /\ StoreUpdate(arg[c].revision, snapshot, k, arg[c].lifecycle,
                       Encode(seen[c].poll, snapshot, arg[c].lifecycle,
                              seen[c].error))
        /\ EndCall(c)

LifecycleCommitted(c) ==
    /\ pc[c] = "encode" /\ arg[c].op = "lifecycle"
    /\ generation = arg[c].generation /\ LifecycleUnchanged(c)
    /\ StoreLifecycle(arg[c].lifecycle,
                      Encode(seen[c].poll, seen[c].latest, arg[c].lifecycle,
                             seen[c].error))
    /\ EndCall(c)

FailureCommitted(c) ==
    /\ pc[c] = "encode" /\ arg[c].op = "failure"
    /\ FailureUnchanged(c)
    /\ StoreFailure(arg[c].error,
                    Encode(seen[c].poll, seen[c].latest, seen[c].lifecycle,
                           arg[c].error))
    /\ EndCall(c)

\* What is current when an update commits: everything it read.
LEMMA UpdateReadsCurrent ==
    ASSUME TypeOK, CallsConsistent, NEW c \in Callers, UpdateCommitted(c)
    PROVE  /\ arg[c].revision = revision + 1
           /\ seen[c].poll = lastPoll /\ seen[c].error = lastError
           /\ seen[c].membership = membership /\ membership \in Membership
           /\ seen[c].classifications = classifications
           /\ MatchesMembership(membership,
                                UpdatedClassifications(seen[c], arg[c]))
<1>1. ViewIsCurrentOrDetectablyOld(c) /\ ArgumentsChecked(c)
  BY DEF CallsConsistent, UpdateCommitted
<1>2. /\ seen[c].generation = generation /\ seen[c].revision = revision
      /\ seen[c].status = statusRevision
  BY <1>1 DEF UpdateCommitted, UpdateSuperseded, ArgumentsChecked
<1>3. seen[c].membership = membership /\ membership \in Membership
  BY <1>1, <1>2 DEF ViewIsCurrentOrDetectablyOld, UpdateCommitted, TypeOK,
                    StateTypeOK, Option
<1> QED
  BY <1>1, <1>2, <1>3 DEF ViewIsCurrentOrDetectablyOld, ArgumentsChecked,
                          UpdateCommitted

\* What is current when a lifecycle change commits.
LEMMA LifecycleReadsCurrent ==
    ASSUME TypeOK, CallsConsistent, NEW c \in Callers, LifecycleCommitted(c)
    PROVE  /\ seen[c].poll = lastPoll /\ seen[c].error = lastError
           /\ seen[c].latest = latest /\ latest # None
           /\ lifecycle # arg[c].lifecycle
<1>1. ViewIsCurrentOrDetectablyOld(c) /\ ArgumentsChecked(c)
  BY DEF CallsConsistent, LifecycleCommitted
<1> QED
  BY <1>1 DEF ViewIsCurrentOrDetectablyOld, ArgumentsChecked,
              LifecycleCommitted, LifecycleUnchanged

\* What is current when a failure commits.
LEMMA FailureReadsCurrent ==
    ASSUME TypeOK, CallsConsistent, NEW c \in Callers, FailureCommitted(c)
    PROVE  /\ seen[c].poll = lastPoll /\ seen[c].latest = latest
           /\ seen[c].lifecycle = lifecycle
<1>1. ViewIsCurrentOrDetectablyOld(c)
  BY DEF CallsConsistent, FailureCommitted
<1> QED
  BY <1>1 DEF ViewIsCurrentOrDetectablyOld, FailureCommitted, FailureUnchanged

\* What is current when a membership commits.
LEMMA MembershipReadsCurrent ==
    ASSUME TypeOK, CallsConsistent, NEW c \in Callers, MembershipCommitted(c)
    PROVE  /\ seen[c].poll = lastPoll
           /\ arg[c].generation \in Nat /\ arg[c].membership \in Membership
           /\ arg[c].classifications \in ClassificationMap
           /\ arg[c].lifecycle \in {"classifying", "complete"}
           /\ MatchesMembership(arg[c].membership, arg[c].classifications)
<1>1. ViewIsCurrentOrDetectablyOld(c) /\ ArgumentsChecked(c)
  BY DEF CallsConsistent, MembershipCommitted
<1>2. /\ arg[c].generation \in Nat /\ arg[c].membership \in Membership
      /\ arg[c].classifications \in ClassificationMap
      /\ arg[c].lifecycle \in {"classifying", "complete"}
  BY ArgumentType DEF MembershipCommitted
<1> QED
  BY <1>1, <1>2 DEF ViewIsCurrentOrDetectablyOld, ArgumentsChecked,
                    MembershipCommitted, MembershipUnchanged

\* Every commit moves the re-checked fields forward.
LEMMA CommitsAdvance ==
    ASSUME TypeOK, CallsConsistent, NEW c \in Callers,
           \/ MembershipCommitted(c) \/ UpdateCommitted(c)
           \/ LifecycleCommitted(c) \/ FailureCommitted(c)
    PROVE  Advance
<1> USE DEF TypeOK
<1>1. CASE MembershipCommitted(c)
  BY <1>1, StoreMembershipAdvances, MembershipReadsCurrent
     DEF MembershipCommitted
<1>2. CASE UpdateCommitted(c)
  BY <1>2, StoreUpdateAdvances, UpdateReadsCurrent DEF UpdateCommitted
<1>3. CASE LifecycleCommitted(c)
  BY <1>3, StoreLifecycleAdvances DEF LifecycleCommitted
<1>4. CASE FailureCommitted(c)
  BY <1>4, StoreFailureAdvances DEF FailureCommitted
<1> QED
  BY <1>1, <1>2, <1>3, <1>4

\* The steps of the specification: a commit, a poll start, a restart, a read
\* by the client, or a step that leaves the reader-visible state alone.
LEMMA StepKinds ==
    ASSUME Next
    PROVE  \/ \E c \in Callers : MembershipCommitted(c)
           \/ \E c \in Callers : UpdateCommitted(c)
           \/ \E c \in Callers : LifecycleCommitted(c)
           \/ \E c \in Callers : FailureCommitted(c)
           \/ \E c \in Callers : RecordPollStarted(c)
           \/ Restart
           \/ ConditionalGet
           \/ UNCHANGED <<readerVars, reader, boot>>
<1>1. ASSUME NEW c \in Callers, CommitMembership(c)
      PROVE  MembershipCommitted(c) \/ UNCHANGED <<readerVars, reader, boot>>
  BY <1>1 DEF CommitMembership, MembershipCommitted, Return, EndCall, ReadAgain
<1>2. ASSUME NEW c \in Callers, CommitUpdate(c)
      PROVE  UpdateCommitted(c) \/ UNCHANGED <<readerVars, reader, boot>>
  BY <1>2 DEF CommitUpdate, UpdateCommitted, Return, EndCall, RefreshUpdate
<1>3. ASSUME NEW c \in Callers, CommitLifecycle(c)
      PROVE  LifecycleCommitted(c) \/ UNCHANGED <<readerVars, reader, boot>>
  BY <1>3 DEF CommitLifecycle, LifecycleCommitted, Return, EndCall, ReadAgain
<1>4. ASSUME NEW c \in Callers, CommitFailure(c)
      PROVE  FailureCommitted(c) \/ UNCHANGED <<readerVars, reader, boot>>
  BY <1>4 DEF CommitFailure, FailureCommitted, EndCall, ReadAgain
<1>5. ASSUME NEW c \in Callers,
             \/ CallPublishMembership(c) \/ CheckMembership(c)
             \/ ReadMembership(c) \/ CallPublishFailure(c) \/ ReadFailure(c)
             \/ CallPublishUpdate(c) \/ ReadUpdate(c)
             \/ CallPublishLifecycle(c) \/ ReadLifecycle(c) \/ WorkerFails(c)
      PROVE  UNCHANGED <<readerVars, reader, boot>>
  BY <1>5 DEF CallPublishMembership, CheckMembership, ReadMembership,
              CallPublishFailure, ReadFailure, CallPublishUpdate, ReadUpdate,
              CallPublishLifecycle, ReadLifecycle, WorkerFails, Call, Return,
              Fail, EndCall, Capture, ReadAgain
<1> QED
  BY <1>1, <1>2, <1>3, <1>4, <1>5
     DEF Next, MembershipTask, ClassificationTask, Callers

\* Every step keeps all calls consistent.
LEMMA StepConsistent ==
    TypeOK /\ CallsConsistent /\ [Next]_vars => CallsConsistent'
<1> SUFFICES ASSUME TypeOK, CallsConsistent, [Next]_vars
             PROVE  CallsConsistent'
  OBVIOUS
<1> TypeOK'
  BY StepType
<1>1. ASSUME NEW c \in Callers, RecordPollStarted(c) PROVE CallsConsistent'
  <2>1. Advance
    BY <1>1, StorePollStartAdvances DEF RecordPollStarted, TypeOK
  <2> QED
    BY <1>1, <2>1, ConsistencyIsStable
       DEF RecordPollStarted, callVars, CallsConsistent
<1>2. ASSUME NEW c \in Callers, CallPublishMembership(c)
      PROVE  CallsConsistent'
  <2>1. PICK a : Call(c, a, "check")
    BY <1>2 DEF CallPublishMembership
  <2>2. a \in Argument
    BY <2>1 DEF Call, TypeOK
  <2> QED
    BY <2>1, <2>2, CallConsistent
<1>3. ASSUME NEW c \in Callers, CheckMembership(c) PROVE CallsConsistent'
  BY <1>3, ReturnConsistent, ReadAgainConsistent DEF CheckMembership
<1>4. ASSUME NEW c \in Callers, ReadMembership(c) PROVE CallsConsistent'
  <2>1. CASE Return(c)
    BY <2>1, ReturnConsistent
  <2>2. CASE Capture(c)
    <3>1. ArgumentsChecked(c)'
      BY <1>4, <2>2 DEF ReadMembership, Capture, ArgumentsChecked,
                        CallsConsistent, TypeOK
    <3> QED
      BY <2>2, <3>1, CaptureConsistent
  <2> QED
    BY <1>4, <2>1, <2>2 DEF ReadMembership
<1>5. ASSUME NEW c \in Callers, CommitMembership(c) PROVE CallsConsistent'
  <2>1. CASE Return(c)
    BY <2>1, ReturnConsistent
  <2>2. CASE ReadAgain(c)
    BY <1>5, <2>2, ReadAgainConsistent
       DEF CommitMembership, CallsConsistent, ArgumentsChecked
  <2>3. CASE MembershipCommitted(c)
    BY <2>3, CommitsAdvance, EndCallConsistent DEF MembershipCommitted
  <2> QED
    BY <1>5, <2>1, <2>2, <2>3 DEF CommitMembership, MembershipCommitted
<1>6. ASSUME NEW c \in Callers, CallPublishUpdate(c) PROVE CallsConsistent'
  <2>1. PICK a : Call(c, a, "read") /\ a.op = "update"
    BY <1>6 DEF CallPublishUpdate
  <2>2. a \in Argument
    BY <2>1 DEF Call, TypeOK
  <2> QED
    BY <2>1, <2>2, CallConsistent
<1>7. ASSUME NEW c \in Callers, ReadUpdate(c) PROVE CallsConsistent'
  <2>1. CASE Return(c) \/ Fail(c)
    BY <2>1, ReturnConsistent
  <2>2. CASE /\ generation = arg[c].generation
             /\ arg[c].revision = revision + 1
             /\ MatchesMembership(membership,
                                  UpdatedClassifications(View, arg[c]))
             /\ Capture(c)
    <3>1. seen'[c] = View /\ arg'[c] = arg[c] /\ arg[c].op = "update"
      BY <1>7, <2>2 DEF ReadUpdate, Capture, TypeOK
    <3>2. /\ View.membership = membership /\ View.generation = generation
          /\ View.revision = revision
      BY DEF View
    <3>3. ArgumentsChecked(c)'
      BY <2>2, <3>1, <3>2 DEF ArgumentsChecked
    <3> QED
      BY <2>2, <3>3, CaptureConsistent
  <2> QED
    BY <1>7, <2>1, <2>2 DEF ReadUpdate, CanMaterialize
<1>8. ASSUME NEW c \in Callers, CommitUpdate(c) PROVE CallsConsistent'
  <2>1. CASE Return(c)
    BY <2>1, ReturnConsistent
  <2>2. CASE ~ UpdateSuperseded(c) /\ RefreshUpdate(c)
    <3> DEFINE v == seen[c]
               w == [v EXCEPT !.status = statusRevision, !.poll = lastPoll,
                              !.error = lastError]
    <3>1. /\ pc[c] = "encode" /\ arg[c].op = "update" /\ v \in Views
          /\ ViewIsCurrentOrDetectablyOld(c) /\ ArgumentsChecked(c)
      BY <1>8 DEF CommitUpdate, CallsConsistent, TypeOK
    <3>2. /\ seen'[c] = w /\ pc'[c] = pc[c] /\ arg'[c] = arg[c]
          /\ OnlyMoves(c) /\ UNCHANGED readerVars
      BY <2>2 DEF RefreshUpdate, TypeOK, OnlyMoves
    <3>3. /\ w.status = statusRevision /\ w.poll = lastPoll
          /\ w.error = lastError /\ w.generation = v.generation
          /\ w.revision = v.revision /\ w.latest = v.latest
          /\ w.membership = v.membership
          /\ w.classifications = v.classifications
      BY <3>1 DEF Views
    <3>4. v.generation = generation /\ v.revision = revision
      BY <2>2, <3>1 DEF UpdateSuperseded, ArgumentsChecked
    <3>5. ViewIsCurrentOrDetectablyOld(c)'
      BY <3>1, <3>2, <3>3, <3>4
         DEF ViewIsCurrentOrDetectablyOld, readerVars, TypeOK, StateTypeOK
    <3>6. ArgumentsChecked(c)'
      BY <3>1, <3>2, <3>3 DEF ArgumentsChecked, UpdatedClassifications
    <3> QED
      BY <3>2, <3>5, <3>6, StutterAdvances, ConsistencyFromMover DEF TypeOK
  <2>3. CASE UpdateCommitted(c)
    BY <2>3, CommitsAdvance, EndCallConsistent DEF UpdateCommitted
  <2> QED
    BY <1>8, <2>1, <2>2, <2>3 DEF CommitUpdate, UpdateCommitted
<1>9. ASSUME NEW c \in Callers, CallPublishLifecycle(c)
      PROVE  CallsConsistent'
  <2>1. PICK a : Call(c, a, "read") /\ a.op = "lifecycle"
    BY <1>9 DEF CallPublishLifecycle
  <2>2. a \in Argument
    BY <2>1 DEF Call, TypeOK
  <2> QED
    BY <2>1, <2>2, CallConsistent
<1>10. ASSUME NEW c \in Callers, ReadLifecycle(c) PROVE CallsConsistent'
  <2>1. CASE Return(c) \/ Fail(c)
    BY <2>1, ReturnConsistent
  <2>2. CASE /\ generation = arg[c].generation /\ latest # None
             /\ lifecycle # arg[c].lifecycle /\ Capture(c)
    <3>1. seen'[c] = View /\ arg'[c] = arg[c] /\ arg[c].op = "lifecycle"
      BY <1>10, <2>2 DEF ReadLifecycle, Capture, TypeOK
    <3>2. ArgumentsChecked(c)'
      BY <2>2, <3>1 DEF ArgumentsChecked, View
    <3> QED
      BY <2>2, <3>2, CaptureConsistent
  <2> QED
    BY <1>10, <2>1, <2>2 DEF ReadLifecycle
<1>11. ASSUME NEW c \in Callers, CommitLifecycle(c) PROVE CallsConsistent'
  <2>1. CASE Return(c)
    BY <2>1, ReturnConsistent
  <2>2. CASE ReadAgain(c)
    BY <1>11, <2>2, ReadAgainConsistent DEF CommitLifecycle
  <2>3. CASE LifecycleCommitted(c)
    BY <2>3, CommitsAdvance, EndCallConsistent DEF LifecycleCommitted
  <2> QED
    BY <1>11, <2>1, <2>2, <2>3 DEF CommitLifecycle, LifecycleCommitted
<1>12. ASSUME NEW c \in Callers, CallPublishFailure(c)
       PROVE  CallsConsistent'
  <2>1. PICK a : Call(c, a, "read") /\ a.op = "failure"
    BY <1>12 DEF CallPublishFailure
  <2>2. a \in Argument
    BY <2>1 DEF Call, TypeOK
  <2> QED
    BY <2>1, <2>2, CallConsistent
<1>13. ASSUME NEW c \in Callers, ReadFailure(c) PROVE CallsConsistent'
  <2>1. ArgumentsChecked(c)'
    BY <1>13 DEF ReadFailure, Capture, ArgumentsChecked, TypeOK
  <2> QED
    BY <1>13, <2>1, CaptureConsistent DEF ReadFailure
<1>14. ASSUME NEW c \in Callers, CommitFailure(c) PROVE CallsConsistent'
  <2>1. CASE ReadAgain(c)
    BY <1>14, <2>1, ReadAgainConsistent DEF CommitFailure
  <2>2. CASE FailureCommitted(c)
    BY <2>2, CommitsAdvance, EndCallConsistent DEF FailureCommitted
  <2> QED
    BY <1>14, <2>1, <2>2 DEF CommitFailure, FailureCommitted
<1>15. ASSUME NEW c \in Callers, WorkerFails(c) PROVE CallsConsistent'
  BY <1>15, ReturnConsistent DEF WorkerFails
<1>16. CASE ConditionalGet
  BY <1>16, StutterAdvances, ConsistencyIsStable
     DEF ConditionalGet, callVars, CallsConsistent, TypeOK
<1>17. CASE Restart
  BY <1>17 DEF Restart, CallsConsistent
<1>18. CASE UNCHANGED vars
  BY <1>18, StutterAdvances, ConsistencyIsStable
     DEF vars, callVars, CallsConsistent, TypeOK
<1> QED
  BY <1>1, <1>2, <1>3, <1>4, <1>5, <1>6, <1>7, <1>8, <1>9, <1>10, <1>11,
     <1>12, <1>13, <1>14, <1>15, <1>16, <1>17, <1>18
     DEF Next, MembershipTask, ClassificationTask, Callers

-----------------------------------------------------------------------------
(* The inductive invariant and what it implies *)

\* Coherence alone is not inductive: a commit encodes what it read, so the
\* invariant must say that what it read is what the state holds.
CoherenceInv ==
    /\ TypeOK
    /\ CallsConsistent
    /\ SnapshotMatchesState
    /\ CachedResponseCoherent

\* The classifications carried into revision zero, or accumulated into the
\* next one, keep the snapshot and the state in agreement.
LEMMA StepSnapshot ==
    CoherenceInv /\ [Next]_vars => SnapshotMatchesState'
<1> SUFFICES ASSUME CoherenceInv, [Next]_vars PROVE SnapshotMatchesState'
  OBVIOUS
<1> TypeOK /\ CallsConsistent /\ SnapshotMatchesState
  BY DEF CoherenceInv
<1>1. ASSUME NEW c \in Callers, MembershipCommitted(c)
      PROVE  SnapshotMatchesState'
  <2>1. /\ arg[c].generation \in Nat /\ arg[c].membership \in Membership
        /\ arg[c].classifications \in ClassificationMap
        /\ arg[c].lifecycle \in Lifecycles
        /\ MatchesMembership(arg[c].membership, arg[c].classifications)
    BY <1>1, MembershipReadsCurrent DEF Lifecycles
  <2>2. Materialize(arg[c].membership, 0, arg[c].classifications) \in Snapshot
    BY <2>1, MaterializeType
  <2>3. arg[c].generation # 0
    BY <1>1, <2>1 DEF MembershipCommitted, TypeOK, StateTypeOK
  <2>4. /\ membership' = arg[c].membership /\ generation' = arg[c].generation
        /\ lifecycle' = arg[c].lifecycle /\ revision' = 0
        /\ classifications' = arg[c].classifications
        /\ latest' = Materialize(arg[c].membership, 0, arg[c].classifications)
    BY <1>1 DEF MembershipCommitted, StoreMembership
  <2> QED
    BY <2>1, <2>2, <2>3, <2>4, NoneIsNoValue DEF SnapshotMatchesState
<1>2. ASSUME NEW c \in Callers, UpdateCommitted(c)
      PROVE  SnapshotMatchesState'
  <2> DEFINE k == UpdatedClassifications(seen[c], arg[c])
             snapshot == Materialize(seen[c].membership, arg[c].revision, k)
  <2>1. /\ arg[c].revision = revision + 1 /\ seen[c].membership = membership
        /\ membership \in Membership /\ MatchesMembership(membership, k)
        /\ seen[c].classifications = classifications
    BY <1>2, UpdateReadsCurrent
  <2>2. /\ arg[c].lifecycle \in Lifecycles /\ arg[c].revision \in Nat
        /\ arg[c].classifications \in ClassificationMap
    BY <1>2, ArgumentType DEF UpdateCommitted
  <2>3. k \in ClassificationMap
    BY <2>1, <2>2, AccumulateType
       DEF UpdatedClassifications, TypeOK, StateTypeOK
  <2>4. snapshot \in Snapshot
    <3> HIDE DEF k
    <3> QED
      BY <2>1, <2>2, <2>3, MaterializeType
  <2>5. /\ membership' = membership /\ generation' = generation
        /\ lifecycle' = arg[c].lifecycle /\ revision' = arg[c].revision
        /\ classifications' = k /\ latest' = snapshot
    BY <1>2 DEF UpdateCommitted, StoreUpdate
  <2> QED
    BY <2>1, <2>2, <2>4, <2>5, NoneIsNoValue DEF SnapshotMatchesState
<1>3. ASSUME NEW c \in Callers, LifecycleCommitted(c)
      PROVE  SnapshotMatchesState'
  <2>1. arg[c].lifecycle \in Lifecycles /\ latest # None
    BY <1>3, ArgumentType, LifecycleReadsCurrent DEF LifecycleCommitted
  <2> QED
    BY <1>3, <2>1, NoneIsNoValue
       DEF LifecycleCommitted, StoreLifecycle, SnapshotMatchesState
<1>4. ASSUME NEW c \in Callers, FailureCommitted(c)
      PROVE  SnapshotMatchesState'
  BY <1>4 DEF FailureCommitted, StoreFailure, SnapshotMatchesState
<1>5. ASSUME NEW c \in Callers, RecordPollStarted(c)
      PROVE  SnapshotMatchesState'
  BY <1>5 DEF RecordPollStarted, StorePollStart, SnapshotMatchesState
<1>6. CASE Restart
  BY <1>6 DEF Restart, StateReset, SnapshotMatchesState
<1>7. CASE UNCHANGED readerVars
  BY <1>7 DEF readerVars, SnapshotMatchesState
<1> QED
  BY <1>1, <1>2, <1>3, <1>4, <1>5, <1>6, <1>7, StepKinds
     DEF ConditionalGet, vars

\* A response encoded outside the lock shows the state it is stored with.
LEMMA StepCoherent ==
    CoherenceInv /\ [Next]_vars => CachedResponseCoherent'
<1> SUFFICES ASSUME CoherenceInv, [Next]_vars PROVE CachedResponseCoherent'
  OBVIOUS
<1> TypeOK /\ CallsConsistent /\ CachedResponseCoherent
  BY DEF CoherenceInv
<1>1. ASSUME NEW c \in Callers, MembershipCommitted(c)
      PROVE  CachedResponseCoherent'
  BY <1>1, EncodeAgain DEF MembershipCommitted, StoreMembership,
     ReplaceCachedResponse, CachedResponseCoherent
<1>2. ASSUME NEW c \in Callers, UpdateCommitted(c)
      PROVE  CachedResponseCoherent'
  BY <1>2, EncodeAgain, UpdateReadsCurrent DEF UpdateCommitted, StoreUpdate,
     ReplaceCachedResponse, CachedResponseCoherent
<1>3. ASSUME NEW c \in Callers, LifecycleCommitted(c)
      PROVE  CachedResponseCoherent'
  BY <1>3, EncodeAgain, LifecycleReadsCurrent DEF LifecycleCommitted,
     StoreLifecycle, ReplaceCachedResponse, CachedResponseCoherent
<1>4. ASSUME NEW c \in Callers, FailureCommitted(c)
      PROVE  CachedResponseCoherent'
  BY <1>4, EncodeAgain, FailureReadsCurrent DEF FailureCommitted,
     StoreFailure, ReplaceCachedResponse, CachedResponseCoherent
<1>5. ASSUME NEW c \in Callers, RecordPollStarted(c)
      PROVE  CachedResponseCoherent'
  BY <1>5 DEF RecordPollStarted, StorePollStart, CachedResponseCoherent
<1>6. CASE Restart
  BY <1>6 DEF Restart, StateReset, CachedResponseCoherent
<1>7. CASE UNCHANGED readerVars
  BY <1>7 DEF readerVars, CachedResponseCoherent
<1> QED
  BY <1>1, <1>2, <1>3, <1>4, <1>5, <1>6, <1>7, StepKinds
     DEF ConditionalGet, vars

\* The invariant holds in every behaviour.
THEOREM CoherenceInvariant == Spec => []CoherenceInv
<1>1. Init => CoherenceInv
  BY InitType, InitConsistent
     DEF Init, StateInit, CoherenceInv, SnapshotMatchesState,
         CachedResponseCoherent
<1>2. CoherenceInv /\ [Next]_vars => CoherenceInv'
  BY StepType, StepConsistent, StepSnapshot, StepCoherent DEF CoherenceInv
<1> QED
  BY <1>1, <1>2, PTL DEF Spec

\* The cached response always shows the snapshot, lifecycle and error that
\* the state holds, whatever publications interleave.
THEOREM CachedResponseIsCoherent == Spec => []CachedResponseCoherent
<1>1. CoherenceInv => CachedResponseCoherent
  BY DEF CoherenceInv
<1> QED
  BY <1>1, CoherenceInvariant, PTL

\* The visible snapshot is the membership with exactly the classifications
\* that can be looked up, and all of them fit it.
THEOREM SnapshotAlwaysMatchesState == Spec => []SnapshotMatchesState
<1>1. CoherenceInv => SnapshotMatchesState
  BY DEF CoherenceInv
<1> QED
  BY <1>1, CoherenceInvariant, PTL

-----------------------------------------------------------------------------
(* The loops implement atomic publication *)

\* The abstract specification's operators are the ones of PublisherState.
LEMMA AtomicSets ==
    /\ Atomic!ClassificationMap = ClassificationMap
    /\ Atomic!Membership = Membership
    /\ Atomic!Lifecycles = Lifecycles
BY DEF Atomic!ClassificationMap, ClassificationMap, Atomic!Membership,
       Membership, Atomic!Lifecycles, Lifecycles, Atomic!Classification,
       Classification, Atomic!VariantMap, VariantMap, Atomic!Option, Option

\* The two modules materialize alike.
LEMMA AtomicMaterialize ==
    ASSUME NEW m, NEW r, NEW k
    PROVE  /\ Atomic!Materialize(m, r, k) = Materialize(m, r, k)
           /\ Atomic!MatchesMembership(m, k) <=> MatchesMembership(m, k)
           /\ Atomic!Present(k) = Present(k)
BY DEF Atomic!Materialize, Materialize, Atomic!MatchesMembership,
       MatchesMembership, Atomic!Present, Present

\* The two modules count alike.
LEMMA AtomicCardinality ==
    ASSUME NEW S PROVE Atomic!Cardinality(S) = Cardinality(S)
BY DEF Atomic!Cardinality, Cardinality

\* The two modules encode alike.
LEMMA AtomicEncode ==
    ASSUME NEW poll, NEW snapshot, NEW state, NEW error
    PROVE  Atomic!Encode(poll, snapshot, state, error)
             = Encode(poll, snapshot, state, error)
<1>1. Atomic!Availability(snapshot, error) = Availability(snapshot, error)
  BY DEF Atomic!Availability, Availability
<1>2. Atomic!ProgressOf(state, snapshot) = ProgressOf(state, snapshot)
  BY AtomicMaterialize, AtomicCardinality DEF Atomic!ProgressOf, ProgressOf
<1> QED
  BY <1>1, <1>2 DEF Atomic!Encode, Encode

\* The two modules replace the cached response alike.
LEMMA AtomicReplaceCachedResponse ==
    ASSUME NEW body, ReplaceCachedResponse(body)
    PROVE  Atomic!ReplaceCachedResponse(body)
BY DEF Atomic!ReplaceCachedResponse, ReplaceCachedResponse

\* Every step of the loops is an atomic publication or changes nothing.
LEMMA StepImplements ==
    CoherenceInv /\ [Next]_vars => [Atomic!Next]_readerVars
<1> SUFFICES ASSUME CoherenceInv, [Next]_vars
             PROVE  Atomic!Next \/ UNCHANGED readerVars
  OBVIOUS
<1> TypeOK /\ CallsConsistent
  BY DEF CoherenceInv
<1>1. ASSUME NEW c \in Callers, MembershipCommitted(c)
      PROVE  Atomic!PublishMembership
  <2> DEFINE body == Encode(lastPoll,
                            Materialize(arg[c].membership, 0,
                                        arg[c].classifications),
                            arg[c].lifecycle, None)
  <2>1. /\ seen[c].poll = lastPoll
        /\ arg[c].generation \in Nat /\ arg[c].membership \in Membership
        /\ arg[c].classifications \in ClassificationMap
        /\ MatchesMembership(arg[c].membership, arg[c].classifications)
    BY <1>1, MembershipReadsCurrent
  <2>2. arg[c].lifecycle \in {"classifying", "complete"}
    BY <1>1, MembershipReadsCurrent
  <2>3. StoreMembership(arg[c].generation, arg[c].membership,
                        arg[c].classifications, arg[c].lifecycle, body)
    BY <1>1, <2>1 DEF MembershipCommitted
  <2>4. /\ generation' = arg[c].generation /\ membership' = arg[c].membership
        /\ classifications' = arg[c].classifications
        /\ lifecycle' = arg[c].lifecycle
        /\ generation' > generation
    BY <1>1, <2>1, <2>3 DEF StoreMembership, MembershipCommitted, TypeOK,
                            StateTypeOK
  <2>5. Atomic!StoreMembership(generation', membership', classifications',
                               lifecycle', body)
    BY <2>3, <2>4, AtomicMaterialize, AtomicReplaceCachedResponse
       DEF StoreMembership, Atomic!StoreMembership
  <2> QED
    BY <2>1, <2>2, <2>4, <2>5, AtomicSets, AtomicMaterialize, AtomicEncode
       DEF Atomic!PublishMembership
<1>2. ASSUME NEW c \in Callers, UpdateCommitted(c)
      PROVE  Atomic!PublishUpdate
  <2> DEFINE k == UpdatedClassifications(seen[c], arg[c])
             snapshot == Materialize(membership, revision + 1, k)
             body == Encode(lastPoll, snapshot, arg[c].lifecycle, lastError)
  <2>1. /\ arg[c].revision = revision + 1 /\ seen[c].membership = membership
        /\ membership \in Membership /\ MatchesMembership(membership, k)
        /\ seen[c].classifications = classifications
        /\ seen[c].poll = lastPoll /\ seen[c].error = lastError
    BY <1>2, UpdateReadsCurrent
  <2>2. /\ arg[c].lifecycle \in Lifecycles
        /\ arg[c].classifications \in ClassificationMap
    BY <1>2, ArgumentType DEF UpdateCommitted
  <2>3. k \in ClassificationMap /\ Present(classifications) \subseteq Present(k)
    BY <2>1, <2>2, AccumulateType
       DEF UpdatedClassifications, TypeOK, StateTypeOK
  <2>4. StoreUpdate(revision + 1, snapshot, k, arg[c].lifecycle, body)
    BY <1>2, <2>1 DEF UpdateCommitted
  <2> HIDE DEF k
  <2>5. classifications' = k /\ lifecycle' = arg[c].lifecycle
    BY <2>4 DEF StoreUpdate
  <2>6. Atomic!StoreUpdate(revision + 1, snapshot, classifications',
                           lifecycle', body)
    BY <2>4, <2>5, AtomicReplaceCachedResponse
       DEF StoreUpdate, Atomic!StoreUpdate
  <2> QED
    BY <2>1, <2>2, <2>3, <2>5, <2>6, AtomicSets, AtomicMaterialize,
       AtomicEncode, NoneIsNoValue
       DEF Atomic!PublishUpdate
<1>3. ASSUME NEW c \in Callers, LifecycleCommitted(c)
      PROVE  Atomic!PublishLifecycle
  <2> DEFINE body == Encode(lastPoll, latest, arg[c].lifecycle, lastError)
  <2>1. /\ arg[c].lifecycle \in Lifecycles \ {lifecycle}
        /\ latest # None
        /\ StoreLifecycle(arg[c].lifecycle, body)
    BY <1>3, ArgumentType, LifecycleReadsCurrent DEF LifecycleCommitted
  <2>2. lifecycle' = arg[c].lifecycle
    BY <2>1 DEF StoreLifecycle
  <2>3. Atomic!StoreLifecycle(lifecycle', body)
    BY <2>1, <2>2, AtomicReplaceCachedResponse
       DEF StoreLifecycle, Atomic!StoreLifecycle
  <2> QED
    BY <2>1, <2>2, <2>3, AtomicSets, AtomicEncode DEF Atomic!PublishLifecycle
<1>4. ASSUME NEW c \in Callers, FailureCommitted(c)
      PROVE  Atomic!PublishFailure
  <2> DEFINE body == Encode(lastPoll, latest, lifecycle, arg[c].error)
  <2>1. arg[c].error \in Errors /\ StoreFailure(arg[c].error, body)
    BY <1>4, ArgumentType, FailureReadsCurrent DEF FailureCommitted
  <2>2. lastError' = arg[c].error
    BY <2>1 DEF StoreFailure
  <2>3. Atomic!StoreFailure(lastError', body)
    BY <2>1, <2>2, AtomicReplaceCachedResponse
       DEF StoreFailure, Atomic!StoreFailure
  <2> QED
    BY <2>1, <2>2, <2>3, AtomicEncode DEF Atomic!PublishFailure
<1>5. ASSUME NEW c \in Callers, RecordPollStarted(c)
      PROVE  Atomic!PollStarted
  BY <1>5 DEF RecordPollStarted, Atomic!PollStarted, StorePollStart,
              Atomic!StorePollStart, TypeOK
<1>6. CASE Restart
  BY <1>6 DEF Restart, StateReset, Atomic!Restart, Atomic!StateReset,
              NoClassifications, Atomic!NoClassifications, Atomic!Next
<1> QED
  BY <1>1, <1>2, <1>3, <1>4, <1>5, <1>6, StepKinds
     DEF ConditionalGet, vars, Atomic!Next

\* Publisher implements AtomicPublisher: a reader cannot tell the loops from
\* publications that happen in one step.
THEOREM PublisherImplementsAtomic == Spec => ImplementsAtomicPublisher
<1>1. Init => Atomic!StateInit
  BY DEF Init, StateInit, Atomic!StateInit, NoClassifications,
         Atomic!NoClassifications
<1>2. CoherenceInv /\ [Next]_vars => [Atomic!Next]_Atomic!readerVars
  BY StepImplements DEF readerVars, Atomic!readerVars
<1> QED
  BY <1>1, <1>2, CoherenceInvariant, PTL
     DEF Spec, ImplementsAtomicPublisher, Atomic!Spec

-----------------------------------------------------------------------------
(* Validators identify responses, across restarts too *)

\* What a step does to the arguments when no call starts: a call in progress
\* keeps them.
ArgumentsKept ==
    /\ boot' = boot /\ clock' \in {clock, clock + 1}
    /\ \A d \in Callers :
          pc'[d] # "idle" => pc[d] # "idle" /\ arg'[d] = arg[d]

\* The steps inside a call keep the arguments of every call.
LEMMA CallStepsKeepArguments ==
    ASSUME TypeOK, NEW c \in Callers,
           \/ EndCall(c)
           \/ pc[c] # "idle" /\ ReadAgain(c)
           \/ pc[c] # "idle" /\ Capture(c)
           \/ pc[c] # "idle" /\ RefreshUpdate(c)
    PROVE  ArgumentsKept
<1>1. CASE EndCall(c)
  BY <1>1 DEF EndCall, TypeOK, ArgumentsKept
<1>2. CASE pc[c] # "idle" /\ ReadAgain(c)
  BY <1>2 DEF ReadAgain, TypeOK, ArgumentsKept
<1>3. CASE pc[c] # "idle" /\ Capture(c)
  BY <1>3 DEF Capture, TypeOK, ArgumentsKept
<1>4. CASE pc[c] # "idle" /\ RefreshUpdate(c)
  BY <1>4 DEF RefreshUpdate, TypeOK, ArgumentsKept
<1> QED
  BY <1>1, <1>2, <1>3, <1>4

\* A step that starts a call takes a tick and changes only that caller.
LEMMA CallSetsArgument ==
    ASSUME TypeOK, NEW c \in Callers, NEW a, NEW step, Call(c, a, step)
    PROVE  /\ boot' = boot /\ clock' = clock + 1
           /\ arg'[c] = a
           /\ \A d \in Callers \ {c} : pc'[d] = pc[d] /\ arg'[d] = arg[d]
BY DEF Call, Tick, TypeOK

\* A membership call carries the clock value of the tick that started it.
LEMMA StepArguments ==
    ASSUME TypeOK, Next, ~ Restart
    PROVE  \/ ArgumentsKept
           \/ \E c \in Callers : \E a, step :
                 /\ Call(c, a, step)
                 /\ a.op = "membership" => a.membership.observed = clock + 1
<1>1. ASSUME NEW c \in Callers, CheckMembership(c) PROVE ArgumentsKept
  BY <1>1, CallStepsKeepArguments DEF CheckMembership, Return, Fail
<1>2. ASSUME NEW c \in Callers, ReadMembership(c) PROVE ArgumentsKept
  BY <1>2, CallStepsKeepArguments DEF ReadMembership, Return
<1>3. ASSUME NEW c \in Callers, CommitMembership(c) PROVE ArgumentsKept
  BY <1>3, CallStepsKeepArguments DEF CommitMembership, Return
<1>4. ASSUME NEW c \in Callers, ReadFailure(c) \/ CommitFailure(c)
      PROVE  ArgumentsKept
  BY <1>4, CallStepsKeepArguments DEF ReadFailure, CommitFailure
<1>5. ASSUME NEW c \in Callers, ReadUpdate(c) PROVE ArgumentsKept
  <2>1. pc[c] # "idle" /\ (EndCall(c) \/ Capture(c))
    BY <1>5 DEF ReadUpdate, Return, Fail
  <2> QED
    BY <2>1, CallStepsKeepArguments
<1>6. ASSUME NEW c \in Callers, CommitUpdate(c) PROVE ArgumentsKept
  <2>1. pc[c] # "idle" /\ (EndCall(c) \/ RefreshUpdate(c))
    BY <1>6 DEF CommitUpdate, Return
  <2> QED
    BY <2>1, CallStepsKeepArguments
<1>7. ASSUME NEW c \in Callers, ReadLifecycle(c) PROVE ArgumentsKept
  BY <1>7, CallStepsKeepArguments DEF ReadLifecycle, Return, Fail
<1>8. ASSUME NEW c \in Callers, CommitLifecycle(c) PROVE ArgumentsKept
  BY <1>8, CallStepsKeepArguments DEF CommitLifecycle, Return
<1>9. ASSUME NEW c \in Callers, WorkerFails(c) PROVE ArgumentsKept
  BY <1>9, CallStepsKeepArguments DEF WorkerFails, Fail
<1>10. ASSUME NEW c \in Callers, RecordPollStarted(c) PROVE ArgumentsKept
  BY <1>10 DEF RecordPollStarted, callVars, Tick, ArgumentsKept
<1>11. ASSUME ConditionalGet PROVE ArgumentsKept
  BY <1>11 DEF ConditionalGet, callVars, ArgumentsKept
<1>12. ASSUME NEW c \in Callers, CallPublishMembership(c)
       PROVE  \E a, step : /\ Call(c, a, step)
                           /\ a.membership.observed = clock + 1
  BY <1>12 DEF CallPublishMembership
<1>13. ASSUME NEW c \in Callers,
              \/ CallPublishUpdate(c) \/ CallPublishLifecycle(c)
              \/ CallPublishFailure(c)
       PROVE  \E a, step : Call(c, a, step) /\ a.op # "membership"
  <2>1. CASE CallPublishUpdate(c)
    BY <2>1 DEF CallPublishUpdate
  <2>2. CASE CallPublishLifecycle(c)
    BY <2>2 DEF CallPublishLifecycle
  <2>3. CASE CallPublishFailure(c)
    BY <2>3 DEF CallPublishFailure
  <2> QED
    BY <1>13, <2>1, <2>2, <2>3
<1>14. CASE \E c \in MembershipTasks : MembershipTask(c)
  <2>1. PICK c \in Callers : MembershipTask(c)
    BY <1>14 DEF Callers
  <2> QED
    BY <2>1, <1>1, <1>2, <1>3, <1>4, <1>9, <1>10, <1>12, <1>13
       DEF MembershipTask
<1>15. CASE \E c \in ClassificationTasks : ClassificationTask(c)
  <2>1. PICK c \in Callers : ClassificationTask(c)
    BY <1>15 DEF Callers
  <2> QED
    BY <2>1, <1>5, <1>6, <1>7, <1>8, <1>9, <1>13 DEF ClassificationTask
<1> QED
  BY <1>11, <1>14, <1>15 DEF Next

\* The clock stands still or takes one tick.
LEMMA ClockSteps ==
    ASSUME TypeOK, [Next]_vars
    PROVE  clock' \in {clock, clock + 1}
BY StepArguments, CallSetsArgument DEF ArgumentsKept, Restart, Tick, vars

\* Collections handed over to a publication are completed after the process
\* started and no later than now.
LEMMA StepFreshArguments ==
    TypeOK /\ FreshArguments /\ [Next]_vars => FreshArguments'
<1> SUFFICES ASSUME TypeOK, FreshArguments, [Next]_vars PROVE FreshArguments'
  OBVIOUS
<1>1. CASE Restart
  BY <1>1 DEF Restart, Tick, FreshArguments, TypeOK
<1>2. CASE ArgumentsKept
  BY <1>2 DEF ArgumentsKept, FreshArguments, TypeOK
<1>3. ASSUME NEW c \in Callers, NEW a, NEW step, Call(c, a, step),
             a.op = "membership" => a.membership.observed = clock + 1
      PROVE  FreshArguments'
  BY <1>3, CallSetsArgument DEF FreshArguments, TypeOK
<1>4. CASE UNCHANGED vars
  BY <1>4 DEF vars, callVars, FreshArguments
<1> QED
  BY <1>1, <1>2, <1>3, <1>4, StepArguments

\* Storing a response under the lock: its validator is new to every client.
LEMMA ReplaceKeepsValidators ==
    ASSUME TypeOK, TypeOK', ValidatorsFresh, NEW body,
           ReplaceCachedResponse(body),
           latest' # None => latest'.observed \in (boot + 1) .. clock,
           UNCHANGED <<reader, clock, boot>>
    PROVE  FreshState' /\ FreshReader' /\ NotModifiedMeansUnchanged'
<1> DEFINE e == [observed |-> latest'.observed,
                 response |-> responseRevision + 1]
<1>1. /\ responseRevision \in Nat /\ boot \in Nat /\ clock \in Nat
      /\ responseRevision' = responseRevision + 1
      /\ cachedResponse'.etag = IF latest' = None THEN None ELSE e
  BY DEF TypeOK, StateTypeOK, ReplaceCachedResponse
<1>2. FreshState'
  BY <1>1 DEF FreshState
<1>3. reader # None /\ reader.etag # None => reader.etag \in ETag
  BY DEF TypeOK, Option, Response
<1>4. FreshReader'
  BY <1>1, <1>3 DEF ValidatorsFresh, FreshReader, ETag
<1>5. ServedResponse'.etag \in {None, cachedResponse'.etag}
  BY DEF ServedResponse
<1>6. reader # None /\ reader.etag # None /\ latest' # None
        => reader.etag # e
  BY <1>1, <1>3 DEF ValidatorsFresh, FreshReader, ETag
<1>7. ~ (reader # None /\ NotModified(reader)')
  BY <1>1, <1>5, <1>6 DEF NotModified
<1>8. NotModifiedMeansUnchanged'
  BY <1>7 DEF NotModifiedMeansUnchanged, NotModified
<1> QED
  BY <1>2, <1>4, <1>8

\* Every step keeps validators unique and what they identify unchanged.
LEMMA StepValidators ==
    /\ CoherenceInv /\ CoherenceInv' /\ [Next]_vars
    /\ ValidatorsFresh /\ NotModifiedMeansUnchanged
    => ValidatorsFresh' /\ NotModifiedMeansUnchanged'
<1> SUFFICES ASSUME CoherenceInv, CoherenceInv', [Next]_vars,
                    ValidatorsFresh, NotModifiedMeansUnchanged
             PROVE  /\ FreshState' /\ FreshReader'
                    /\ NotModifiedMeansUnchanged'
  BY StepFreshArguments DEF CoherenceInv, ValidatorsFresh
<1>1. TypeOK /\ TypeOK' /\ CallsConsistent /\ SnapshotMatchesState
  BY DEF CoherenceInv
<1>2. ASSUME NEW c \in Callers, MembershipCommitted(c)
      PROVE  FreshState' /\ FreshReader' /\ NotModifiedMeansUnchanged'
  <2>1. arg[c].membership.observed \in (boot + 1) .. clock
    BY <1>2 DEF ValidatorsFresh, FreshArguments, MembershipCommitted
  <2>2. latest'.observed = arg[c].membership.observed
    BY <1>2 DEF MembershipCommitted, StoreMembership, Materialize
  <2> QED
    BY <1>1, <1>2, <2>1, <2>2, ReplaceKeepsValidators
       DEF MembershipCommitted, StoreMembership, EndCall
<1>3. ASSUME NEW c \in Callers, UpdateCommitted(c)
      PROVE  FreshState' /\ FreshReader' /\ NotModifiedMeansUnchanged'
  <2>1. /\ seen[c].membership = membership /\ membership \in Membership
        /\ membership # None
    BY <1>1, <1>3, UpdateReadsCurrent, NoneIsNoValue
  <2>2. latest # None /\ latest.observed = membership.observed
    BY <1>1, <2>1 DEF SnapshotMatchesState, Materialize
  <2>3. latest'.observed = membership.observed
    BY <1>3, <2>1 DEF UpdateCommitted, StoreUpdate, Materialize
  <2>4. latest.observed \in (boot + 1) .. clock
    BY <2>2 DEF ValidatorsFresh, FreshState
  <2> QED
    BY <1>1, <1>3, <2>2, <2>3, <2>4, ReplaceKeepsValidators
       DEF UpdateCommitted, StoreUpdate, EndCall
<1>4. ASSUME NEW c \in Callers, LifecycleCommitted(c)
      PROVE  FreshState' /\ FreshReader' /\ NotModifiedMeansUnchanged'
  BY <1>1, <1>4, ReplaceKeepsValidators
     DEF LifecycleCommitted, StoreLifecycle, EndCall, ValidatorsFresh,
         FreshState
<1>5. ASSUME NEW c \in Callers, FailureCommitted(c)
      PROVE  FreshState' /\ FreshReader' /\ NotModifiedMeansUnchanged'
  BY <1>1, <1>5, ReplaceKeepsValidators
     DEF FailureCommitted, StoreFailure, EndCall, ValidatorsFresh, FreshState
<1>6. /\ boot \in Nat /\ clock \in Nat /\ responseRevision \in Nat
      /\ latest # None => latest.observed \in Nat
      /\ reader # None /\ reader.etag # None => reader.etag \in ETag
      /\ cachedResponse # None /\ cachedResponse.etag # None =>
            cachedResponse.etag \in ETag
  BY <1>1 DEF TypeOK, StateTypeOK, Option, Response, Snapshot
<1>7. CASE clock' \in {clock, clock + 1}
           /\ UNCHANGED <<latest, cachedResponse, responseRevision, reader,
                          boot>>
  <2>1. FreshState' /\ FreshReader'
    BY <1>6, <1>7 DEF ValidatorsFresh, FreshState, FreshReader, ETag
  <2>2. CASE cachedResponse = None
    <3>1. ServedResponse'.etag = None
      BY <1>7, <2>2 DEF ServedResponse
    <3> QED
      BY <2>1, <3>1 DEF NotModifiedMeansUnchanged, NotModified
  <2>3. CASE cachedResponse # None
    <3>1. ServedResponse = cachedResponse /\ ServedResponse' = cachedResponse
      BY <1>7, <2>3 DEF ServedResponse
    <3> QED
      BY <1>7, <2>1, <3>1 DEF NotModifiedMeansUnchanged, NotModified
  <2> QED
    BY <2>1, <2>2, <2>3
<1>8. CASE Restart
  <2>1. /\ boot' = clock + 1 /\ clock' = clock + 1 /\ latest' = None
        /\ cachedResponse' = None /\ reader' = reader
    BY <1>8 DEF Restart, StateReset, Tick
  <2>2. FreshState' /\ FreshReader'
    BY <1>6, <2>1 DEF ValidatorsFresh, FreshState, FreshReader, ETag
  <2>3. ServedResponse'.etag = None
    BY <2>1 DEF ServedResponse
  <2> QED
    BY <2>2, <2>3 DEF NotModifiedMeansUnchanged, NotModified
<1>9. CASE ConditionalGet
  <2>1. /\ UNCHANGED <<latest, cachedResponse, responseRevision, boot, clock>>
        /\ reader' \in {reader, ServedResponse}
        /\ ServedResponse' = ServedResponse
    BY <1>9 DEF ConditionalGet, readerVars, ServedResponse
  <2>2. ServedResponse.etag # None =>
           cachedResponse # None /\ ServedResponse = cachedResponse
    BY DEF ServedResponse
  <2>3. FreshState'
    BY <2>1 DEF ValidatorsFresh, FreshState
  <2>4. FreshReader'
    BY <1>6, <2>1, <2>2 DEF ValidatorsFresh, FreshState, FreshReader, ETag
  <2>5. NotModifiedMeansUnchanged'
    BY <2>1 DEF NotModifiedMeansUnchanged, NotModified
  <2> QED
    BY <2>3, <2>4, <2>5
<1>10. ASSUME NEW c \in Callers, RecordPollStarted(c)
       PROVE  clock' \in {clock, clock + 1}
              /\ UNCHANGED <<latest, cachedResponse, responseRevision, reader,
                             boot>>
  BY <1>10 DEF RecordPollStarted, StorePollStart, Tick
<1>11. CASE UNCHANGED <<readerVars, reader, boot>>
  <2>1. clock' \in {clock, clock + 1}
    BY <1>1, ClockSteps
  <2> QED
    BY <1>7, <1>11, <2>1 DEF readerVars
<1>12. CASE UNCHANGED vars
  BY <1>11, <1>12 DEF vars
<1> QED
  BY <1>2, <1>3, <1>4, <1>5, <1>7, <1>8, <1>9, <1>10, <1>11, <1>12, StepKinds

\* A 304 never confirms a copy that differs from what the server would send,
\* although response numbers begin again when the process restarts.
THEOREM NotModifiedIsSafe == Spec => []NotModifiedMeansUnchanged
<1>1. Init => ValidatorsFresh /\ NotModifiedMeansUnchanged
  BY DEF Init, StateInit, ValidatorsFresh, FreshArguments, FreshState,
         FreshReader, NotModifiedMeansUnchanged
<1> QED
  BY <1>1, StepValidators, CoherenceInvariant, PTL DEF Spec

-----------------------------------------------------------------------------
(* Publications never go back *)

\* Within a process a step keeps the publication or moves it forward by one.
LEMMA StepForward ==
    ASSUME CoherenceInv, FreshArguments, Next, boot' = boot
    PROVE  \/ generation' > generation /\ revision' = 0
           \/ /\ generation' = generation
              /\ revision' \in {revision, revision + 1}
              /\ Present(classifications) \subseteq Present(classifications')
              /\ revision' = revision => classifications' = classifications
<1> DEFINE Goal == \/ generation' > generation /\ revision' = 0
                   \/ /\ generation' = generation
                      /\ revision' \in {revision, revision + 1}
                      /\ Present(classifications)
                           \subseteq Present(classifications')
                      /\ revision' = revision =>
                           classifications' = classifications
<1>1. TypeOK /\ CallsConsistent
  BY DEF CoherenceInv
<1>2. ASSUME NEW c \in Callers, MembershipCommitted(c) PROVE Goal
  BY <1>1, <1>2, MembershipReadsCurrent
     DEF MembershipCommitted, StoreMembership, TypeOK, StateTypeOK
<1>3. ASSUME NEW c \in Callers, UpdateCommitted(c) PROVE Goal
  <2>1. /\ arg[c].revision = revision + 1
        /\ seen[c].classifications = classifications
    BY <1>1, <1>3, UpdateReadsCurrent
  <2>2. arg[c].classifications \in ClassificationMap
    BY <1>1, <1>3, ArgumentType DEF UpdateCommitted
  <2>3. classifications' = Accumulate(classifications, arg[c].classifications)
    BY <1>3, <2>1 DEF UpdateCommitted, StoreUpdate, UpdatedClassifications
  <2>4. Present(classifications) \subseteq Present(classifications')
    BY <1>1, <2>2, <2>3, AccumulateType DEF TypeOK, StateTypeOK
  <2>5. generation' = generation /\ revision' = revision + 1
    BY <1>3, <2>1 DEF UpdateCommitted, StoreUpdate
  <2> QED
    BY <1>1, <2>4, <2>5 DEF TypeOK, StateTypeOK
<1>4. CASE UNCHANGED <<generation, revision, classifications>>
  BY <1>4
<1>5. ASSUME NEW c \in Callers,
             \/ LifecycleCommitted(c) \/ FailureCommitted(c)
             \/ RecordPollStarted(c)
      PROVE  UNCHANGED <<generation, revision, classifications>>
  BY <1>5 DEF LifecycleCommitted, StoreLifecycle, FailureCommitted,
              StoreFailure, RecordPollStarted, StorePollStart
<1>6. ~ Restart
  BY <1>1 DEF Restart, FreshArguments, TypeOK
<1> QED
  BY <1>2, <1>3, <1>4, <1>5, <1>6, StepKinds DEF ConditionalGet, readerVars

\* No delta is skipped, applied twice or lost to a concurrent publication,
\* and an older generation never replaces a newer one.
THEOREM PublicationsAreOrdered == Spec => PublicationOrder
<1>1. CoherenceInv /\ FreshArguments /\ [Next]_vars =>
        [ boot' = boot =>
            \/ generation' > generation /\ revision' = 0
            \/ /\ generation' = generation
               /\ revision' \in {revision, revision + 1}
               /\ Present(classifications) \subseteq Present(classifications')
               /\ revision' = revision => classifications' = classifications
        ]_readerVars
  BY StepForward DEF vars
<1>2. Init => FreshArguments
  BY DEF Init, FreshArguments
<1>3. CoherenceInv => TypeOK
  BY DEF CoherenceInv
<1> QED
  BY <1>1, <1>2, <1>3, StepFreshArguments, CoherenceInvariant, PTL
     DEF Spec, PublicationOrder

-----------------------------------------------------------------------------
(* The copy a client holds *)

\* Every collection has its own completion time: that of a call in flight is
\* neither the one readers see, nor the one the client holds, nor another
\* call's.
Holds == reader # None /\ reader.body.snapshot # None
HandsOver(c) == pc[c] # "idle" /\ arg[c].op = "membership"
CollectionsApart ==
    \A c \in Callers : HandsOver(c) =>
        /\ latest # None => arg[c].membership.observed # latest.observed
        /\ Holds => arg[c].membership.observed # reader.body.snapshot.observed
        /\ \A d \in Callers \ {c} : HandsOver(d) =>
              arg[d].membership.observed # arg[c].membership.observed

\* The copy a client holds is of a collection that was completed, and if that is
\* the collection readers see, an earlier revision of it or the same snapshot.
HeldIsOlder ==
    Holds =>
        /\ reader.body.snapshot.observed <= clock
        /\ latest # None /\ reader.body.snapshot.observed = latest.observed =>
              /\ reader.body.snapshot.revision <= revision
              /\ reader.body.snapshot.revision = revision =>
                    reader.body.snapshot = latest

HeldInv == CollectionsApart /\ HeldIsOlder

\* What readers are given shows the visible snapshot.
LEMMA ServedSnapshot ==
    ASSUME CachedResponseCoherent
    PROVE  ServedResponse.body.snapshot = latest
BY DEF CachedResponseCoherent, ServedResponse, Encode

\* The times in a well-typed state are natural numbers.
LEMMA ObservedTypes ==
    ASSUME TypeOK
    PROVE  /\ Holds => reader.body.snapshot \in Snapshot
           /\ Holds => /\ reader.body.snapshot.observed \in Nat
                       /\ reader.body.snapshot.revision \in Nat
           /\ latest # None => latest.observed \in Nat
           /\ clock \in Nat /\ revision \in Nat
<1>1. Holds => reader.body.snapshot \in Snapshot
  <2>1. reader # None => reader \in Response
    BY DEF TypeOK, Option
  <2>2. \A r \in Response : r.body.snapshot \in Option(Snapshot)
    BY DEF Response, ResponseBody
  <2> QED
    BY <2>1, <2>2 DEF Holds, Option
<1>2. \A s \in Snapshot : s.observed \in Nat /\ s.revision \in Nat
  BY DEF Snapshot
<1>3. latest # None => latest \in Snapshot
  BY DEF TypeOK, StateTypeOK, Option
<1> QED
  BY <1>1, <1>2, <1>3 DEF TypeOK, StateTypeOK

\* A step that starts no call and shows no other collection keeps collections
\* apart.
LEMMA KeptApart ==
    ASSUME CollectionsApart, ArgumentsKept,
           latest' # None => latest # None /\ latest'.observed = latest.observed,
           \/ reader' = reader
           \/ reader'.body.snapshot = latest
    PROVE  CollectionsApart'
<1> SUFFICES ASSUME NEW c \in Callers, HandsOver(c)'
             PROVE  /\ latest' # None => arg'[c].membership.observed # latest'.observed
                    /\ Holds' => arg'[c].membership.observed
                                   # reader'.body.snapshot.observed
                    /\ \A d \in Callers \ {c} : HandsOver(d)' =>
                         arg'[d].membership.observed # arg'[c].membership.observed
  BY DEF CollectionsApart
<1>1. \A d \in Callers : HandsOver(d)' => HandsOver(d) /\ arg'[d] = arg[d]
  BY DEF HandsOver, ArgumentsKept
<1>2. /\ latest # None => arg[c].membership.observed # latest.observed
      /\ Holds => arg[c].membership.observed # reader.body.snapshot.observed
      /\ \A d \in Callers \ {c} : HandsOver(d) =>
            arg[d].membership.observed # arg[c].membership.observed
  BY <1>1 DEF CollectionsApart
<1>3. latest' # None => arg'[c].membership.observed # latest'.observed
  BY <1>1, <1>2
<1>4. Holds' => arg'[c].membership.observed # reader'.body.snapshot.observed
  BY <1>1, <1>2 DEF Holds
<1> QED
  BY <1>1, <1>2, <1>3, <1>4

\* Every step keeps what the client holds older than, or equal to, what it would
\* be given.
LEMMA StepHeld ==
    /\ CoherenceInv /\ CoherenceInv' /\ [Next]_vars /\ ValidatorsFresh /\ HeldInv
    => HeldInv'
<1> SUFFICES ASSUME CoherenceInv, CoherenceInv', [Next]_vars, ValidatorsFresh, HeldInv
             PROVE  HeldInv'
  OBVIOUS
<1>0. /\ TypeOK /\ TypeOK' /\ CallsConsistent /\ SnapshotMatchesState
      /\ CachedResponseCoherent /\ FreshArguments /\ FreshState
      /\ CollectionsApart /\ HeldIsOlder
  BY DEF CoherenceInv, ValidatorsFresh, HeldInv
<1> HIDE DEF CoherenceInv, ValidatorsFresh, HeldInv
<1>1. /\ Holds => /\ reader.body.snapshot.observed \in Nat
                  /\ reader.body.snapshot.revision \in Nat
      /\ latest # None => latest.observed \in Nat
      /\ clock \in Nat /\ revision \in Nat
  BY <1>0, ObservedTypes
<1>2. ASSUME NEW c \in Callers, MembershipCommitted(c)
      PROVE  HeldInv'
  <2>1. /\ ArgumentsKept /\ reader' = reader /\ clock' = clock /\ pc'[c] = "idle"
        /\ latest'.observed = arg[c].membership.observed
        /\ HandsOver(c)
    BY <1>0, <1>2, CallStepsKeepArguments
       DEF MembershipCommitted, StoreMembership, EndCall, Materialize, HandsOver, TypeOK
  <2>2. Holds' => Holds /\ arg[c].membership.observed # reader.body.snapshot.observed
    BY <1>0, <2>1 DEF CollectionsApart, Holds
  <2>3. HeldIsOlder'
    BY <1>0, <2>1, <2>2 DEF HeldIsOlder, Holds
  <2>4. \A d \in Callers : HandsOver(d)' => d # c /\ HandsOver(d) /\ arg'[d] = arg[d]
    BY <2>1 DEF HandsOver, ArgumentsKept
  <2>5. CollectionsApart'
    BY <1>0, <2>1, <2>2, <2>4 DEF CollectionsApart, Holds
  <2> QED
    BY <2>3, <2>5 DEF HeldInv
<1>3. ASSUME NEW c \in Callers, UpdateCommitted(c)
      PROVE  HeldInv'
  <2>1. /\ seen[c].membership = membership /\ membership \in Membership
        /\ membership # None /\ arg[c].revision = revision + 1
    BY <1>0, <1>3, UpdateReadsCurrent, NoneIsNoValue
  <2>2. latest # None /\ latest.observed = membership.observed
    BY <1>0, <2>1 DEF SnapshotMatchesState, Materialize
  <2>3. latest'.observed = membership.observed /\ revision' = revision + 1
    BY <1>3, <2>1 DEF UpdateCommitted, StoreUpdate, Materialize
  <2>4. ArgumentsKept /\ reader' = reader /\ clock' = clock
    BY <1>0, <1>3, CallStepsKeepArguments DEF UpdateCommitted, EndCall
  <2>5. HeldIsOlder'
    BY <1>0, <1>1, <2>2, <2>3, <2>4 DEF HeldIsOlder, Holds
  <2>6. CollectionsApart'
    BY <1>0, <2>2, <2>3, <2>4, KeptApart
  <2> QED
    BY <2>5, <2>6 DEF HeldInv
<1>4. CASE /\ ArgumentsKept /\ clock' \in {clock, clock + 1}
           /\ UNCHANGED <<latest, revision, reader>>
  <2>1. HeldIsOlder'
    BY <1>0, <1>1, <1>4 DEF HeldIsOlder, Holds
  <2>2. CollectionsApart'
    BY <1>0, <1>4, KeptApart
  <2> QED
    BY <2>1, <2>2 DEF HeldInv
<1>5. ASSUME NEW c \in Callers, LifecycleCommitted(c)
      PROVE  HeldInv'
  <2>1. ArgumentsKept
    BY <1>0, <1>5, CallStepsKeepArguments DEF LifecycleCommitted
  <2> QED
    BY <1>4, <1>5, <2>1 DEF LifecycleCommitted, StoreLifecycle, EndCall
<1>6. ASSUME NEW c \in Callers, FailureCommitted(c)
      PROVE  HeldInv'
  <2>1. ArgumentsKept
    BY <1>0, <1>6, CallStepsKeepArguments DEF FailureCommitted
  <2> QED
    BY <1>4, <1>6, <2>1 DEF FailureCommitted, StoreFailure, EndCall
<1>7. ASSUME NEW c \in Callers, RecordPollStarted(c)
      PROVE  HeldInv'
  <2>1. ArgumentsKept
    BY <1>7 DEF RecordPollStarted, callVars, Tick, ArgumentsKept
  <2> QED
    BY <1>4, <1>7, <2>1 DEF RecordPollStarted, StorePollStart, Tick
<1>8. CASE Restart
  <2>1. latest' = None /\ reader' = reader /\ clock' = clock + 1
    BY <1>8 DEF Restart, StateReset, Tick
  <2>2. \A c \in Callers : pc'[c] = "idle"
    BY <1>8 DEF Restart
  <2>3. HeldIsOlder'
    BY <1>0, <1>1, <2>1 DEF HeldIsOlder, Holds
  <2>4. CollectionsApart'
    BY <2>2 DEF CollectionsApart, HandsOver
  <2> QED
    BY <2>3, <2>4 DEF HeldInv
<1>9. CASE ConditionalGet
  <2>1. /\ UNCHANGED <<latest, revision, clock, pc, arg, boot>>
        /\ reader' \in {reader, ServedResponse}
    BY <1>9 DEF ConditionalGet, readerVars, callVars
  <2>2. ArgumentsKept
    BY <1>9, <2>1 DEF ArgumentsKept
  <2>3. CASE reader' = reader
    BY <1>4, <2>1, <2>2, <2>3
  <2>4. CASE reader' = ServedResponse
    <3>1. reader'.body.snapshot = latest
      BY <1>0, <2>4, ServedSnapshot
    <3>2. CollectionsApart'
      BY <1>0, <2>1, <2>2, <3>1, KeptApart
    <3>3. latest # None => latest.observed <= clock /\ latest.revision = revision
      <4>1. latest # None => latest.observed \in (boot + 1) .. clock
        BY <1>0 DEF FreshState
      <4>2. latest # None => latest.revision = revision
        BY <1>0 DEF SnapshotMatchesState, Materialize
      <4> QED
        BY <1>1, <4>1, <4>2
    <3>4. HeldIsOlder'
      BY <1>1, <2>1, <3>1, <3>3 DEF HeldIsOlder, Holds
    <3> QED
      BY <3>2, <3>4 DEF HeldInv
  <2> QED
    BY <2>1, <2>3, <2>4
<1>10. CASE UNCHANGED <<readerVars, reader, boot>> /\ Next
  <2>1. UNCHANGED <<latest, revision, reader>>
    BY <1>10 DEF readerVars
  <2>2. clock' \in {clock, clock + 1}
    BY <1>0, ClockSteps
  <2>3. CASE ArgumentsKept
    BY <1>4, <2>1, <2>2, <2>3
  <2>4. ASSUME NEW c \in Callers, NEW a, NEW step, Call(c, a, step),
               a.op = "membership" => a.membership.observed = clock + 1
        PROVE  HeldInv'
    <3>1. /\ boot' = boot /\ clock' = clock + 1 /\ arg'[c] = a
          /\ \A d \in Callers \ {c} : pc'[d] = pc[d] /\ arg'[d] = arg[d]
      BY <1>0, <2>4, CallSetsArgument
    <3>2. HeldIsOlder'
      BY <1>0, <1>1, <2>1, <3>1 DEF HeldIsOlder, Holds
    <3>3. \A d \in Callers \ {c} : (HandsOver(d)' <=> HandsOver(d))
      BY <3>1 DEF HandsOver
    <3>4. \A d \in Callers : HandsOver(d) => arg[d].membership.observed # clock + 1
      BY <1>0, <1>1 DEF FreshArguments, HandsOver, TypeOK
    <3>5. HandsOver(c)' => arg'[c].membership.observed = clock + 1
      BY <2>4, <3>1 DEF HandsOver
    <3>6. /\ latest # None => latest.observed # clock + 1
          /\ Holds => reader.body.snapshot.observed # clock + 1
      BY <1>0, <1>1 DEF FreshState, HeldIsOlder
    <3>7. CollectionsApart'
      <4> SUFFICES ASSUME NEW e \in Callers, HandsOver(e)'
                   PROVE  /\ latest' # None =>
                               arg'[e].membership.observed # latest'.observed
                          /\ Holds' => arg'[e].membership.observed
                                         # reader'.body.snapshot.observed
                          /\ \A d \in Callers \ {e} : HandsOver(d)' =>
                               arg'[d].membership.observed # arg'[e].membership.observed
        BY DEF CollectionsApart
      <4>1. CASE e = c
        BY <2>1, <3>1, <3>3, <3>4, <3>5, <3>6, <4>1 DEF Holds
      <4>2. CASE e # c
        <5>1. HandsOver(e) /\ arg'[e] = arg[e]
          BY <3>1, <3>3, <4>2
        <5>2. /\ latest # None => arg[e].membership.observed # latest.observed
              /\ Holds => arg[e].membership.observed # reader.body.snapshot.observed
              /\ \A d \in Callers \ {e} : HandsOver(d) =>
                    arg[d].membership.observed # arg[e].membership.observed
          BY <1>0, <5>1 DEF CollectionsApart
        <5>3. \A d \in Callers \ {e} : HandsOver(d)' =>
                 arg'[d].membership.observed # arg'[e].membership.observed
          BY <3>1, <3>3, <3>4, <3>5, <5>1, <5>2
        <5> QED
          BY <2>1, <5>1, <5>2, <5>3 DEF Holds
      <4> QED
        BY <4>1, <4>2
    <3> QED
      BY <3>2, <3>7 DEF HeldInv
  <2>5. ~ Restart
    BY <1>0, <1>1, <1>10 DEF Restart, FreshArguments, TypeOK
  <2> QED
    BY <1>0, <1>10, <2>3, <2>4, <2>5, StepArguments
<1>11. CASE UNCHANGED vars
  <2>1. /\ UNCHANGED <<latest, revision, reader, clock, pc, arg, boot>>
    BY <1>11 DEF vars, readerVars, callVars
  <2>2. ArgumentsKept
    BY <2>1 DEF ArgumentsKept
  <2> QED
    BY <1>4, <2>1, <2>2
<1> QED
  BY <1>2, <1>3, <1>5, <1>6, <1>7, <1>8, <1>9, <1>10, <1>11, StepKinds

\* A transaction detail that names the observation time and the revision of the
\* snapshot a client holds is about the variant and the result that snapshot
\* shows, however publications and restarts come between the two reads
\* (web/src/main.ts compares the two before it shows a detail).
THEOREM AcceptedDetailsMatch == Spec => []AcceptedDetailMatchesHeldSnapshot
<1>1. Init => ValidatorsFresh /\ NotModifiedMeansUnchanged /\ HeldInv
  BY DEF Init, StateInit, ValidatorsFresh, FreshArguments, FreshState,
         FreshReader, NotModifiedMeansUnchanged, HeldInv, CollectionsApart,
         HandsOver, HeldIsOlder, Holds
<1>2. CoherenceInv /\ HeldInv => AcceptedDetailMatchesHeldSnapshot
  <2> SUFFICES ASSUME CoherenceInv, HeldInv, NEW t \in Txids,
                      latest # None, latest.variants[t] # None,
                      classifications[t] # None, Holds,
                      reader.body.snapshot.observed = TransactionDetail(t).observed,
                      reader.body.snapshot.revision = TransactionDetail(t).revision
               PROVE  /\ reader.body.snapshot.variants[t] =
                           TransactionDetail(t).classification.wtxid
                      /\ reader.body.snapshot.results[t] =
                           TransactionDetail(t).classification.result
    BY DEF AcceptedDetailMatchesHeldSnapshot, Holds
  <2> DEFINE k == classifications[t]
             detail == [observed |-> latest.observed, revision |-> revision,
                        classification |-> k]
  <2>1. TransactionDetail(t) = detail
    BY DEF TransactionDetail
  <2>2. reader.body.snapshot = latest
    BY <2>1 DEF HeldInv, HeldIsOlder
  <2>3. /\ membership # None /\ latest = Materialize(membership, revision, classifications)
        /\ MatchesMembership(membership, classifications)
    BY DEF CoherenceInv, SnapshotMatchesState
  <2>4. latest.variants[t] = membership.variants[t] /\ membership.variants[t] = k.wtxid
    BY <2>3 DEF Materialize, MatchesMembership
  <2>5. latest.results[t] = k.result
    BY <2>3, <2>4 DEF Materialize
  <2> QED
    BY <2>1, <2>2, <2>4, <2>5
<1> QED
  BY <1>1, <1>2, StepHeld, StepValidators, CoherenceInvariant, PTL DEF Spec
=============================================================================
