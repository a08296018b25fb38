----------------------- MODULE ClassificationPipeline -----------------------
(***************************************************************************)
(* ClassificationPipeline of src/src/classification.rs: generations of a   *)
(* mempool, and the slices that fetch raw transactions and the scripts     *)
(* they spend, a bounded number at a time, until every transaction is      *)
(* classified or given up.                                                 *)
(*                                                                         *)
(* A slice is split at its three RPC waits.  Membership installation does  *)
(* not wait for it and may supersede its generation at each of them.  The  *)
(* yields of resolve_capacity_pressure are no such points: what it changes *)
(* is local to the slice.                                                  *)
(***************************************************************************)
EXTENDS PendingSlice

CONSTANTS
    Collections,        \* sequences of the memberships successive polls return
    MaxSliceSize,       \* max_transactions_per_slice
    MaxGeneration       \* bound on the collections

ASSUME PipelineAssumption ==
    /\ Collections \subseteq Seq(SUBSET Variants)
    /\ \A m \in UNION {ToSet(h) : h \in Collections} :
         /\ IsFiniteSet(m)
         /\ \A v, w \in m : TxidOf[v] = TxidOf[w] => v = w
    /\ MaxSliceSize \in Nat \ {0}
    /\ MaxGeneration \in Nat

VARIABLES
    generation,     \* id of the current generation, 0 before the first
    members,        \* its membership
    classified,     \* variant -> inputs without a script, for each result
    attempted,      \* variants not to be fetched again in this generation
    retryUsed,      \* raw_retry_used
    pending,        \* work.pending; EmptySlice is None
    outputs,        \* variants whose outputs are retained
    confirmed,      \* outpoints in the confirmed-script cache
    slice,          \* the slice in progress
    status,         \* disposition of the last slice of the generation
    slices,         \* history: slices of the generation: 0, 1, 2, 3, 2, 3, ...
    rawRequests,    \* history: variant -> raw requests in this generation
    givenUp,        \* history: variants given up in this generation
    fetched         \* history: what the slice that just ended had fetched

workVars == <<classified, attempted, retryUsed, pending, outputs, confirmed>>
vars == <<generation, members, workVars, slice, status, slices, rawRequests,
          givenUp, fetched>>

-----------------------------------------------------------------------------
(* Data *)

\* The local state of classify_next_for_generation across its awaits:
\* `work' is its PendingSlice, the last fields are its ClassificationAdvance.
Idle == [pc |-> "idle", generation |-> 0, requests |-> {},
         work |-> EmptySlice, outputs |-> {}, scripts |-> {},
         results |-> <<>>, systemic |-> FALSE]

NoFetch == [outputs |-> {}, scripts |-> {}]

Txids == {TxidOf[v] : v \in members}

Retryable(v) == v \in DOMAIN classified /\ classified[v] # {}

\* eligible and not yet taken up
Unstarted(done, tried) ==
    {v \in members \ tried : v \notin DOMAIN done \/ done[v] # {}}

Init ==
    /\ generation = 0
    /\ members = {}
    /\ classified = <<>>
    /\ attempted = {}
    /\ retryUsed = {}
    /\ pending = EmptySlice
    /\ outputs = {}
    /\ confirmed = {}
    /\ slice = Idle
    /\ status = "waiting"
    /\ slices = 0
    /\ rawRequests = [v \in Variants |-> 0]
    /\ givenUp = {}
    /\ fetched = NoFetch

-----------------------------------------------------------------------------
(* Installation *)

\* What the next poll may return.
NextMemberships ==
    {h[generation + 1] : h \in {h \in Collections :
        Len(h) > generation /\ (generation > 0 => h[generation] = members)}}

\* install_snapshot: results and outputs of surviving variants are carried
\* over; attempts and pending work are not.  The runtime schedules the new
\* generation in every case.
InstallSnapshot ==
    /\ generation < MaxGeneration
    /\ generation' = generation + 1
    /\ members' \in NextMemberships
    /\ classified' = [v \in DOMAIN classified \cap members' |-> classified[v]]
    /\ outputs' = outputs \cap members'
    /\ attempted' = {}
    /\ retryUsed' = {}
    /\ pending' = EmptySlice
    /\ status' = "continue"
    /\ slices' = 0
    /\ rawRequests' = [v \in Variants |-> 0]
    /\ givenUp' = {}
    /\ fetched' = NoFetch
    /\ UNCHANGED <<confirmed, slice>>

-----------------------------------------------------------------------------
(* The end of a slice *)

\* Candidates whose facts are all known leave the slice with a result.
ClassifyIn(s, c) ==
    [s EXCEPT !.work = c.slice, !.results = Merge(@, c.results)]

Classify(s) == ClassifyIn(s, ClassifyReady(s.work))

HydrateFromCaches(s) ==
    [s EXCEPT !.work = Hydrate(@, s.work.raw \cup outputs, confirmed)]

HydrateFromTransient(s) == [s EXCEPT !.work = Hydrate(@, s.outputs, s.scripts)]

Activate(s) == [s EXCEPT !.work = ActivateWaiting(@, Txids)]

\* One turn of the loop in recover_known_facts, which goes on as long as
\* something was classified.
RecoverTurn(r) ==
    LET t == Classify(HydrateFromTransient(HydrateFromCaches(r.slice)))
    IN  IF r.more
        THEN [slice |-> t, more |-> DOMAIN t.results # DOMAIN r.slice.results]
        ELSE r

\* recover_known_facts: as classifications free bytes, known scripts that did
\* not fit become admissible.  Every turn but the last classifies a candidate.
Recover(s) ==
    LET most == Cardinality(Active(s.work)) + 1
        after[n \in 0 .. most] ==
            IF n = 0 THEN [slice |-> s, more |-> TRUE]
            ELSE RecoverTurn(after[n - 1])
    IN  after[most].slice

\* Mutant: one deferral is enough.
DoneAfterDeferral(s) == TRUE

\* Scripts fetched in this slice are lost with it; as long as one of them is
\* still blocked, further candidates have to make room.
NothingFetchedIsBlocked(s) == ~ TransientBlocked(s.work, s.outputs, s.scripts)

PressureResolved(r) ==
    \/ CapacityVictim(r.slice.work) = {}
    \/ r.deferred /\ NothingFetchedIsBlocked(r.slice)

\* One turn of the loop in resolve_capacity_pressure, for a slice that was
\* just recovered.
DeferTurn(r) ==
    IF PressureResolved(r) THEN r
    ELSE [slice |-> Recover([r.slice EXCEPT !.work =
                               Discard(@, CapacityVictim(@))]),
          deferred |-> TRUE]

\* resolve_capacity_pressure: every turn takes a candidate out.
ResolveCapacityPressure(s) ==
    LET first == [slice |-> Recover(s), deferred |-> FALSE]
        most == Cardinality(Active(first.slice.work))
        after[n \in 0 .. most] == IF n = 0 THEN first ELSE DeferTurn(after[n - 1])
    IN  after[most].slice

DeferExhausted(s) == [s EXCEPT !.work = Discard(@, Exhausted(@))]

BlockOne(s) == [s EXCEPT !.work = BlockOneFact(@)]

\* After the last wave.
SettleSlice(s) ==
    Activate(ResolveCapacityPressure(DeferExhausted(BlockOne(Classify(s)))))

Disposition(systemic, remaining) ==
    IF systemic THEN "paused"
    ELSE IF remaining = {} THEN "complete" ELSE "continue"

\* Mutant: the rest of the slice is forgotten.
RestForgotten(p) == EmptySlice

\* An empty slice is not kept; EmptySlice stands for None.
RestOf(p) == IF Candidates(p) = {} THEN EmptySlice ELSE p

\* The results become part of the generation.  What AuxiliaryCache has room
\* for is any part of the new outputs and any part of the confirmed scripts.
Store(s, t, tried, raw) ==
    /\ \E new \in SUBSET t.outputs : outputs' = outputs \cup new
    /\ confirmed' \in SUBSET (confirmed \cup t.scripts)
    /\ classified' = Merge(classified, t.results)
    /\ pending' = RestOf(Hydrate(t.work, t.work.raw \cup outputs', confirmed'))
    /\ attempted' = tried
    /\ status' = Disposition(t.systemic, Unstarted(classified', tried)
                                           \cup Candidates(pending'))
    /\ slices' = IF slices < 3 THEN slices + 1 ELSE 2
    /\ givenUp' = givenUp \cup raw \cup
         (Candidates(s.work) \ (Candidates(t.work) \cup DOMAIN t.results))
    /\ fetched' = [outputs |-> t.outputs, scripts |-> t.scripts]
    /\ slice' = Idle
    /\ UNCHANGED <<generation, members>>

StoreSlice(s, tried, raw) == Store(s, SettleSlice(s), tried, raw)

-----------------------------------------------------------------------------
(* Waves: each ends in the next wait or in the end of the slice.  `tried' is
   the new value of `attempted', `raw' the candidates without a transaction. *)

Wait(s, pc, wave, tried, raw) ==
    /\ slice' = [s EXCEPT !.pc = pc, !.requests = wave.selected,
                          !.work = wave.slice]
    /\ attempted' = tried
    /\ givenUp' = givenUp \cup raw
    /\ fetched' = NoFetch
    /\ UNCHANGED <<generation, members, classified, pending, outputs,
                   confirmed, status, slices>>

\* A systemic failure stops the waves of the slice.
NothingToAsk(s, wave) == s.systemic \/ wave.selected = {}

AskConfirmedWave(s, wave, tried, raw) ==
    \/ ~ NothingToAsk(s, wave) /\ Wait(s, "confirmed", wave, tried, raw)
    \/ NothingToAsk(s, wave) /\ StoreSlice(s, tried, raw)

AskConfirmed(s, tried, raw) ==
    AskConfirmedWave(s, NextConfirmedWave(s.work, members), tried, raw)

AskParentWave(s, wave, tried, raw) ==
    \/ ~ NothingToAsk(s, wave) /\ Wait(s, "parents", wave, tried, raw)
    \/ NothingToAsk(s, wave) /\ AskConfirmed(s, tried, raw)

AskParentsOf(s, tried, raw) ==
    AskParentWave(s, NextParentWave(s.work, members), tried, raw)

AskParents(s, tried, raw) ==
    AskParentsOf(Activate(Classify(HydrateFromCaches(s))), tried, raw)

\* bounded_variants, for a variant and the ones ahead of it.
BoundedVariant(ahead, v) ==
    /\ Cardinality(ahead) < MaxSliceSize
    /\ \/ ahead = {}
       \/ Total([w \in ahead \cup {v} |-> RawBytes[w]]) <= MaxRawBytes

\* Fresh variants go before retryable ones, each in membership order.
NextCandidates ==
    LET fresh == members \ (attempted \cup DOMAIN classified)
        retry == {v \in members \ attempted : Retryable(v)}
        ahead(v) == {w \in fresh \cup retry :
                       \/ w \in fresh /\ v \in retry
                       \/ (w \in fresh <=> v \in fresh) /\ w < v}
    IN  {v \in fresh \cup retry : BoundedVariant(ahead(v), v)}

\* The runtime starts a slice while the last one says so; a generation
\* published while the loop waits for the gate may get one more after its
\* first (module AtlasRuntime).
MayStart == slice.pc = "idle" /\ (status = "continue" \/ slices = 1)

BeginRaw(candidates) ==
    /\ slice' = [Idle EXCEPT !.pc = "raw", !.generation = generation,
                             !.requests = candidates]
    /\ attempted' = attempted \cup candidates
    /\ fetched' = NoFetch
    /\ rawRequests' = [v \in Variants |-> IF v \in candidates THEN rawRequests[v] + 1
                                                              ELSE rawRequests[v]]
    /\ UNCHANGED <<generation, members, classified, retryUsed, pending,
                   outputs, confirmed, status, slices, givenUp>>

ResumePending ==
    /\ AskParents([Idle EXCEPT !.generation = generation, !.work = pending],
                  attempted, {})
    /\ UNCHANGED <<retryUsed, rawRequests>>

BeginSlice ==
    /\ MayStart
    /\ IF pending = EmptySlice /\ NextCandidates # {}
       THEN BeginRaw(NextCandidates)
       ELSE ResumePending

-----------------------------------------------------------------------------
(* Answers.  A request whose batch failed or was never sent has the same    *)
(* effect as a systemic failure, and is one here.  Batches are fetched by   *)
(* several lanes, so their answers are applied in any order.                *)

\* Mutant: a slice does not look whether its generation was superseded.
AlwaysCurrent == TRUE

Current == slice.generation = generation

\* What a request comes to.  A wrong, malformed or missing answer is a retry;
\* only gettxout has a null of its own.
RawAnswer == {"found", "retry", "systemic"}
ConfirmedAnswer == {"found", "null", "retry", "systemic"}

\* Mutant: a failed variant is always fetched again.
RetriedAlways(failed) == failed

\* A variant that failed is made eligible once more.
Retried(failed) == failed \ retryUsed

RawAnswered ==
    /\ slice.pc = "raw" /\ Current
    /\ \E answer \in [slice.requests -> RawAnswer] :
      \E found \in SetToSeqs({v \in DOMAIN answer : answer[v] = "found"}) :
        LET failed == {v \in DOMAIN answer : answer[v] = "retry"}
            dropped == DOMAIN answer \ (ToSet(found) \cup Retried(failed))
            work == IF found = <<>> THEN EmptySlice ELSE NewSlice(found, Txids)
        IN  /\ retryUsed' = retryUsed \cup failed
            /\ AskParents([slice EXCEPT
                             !.work = work,
                             !.outputs = work.raw,
                             !.systemic = \E v \in DOMAIN answer :
                                            answer[v] = "systemic"],
                          attempted \ Retried(failed), dropped)
            /\ UNCHANGED rawRequests

\* The parents of a wave that were not found are asked for as outputs, unless
\* the wave failed systemically.
ParentsAnswered ==
    LET parents == {v \in members : \E o \in slice.requests :
                      TxidOf[v] = ParentOf[o]}
    IN  /\ slice.pc = "parents" /\ Current
        /\ \E answer \in [parents -> RawAnswer] :
            LET found == {v \in parents : answer[v] = "found"}
                txids == {TxidOf[v] : v \in found}
                systemic == \E v \in parents : answer[v] = "systemic"
                missing == IF systemic THEN {}
                           ELSE {TxidOf[v] : v \in parents \ found}
            IN  \E place \in Orders(AwaitedFrom(slice.work, txids) \ NoScript) :
                /\ ByParent(place)
                /\ AskConfirmed([slice EXCEPT
                                   !.work = FallBack(ApplyParents(@, txids, place),
                                                     missing),
                                   !.outputs = @ \cup found,
                                   !.systemic = systemic],
                                attempted, {})
                /\ UNCHANGED <<retryUsed, rawRequests>>

ConfirmedAnswered ==
    /\ slice.pc = "confirmed" /\ Current
    /\ \E answer \in [slice.requests -> ConfirmedAnswer] :
        LET found == {o \in DOMAIN answer : answer[o] = "found"}
        IN  \E place \in Orders(found) :
            /\ StoreSlice([slice EXCEPT
                             !.work = ApplyConfirmed(@, answer, place),
                             !.scripts = found,
                             !.systemic = \E o \in DOMAIN answer :
                                            answer[o] = "systemic"],
                          attempted, {})
            /\ UNCHANGED <<retryUsed, rawRequests>>

\* The generation was superseded while the slice waited: nothing is kept.
Superseded ==
    /\ slice.pc # "idle" /\ ~ Current
    /\ slice' = Idle
    /\ UNCHANGED <<generation, members, workVars, status, slices, rawRequests,
                   givenUp, fetched>>

SliceSteps ==
    BeginSlice \/ RawAnswered \/ ParentsAnswered \/ ConfirmedAnswered
      \/ Superseded

Next == InstallSnapshot \/ SliceSteps

\* Every request has a timeout, and the runtime goes on with a generation as
\* long as its slices say so: weak fairness of SliceSteps.  It is written out
\* because ENABLED of these long steps is slow to evaluate.  A step of a slice
\* is enabled exactly if one may start or is in progress, always changes
\* `slice' or `slices', and is the only step that keeps the generation.
SliceEnabled == MayStart \/ slice.pc # "idle"

SliceFairness ==
    []<>(~ SliceEnabled) \/ []<><<generation' = generation>>_vars

Spec == Init /\ [][Next]_vars /\ SliceFairness

-----------------------------------------------------------------------------
(* Properties *)

\* The slice in hand, or what is kept of the last one.
Held == IF slice.pc = "idle" THEN pending ELSE slice.work

\* No transaction is lost: whatever was taken up is classified, or still
\* pending, or was given up for a reason, and a complete generation has
\* nothing pending.
NothingLost ==
    slice.pc = "idle" =>
        /\ attempted \subseteq DOMAIN classified \cup Candidates(pending)
                                 \cup givenUp
        /\ Candidates(pending) \cap givenUp = {}
        /\ status = "complete" =>
              members \subseteq DOMAIN classified \cup givenUp

\* The limits of a slice hold through every hydration, wave, release and
\* recovery: the retained scripts stay within max_pending_script_bytes, only a
\* window of one candidate ("Always admit at least one candidate") holds more
\* facts than the limit, and "Raw acquisition receives at most two attempts for
\* each witness variant in a generation."
WithinLimits ==
    /\ PendingBytes(Held) <= MaxPendingBytes
    /\ Cardinality(Active(Held)) > 1 => Cardinality(DOMAIN Held.facts) <= MaxUniquePrevouts
    /\ \A v \in Variants : rawRequests[v] <= 2

\* A candidate in the window has a fact for each of its inputs, and no fact
\* is kept for none: the unreachable! of classify_ready is unreachable.
FactsServeCandidates ==
    DOMAIN Held.facts = UNION {Required(v) : v \in Active(Held)}

\* Whatever a superseded slice fetched stays out of the next generation, and
\* another witness variant of the same txid inherits nothing.
OnlyMembersKept ==
    /\ DOMAIN classified \cup outputs \cup attempted \subseteq members
    /\ Candidates(pending) \subseteq members

\* docs/architecture.md: a null is "terminal only in the specific gettxout
\* case where the outpoint is known not to be a current mempool parent".
NullOnlyOutsideMempool ==
    [][ generation' = generation =>
          \A v \in DOMAIN classified' :
            v \notin DOMAIN classified \/ classified'[v] # classified[v] =>
              \A o \in classified'[v] : ParentOf[o] \notin Txids ]_vars

\* "Reclaims enough pending bytes to consume positive facts fetched in this
\* call before those transient maps disappear": no fetched script is lost while
\* it waits for room.  Only one that the cache has kept may still be blocked,
\* or an output that its transaction does not have.
FetchedScriptsAreUsed ==
    \A o \in DOMAIN pending.facts :
        slice.pc = "idle" /\ pending.facts[o].kind = "blocked" =>
          IF pending.facts[o].source = "parent"
          THEN /\ o \notin NoScript
               /\ ParentOf[o] \in {TxidOf[v] : v \in fetched.outputs}
               => ParentOf[o] \in {TxidOf[v] : v \in outputs \cup pending.raw}
          ELSE o \in fetched.scripts => o \in confirmed

\* A slice that ends with more to do has brought the generation forward, so
\* classification of every generation comes to an end.
GenerationSettles ==
    \A g \in 1 .. MaxGeneration :
        generation = g /\ status = "continue"
          ~> generation # g \/ status # "continue"
=============================================================================
