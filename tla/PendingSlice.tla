---------------------------- MODULE PendingSlice ----------------------------
(***************************************************************************)
(* PendingSlice of src/src/classification.rs: candidates whose raw         *)
(* transaction is known, the previous-output scripts ("facts") they still  *)
(* need, and the bounded waves that fetch them.  Everything here is        *)
(* synchronous code on one struct, so it is a function on a record.        *)
(*                                                                         *)
(* An outpoint determines its script, so a script is represented by its    *)
(* outpoint and size.  `active' and `fair_order' hold the same candidates  *)
(* and are one function here, from a candidate to its turn, and            *)
(* pending_script_bytes is computed from the facts, as                     *)
(* recount_script_bytes does.                                              *)
(***************************************************************************)
EXTENDS Naturals, FiniteSets, Sequences, SequencesExt, Totals

CONSTANTS
    Variants,               \* witness variants (wtxids), ordered by their txid
    TxidOf,                 \* variant -> txid
    Outpoints,              \* ordered, as BTreeMap keys are
    ParentOf,               \* outpoint -> txid
    Inputs,                 \* variant -> its distinct outpoints, in order
    NoScript,               \* outpoints whose parent has no such output
    ScriptBytes,            \* outpoint -> estimated_script_bytes
    RawBytes,               \* variant -> estimated_raw_response_bytes
    MaxRawBytes,            \* MAX_RAW_RESPONSE_BYTES_PER_SLICE
    GetTxOutBytes,          \* ESTIMATED_GETTXOUT_RESPONSE_BYTES
    MaxPendingBytes,        \* max_pending_script_bytes
    MaxUniquePrevouts,      \* max_unique_prevouts_per_window
    MaxParentsPerWave,      \* max_parent_transactions_per_wave
    MaxConfirmedPerWave     \* max_confirmed_prevouts_per_wave

ASSUME PendingSliceAssumption ==
    /\ Variants \subseteq Nat /\ Outpoints \subseteq Nat
    /\ NoScript \subseteq Outpoints
    /\ Inputs \in [Variants -> Seq(Outpoints)]
    /\ ScriptBytes \in [Outpoints -> Nat \ {0}]
    /\ RawBytes \in [Variants -> Nat]
    /\ {MaxRawBytes, MaxUniquePrevouts} \subseteq Nat
    /\ {GetTxOutBytes, MaxPendingBytes, MaxParentsPerWave,
        MaxConfirmedPerWave} \subseteq Nat \ {0}

\* MAX_FACT_ATTEMPTS_PER_SOURCE_PER_WINDOW
MaxFactAttempts == 2

-----------------------------------------------------------------------------
(* Data *)

Required(v) == ToSet(Inputs[v])

Merge(f, g) == [x \in DOMAIN f \cup DOMAIN g |->
                  IF x \in DOMAIN g THEN g[x] ELSE f[x]]

\* FactState: only a waiting fact has a source, and only one that is awaited
\* counts its attempts.
Ready == [kind |-> "ready"]
Missing == [kind |-> "missing"]
Deferred == [kind |-> "deferred"]
Blocked(source) == [kind |-> "blocked", source |-> source]
Awaiting(source, n) == [kind |-> "awaiting", source |-> source, attempts |-> n]

EmptySlice ==
    [queued   |-> <<>>,  \* candidates not yet in the window
     turn     |-> <<>>,  \* active candidate -> its place in fair_order
     cursor   |-> <<>>,  \* active candidate -> its fact_cursor
     facts    |-> <<>>,  \* outpoint -> its state
     deferred |-> {},    \* deferred_facts
     raw      |-> {}]    \* variants in raw_outputs

Active(p) == DOMAIN p.turn

Candidates(p) == Active(p) \cup ToSet(p.queued)

\* The candidates S in their fair order, and the first of them.
FairOrder(p, S) == [v \in S |-> Cardinality({w \in S : p.turn[w] <= p.turn[v]})]
FirstOf(p, S) == CHOOSE v \in S : \A w \in S : p.turn[v] <= p.turn[w]

Bytes(S) == Total([o \in S |-> ScriptBytes[o]])

ReadyFacts(p) == {o \in DOMAIN p.facts : p.facts[o].kind = "ready"}

PendingBytes(p) == Bytes(ReadyFacts(p))

\* has_pending_script_capacity
HasCapacity(p) == PendingBytes(p) < MaxPendingBytes

\* Mutant: the facts stay.
DiscardCandidates(p, gone) ==
    [p EXCEPT !.turn = FairOrder(p, Active(p) \ gone),
              !.cursor = [v \in Active(p) \ gone |-> p.cursor[v]]]

\* Candidates leave the window; facts nobody needs any more go with them.
Discard(p, gone) ==
    LET kept == Active(p) \ gone
        referenced == UNION {Required(v) : v \in kept}
    IN  [p EXCEPT !.turn = FairOrder(p, kept),
                  !.cursor = [v \in kept |-> p.cursor[v]],
                  !.facts = [o \in DOMAIN p.facts \cap referenced |-> p.facts[o]]]

-----------------------------------------------------------------------------
(* The window *)

\* What the first n queued candidates need.
Needed(p, n) == UNION {Required(p.queued[i]) : i \in 1 .. n}

\* Mutant: the window is not limited.
WindowNeverFull(p, n) == FALSE

\* The window has no room for the first n queued candidates: it is only
\* exceeded by a candidate that has it to itself.
WindowFull(p, n) ==
    /\ Active(p) # {} \/ n > 1
    /\ Cardinality(DOMAIN p.facts \cup Needed(p, n)) > MaxUniquePrevouts

\* activate_waiting, with the txids of the current membership: queued
\* candidates enter in their order until the window is full.
ActivateWaiting(p, txids) ==
    LET n == Max({k \in 0 .. Len(p.queued) : \A i \in 1 .. k : ~ WindowFull(p, i)})
        entering == {p.queued[i] : i \in 1 .. n}
        initial(o) ==
          IF o \in p.deferred THEN Deferred
          ELSE Awaiting(IF ParentOf[o] \in txids THEN "parent" ELSE "confirmed", 0)
    IN  [p EXCEPT !.queued = SubSeq(@, n + 1, Len(@)),
                  !.turn = [v \in Active(p) \cup entering |->
                              IF v \in Active(p) THEN p.turn[v]
                              ELSE Cardinality(Active(p))
                                     + CHOOSE i \in 1 .. n : p.queued[i] = v],
                  !.cursor = [v \in Active(p) \cup entering |->
                                IF v \in Active(p) THEN p.cursor[v] ELSE 0],
                  !.facts = [o \in DOMAIN p.facts \cup Needed(p, n) |->
                               IF o \in DOMAIN p.facts THEN p.facts[o]
                                                       ELSE initial(o)]]

\* PendingSlice::new
NewSlice(transactions, txids) ==
    ActivateWaiting([EmptySlice EXCEPT !.queued = transactions,
                                       !.raw = ToSet(transactions)],
                    txids)

-----------------------------------------------------------------------------
(* Facts *)

\* Mutant: the working set is not limited.
FitsAlways(stored, o) == TRUE

\* store_script
Fits(stored, o) == Bytes(stored) + ScriptBytes[o] <= MaxPendingBytes

\* Known scripts are stored one after the other, as `place' says, as long as
\* they fit: those that did.
Stored(p, place) ==
    CHOOSE T \in SUBSET DOMAIN place :
        \A o \in DOMAIN place :
            o \in T <=> Fits(ReadyFacts(p) \cup {x \in T : place[x] < place[o]}, o)

\* Of the facts whose scripts are known the ones that fit become ready and
\* the others blocked.
StoreOrBlock(p, place) ==
    LET stored == Stored(p, place)
    IN  [p EXCEPT !.facts = [o \in DOMAIN @ |->
            IF o \in stored THEN Ready
            ELSE IF o \in DOMAIN place THEN Blocked(@[o].source)
            ELSE @[o]]]

Waiting(p) ==
    {o \in DOMAIN p.facts : p.facts[o].kind \in {"awaiting", "blocked"}}

\* The waiting facts that the outputs of `parents' or the confirmed scripts
\* answer.
Known(p, parents, confirmed) ==
    LET txids == {TxidOf[v] : v \in parents}
    IN  {o \in Waiting(p) : IF p.facts[o].source = "parent"
                            THEN ParentOf[o] \in txids /\ o \notin NoScript
                            ELSE o \in confirmed}

\* hydrate_from_caches and hydrate_from_transient, in key order.
Hydrate(p, parents, confirmed) ==
    StoreOrBlock(p, [o \in Known(p, parents, confirmed) |-> o])

\* classify_ready: a result is the set of inputs that are known to have no
\* script, which makes it retryable.
ClassifyReady(p) ==
    LET ready == {v \in Active(p) : \A o \in Required(v) :
                    p.facts[o].kind \in {"ready", "missing"}}
    IN  [slice |-> Discard(p, ready),
         results |-> [v \in ready |->
                        {o \in Required(v) : p.facts[o].kind = "missing"}]]

-----------------------------------------------------------------------------
(* Waves *)

\* record_parent_attempt counts for every fact of that parent,
\* record_fact_attempt for one.
RecordAttempt(p, wave, o) ==
    LET counted == IF wave = "parents"
                   THEN {x \in DOMAIN p.facts :
                           /\ ParentOf[x] = ParentOf[o]
                           /\ p.facts[x].kind = "awaiting"
                           /\ p.facts[x].source = "parent"}
                   ELSE {o}
    IN  [p EXCEPT !.facts = [x \in DOMAIN @ |->
            IF x \in counted
            THEN Awaiting(@[x].source, @[x].attempts + 1)
            ELSE @[x]]]

Selectable(p, wave, selected, o) ==
    /\ p.facts[o].kind = "awaiting"
    /\ p.facts[o].attempts < MaxFactAttempts
    /\ IF wave = "parents"
       THEN /\ p.facts[o].source = "parent"
            /\ \A x \in selected : ParentOf[x] # ParentOf[o]
       ELSE /\ p.facts[o].source # "parent"
            /\ o \notin selected

\* estimated_raw_response_bytes of the parents selected so far
ParentBytes(selected, members) ==
    Total([v \in {v \in members : \E o \in selected : TxidOf[v] = ParentOf[o]} |->
             RawBytes[v]])

\* A wave under construction: `left' candidates have yet to take their turn in
\* the current round, in which something was `added' or not.
NewWave(p) == [slice |-> p, selected |-> {}, left |-> Cardinality(Active(p)),
               added |-> FALSE]

\* Until a whole round adds nothing or the wave is full.
WaveEnded(w, maximum) ==
    (w.left = 0 /\ ~ w.added) \/ Cardinality(w.selected) >= maximum

\* The next candidate in fair order takes its turn, from its own cursor on.
TakeTurn(w, wave, members) ==
    LET p == w.slice
        v == FirstOf(p, Active(p))
        round == Cardinality(Active(p))
        left == IF w.left = 0 THEN round ELSE w.left
        added == w.left # 0 /\ w.added
        rotated == [p EXCEPT !.turn =
                      Merge([u \in {v} |-> round], FairOrder(p, Active(p) \ {v}))]
        n == Len(Inputs[v])
        at(k) == Inputs[v][((p.cursor[v] + k) % n) + 1]
        offsets == {k \in 0 .. n - 1 : Selectable(p, wave, w.selected, at(k))}
        k == Min(offsets)
        moved == [rotated EXCEPT !.cursor[v] = (@ + k + 1) % n]
        more == w.selected \cup {at(k)}
        tooLarge == /\ wave = "parents" /\ w.selected # {}
                    /\ ParentBytes(more, members) > MaxRawBytes
    IN  IF offsets = {}
        THEN [w EXCEPT !.slice = rotated, !.left = left - 1, !.added = added]
        ELSE IF tooLarge
        THEN [w EXCEPT !.slice = moved, !.left = left - 1, !.added = added]
        ELSE [slice |-> RecordAttempt(moved, wave, at(k)), selected |-> more,
              left |-> left - 1, added |-> TRUE]

\* The loop of next_parent_wave and next_confirmed_wave.  Every round but the
\* last adds something.
SelectWave(p, wave, members, maximum) ==
    LET most == Cardinality(Active(p)) * (maximum + 1)
        after[n \in 0 .. most] ==
            IF n = 0 THEN NewWave(p)
            ELSE LET w == after[n - 1]
                 IN  IF WaveEnded(w, maximum) THEN w ELSE TakeTurn(w, wave, members)
    IN  after[most]

NextParentWave(p, members) ==
    IF HasCapacity(p) THEN SelectWave(p, "parents", members, MaxParentsPerWave)
    ELSE NewWave(p)

\* The wave asks for no more scripts than could be kept, but for one at least.
NextConfirmedWave(p, members) ==
    LET room == (MaxPendingBytes - PendingBytes(p)) \div GetTxOutBytes
        maximum == Max({1, Min({MaxConfirmedPerWave, room})})
    IN  IF HasCapacity(p) THEN SelectWave(p, "confirmed", members, maximum)
        ELSE NewWave(p)

-----------------------------------------------------------------------------
(* Answers *)

\* Mutant: a fact that keeps failing is never given up.
DeferNever(p, S) == p

\* defer_if_attempts_exhausted, for each of the facts S.
DeferIfExhausted(p, S) ==
    LET exhausted == {o \in S : /\ p.facts[o].kind = "awaiting"
                                /\ p.facts[o].attempts >= MaxFactAttempts}
    IN  [p EXCEPT !.facts = [o \in DOMAIN @ |->
                               IF o \in exhausted THEN Deferred ELSE @[o]],
                  !.deferred = @ \cup exhausted]

AwaitedFrom(p, txids) ==
    {o \in DOMAIN p.facts : /\ ParentOf[o] \in txids
                            /\ p.facts[o].kind = "awaiting"
                            /\ p.facts[o].source = "parent"}

\* The orders in which answers can be applied to the facts S.
Orders(S) == {f \in [S -> 1 .. Cardinality(S)] : \A x, y \in S : f[x] = f[y] => x = y}

\* The facts of a parent are adjacent, in key order.
ByParent(place) ==
    \A x, y \in DOMAIN place :
        ParentOf[x] = ParentOf[y] /\ x < y =>
          /\ place[x] < place[y]
          /\ \A z \in DOMAIN place : place[z] \in place[x] .. place[y] =>
                                     ParentOf[z] = ParentOf[x]

\* apply_parent_transaction, for each of the transactions that were found.
ApplyParents(p, txids, place) ==
    DeferIfExhausted(StoreOrBlock(p, place), AwaitedFrom(p, txids) \cap NoScript)

\* fall_back_parent_to_gettxout: the parents may just have been confirmed.
FallBack(p, txids) ==
    [p EXCEPT !.facts = [o \in DOMAIN @ |->
        IF o \in AwaitedFrom(p, txids) THEN Awaiting("fallback", 0) ELSE @[o]]]

\* Mutant: a null answer is terminal for every fact.
NullAlwaysTerminal(p, S) ==
    [p EXCEPT !.facts = [o \in DOMAIN @ |-> IF o \in S THEN Missing ELSE @[o]]]

\* A null is terminal only for an output that is not of a mempool parent.
\* The facts of a wave are awaited, and not from a parent.
ApplyNull(p, S) ==
    LET fallback == {o \in S : p.facts[o].source = "fallback"}
        q == DeferIfExhausted(p, fallback)
    IN  [q EXCEPT !.facts = [o \in DOMAIN @ |->
                               IF o \in S \ fallback THEN Missing ELSE @[o]]]

\* apply_confirmed_value, for the outpoints of a wave.
ApplyConfirmed(p, answer, place) ==
    LET answered(value) == {o \in DOMAIN answer : answer[o] = value}
    IN  ApplyNull(DeferIfExhausted(StoreOrBlock(p, place), answered("retry")),
                  answered("null"))

-----------------------------------------------------------------------------
(* Deferral *)

\* defer_one_capacity_blocked_fact: with no room left, the first awaited fact
\* in fair order counts as blocked.
BlockOneFact(p) ==
    LET awaited(v) == {i \in DOMAIN Inputs[v] :
                         p.facts[Inputs[v][i]].kind = "awaiting"}
        waiting == {v \in Active(p) : awaited(v) # {}}
    IN  IF HasCapacity(p) \/ waiting = {} THEN p
        ELSE LET v == FirstOf(p, waiting)
             IN  [p EXCEPT !.facts[Inputs[v][Min(awaited(v))]] =
                               Blocked(@.source)]

\* defer_exhausted_candidates
Exhausted(p) ==
    {v \in Active(p) : \E o \in Required(v) : p.facts[o].kind = "deferred"}

HasBlockedFact(p, v) == \E o \in Required(v) : p.facts[o].kind = "blocked"

\* Bytes that would become free: scripts no other candidate needs.
FreedBytes(p, v) ==
    Bytes({o \in Required(v) :
             /\ p.facts[o].kind = "ready"
             /\ \A w \in Active(p) \ {v} : o \notin Required(w)})

\* defer_capacity_blocked_candidate: of the candidates with a blocked fact
\* the one that frees most, the first of them in fair order.
CapacityVictim(p) ==
    LET blocked == {v \in Active(p) : HasBlockedFact(p, v)}
        best == {v \in blocked : \A w \in blocked :
                   FreedBytes(p, w) <= FreedBytes(p, v)}
    IN  IF blocked = {} THEN {} ELSE {FirstOf(p, best)}

\* has_transient_capacity_blocked_fact
TransientBlocked(p, outputs, confirmed) ==
    \E o \in DOMAIN p.facts :
        /\ p.facts[o].kind = "blocked"
        /\ IF p.facts[o].source = "parent"
           THEN /\ o \notin NoScript
                /\ ParentOf[o] \notin {TxidOf[v] : v \in p.raw}
                /\ ParentOf[o] \in {TxidOf[v] : v \in outputs}
           ELSE o \in confirmed
=============================================================================
