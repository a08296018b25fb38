--------------------------- MODULE AuxiliaryCache ---------------------------
(***************************************************************************)
(* The two caches a ClassificationPipeline keeps under one byte budget     *)
(* (src/src/classification.rs): ConfirmedScriptCache, a weighted LRU that  *)
(* lives as long as the pipeline, and the outputs retained in the current  *)
(* generation's ClassificationWork, which take precedence.  All accesses   *)
(* hold the coordinator lock, so each operation is one step.               *)
(*                                                                         *)
(* An operation is a function on records that stand for the two structs.   *)
(* A BTreeMap is a function on the set of its keys.                        *)
(***************************************************************************)
EXTENDS Naturals, FiniteSets, Sequences, SequencesExt, Totals

CONSTANTS
    Outpoints,      \* naturals: OutPoint's order breaks ties between stamps
    Scripts,
    Txids,          \* naturals: transactions in the order of a membership
    Wtxids,
    ScriptBytes,    \* script -> estimated_script_bytes
    OutputBytes,    \* variant -> estimated_bytes of its CachedOutputs
    MaximumBytes,   \* max_auxiliary_cache_bytes
    MaxStamp        \* largest u64

\* ClassificationLimits::new refuses a zero budget.  The stamps outnumber
\* the entries any budget admits.
ASSUME AuxiliaryCacheAssumption ==
    /\ Outpoints \subseteq Nat /\ IsFiniteSet(Outpoints) /\ Txids \subseteq Nat
    /\ ScriptBytes \in [Scripts -> Nat \ {0}]
    /\ OutputBytes \in [Wtxids -> Nat \ {0}]
    /\ MaximumBytes \in Nat \ {0}
    /\ MaxStamp \in Nat /\ MaxStamp > Cardinality(Outpoints)

VARIABLES
    cache,      \* coordinator.confirmed_cache
    work,       \* outputs and output_cache_bytes of the current generation
    present     \* variants of the current generation's membership

vars == <<cache, work, present>>

-----------------------------------------------------------------------------
(* Data *)

SaturatingSub(a, b) == IF a < b THEN 0 ELSE a - b

\* BTreeMap::insert and BTreeMap::remove
With(f, k, v) == [x \in DOMAIN f \cup {k} |-> IF x = k THEN v ELSE f[x]]

Without(f, k) == [x \in DOMAIN f \ {k} |-> f[x]]

EmptyCache == [entries |-> <<>>, lru |-> {}, bytes |-> 0, next |-> 0]

EmptyWork == [outputs |-> <<>>, bytes |-> 0]

-----------------------------------------------------------------------------
(* ConfirmedScriptCache *)

\* The order of BTreeSet<(u64, OutPoint)>.
Before(p, q) == p[1] < q[1] \/ (p[1] = q[1] /\ p[2] < q[2])

\* An entry leaves the map and the total; its pair in lru is left to the
\* caller.
DropEntry(c, o) ==
    [c EXCEPT !.entries = Without(@, o),
              !.bytes = SaturatingSub(@, c.entries[o].bytes)]

Unlink(c, o) == [c EXCEPT !.lru = @ \ {<<c.entries[o].stamp, o>>}]

\* One turn of the loop in shrink_to.  A pair that no longer describes an
\* entry is passed over.
ShrinkTurn(c, target) ==
    IF c.bytes <= target THEN c
    ELSE IF c.lru = {} THEN [c EXCEPT !.entries = <<>>, !.bytes = 0]
    ELSE LET p == CHOOSE q \in c.lru : \A r \in c.lru \ {q} : Before(q, r)
             popped == [c EXCEPT !.lru = @ \ {p}]
             valid == /\ p[2] \in DOMAIN c.entries
                      /\ c.entries[p[2]].stamp = p[1]
         IN  IF valid THEN DropEntry(popped, p[2]) ELSE popped

\* shrink_to: every turn pops a pair, until the total is small enough or the
\* index is empty.
ShrinkTo(c, target) ==
    LET most == Cardinality(c.lru) + 1
        after[n \in 0..most] ==
            IF n = 0 THEN c ELSE ShrinkTurn(after[n - 1], target)
    IN  after[most]

\* Mutant: the stamps start again and the entries keep theirs.
RenumberForgetsEntries(c) ==
    IF c.next < MaxStamp THEN c ELSE [c EXCEPT !.next = 0]

\* allocate_stamp, when the stamps are used up: the pairs in lru are numbered
\* from zero in their order.
Renumber(c) ==
    IF c.next < MaxStamp THEN c
    ELSE LET linked == {p \in c.lru : p[2] \in DOMAIN c.entries}
             index == [p \in linked |-> Cardinality({q \in c.lru : Before(q, p)})]
             entries ==
               [o \in DOMAIN c.entries |->
                  IF \E p \in linked : p[2] = o
                  THEN [c.entries[o] EXCEPT
                          !.stamp = index[CHOOSE p \in linked : p[2] = o]]
                  ELSE c.entries[o]]
             lru == {<<index[p], p[2]>> : p \in linked}
         IN  [c EXCEPT !.entries = entries, !.lru = lru,
                       !.next = Cardinality(lru)]

\* Mutant: the pair of the previous use stays in lru.
TouchLeavesPair(c, o) ==
    LET r == Renumber(c)
    IN  [r EXCEPT !.entries[o].stamp = r.next,
                  !.lru = @ \cup {<<r.next, o>>},
                  !.next = @ + 1]

\* get, for an outpoint that is cached.
Touch(c, o) ==
    LET r == Renumber(Unlink(c, o))
    IN  [r EXCEPT !.entries[o].stamp = r.next,
                  !.lru = @ \cup {<<r.next, o>>},
                  !.next = @ + 1]

Forget(c, o) ==
    IF o \in DOMAIN c.entries THEN DropEntry(Unlink(c, o), o) ELSE c

\* Mutant: the outputs are not reserved from the budget.
AvailableIgnoresOutputs(reserved) == MaximumBytes

Available(reserved) == SaturatingSub(MaximumBytes, reserved)

\* insert: a conflicting script evicts the entry and is refused, one that can
\* never fit is refused, any other makes room first.
InsertScript(c, o, s, reserved) ==
    LET conflict == o \in DOMAIN c.entries /\ c.entries[o].script # s
        room == SaturatingSub(Available(reserved), ScriptBytes[s])
        r == Renumber(ShrinkTo(Forget(c, o), room))
    IN  IF conflict THEN Forget(c, o)
        ELSE IF ScriptBytes[s] > Available(reserved) THEN c
        ELSE [entries |-> With(r.entries, o, [script |-> s,
                                              bytes |-> ScriptBytes[s],
                                              stamp |-> r.next]),
              lru |-> r.lru \cup {<<r.next, o>>},
              bytes |-> r.bytes + ScriptBytes[s],
              next |-> r.next + 1]

-----------------------------------------------------------------------------
(* Retained outputs *)

\* insert_outputs, on the pair of both caches.
InsertOutputs(both, t, w) ==
    LET old == IF t \in DOMAIN both.work.outputs
               THEN OutputBytes[both.work.outputs[t]]
               ELSE 0
        total == SaturatingSub(both.work.bytes, old) + OutputBytes[w]
    IN  IF total > MaximumBytes THEN both
        ELSE [cache |-> ShrinkTo(both.cache, Available(total)),
              work  |-> [outputs |-> With(both.work.outputs, t, w),
                         bytes |-> total]]

\* Mutant: outputs are carried by txid alone.
CarriedByTxid(members) == DOMAIN members \cap DOMAIN work.outputs

\* The entries of the new membership whose outputs are already retained, for
\* the same witness variant.
Carried(members) ==
    {t \in DOMAIN members \cap DOMAIN work.outputs :
        work.outputs[t] = members[t]}

Ascending(S) ==
    CHOOSE s \in SetToSeqs(S) : \A i, j \in DOMAIN s : i < j => s[i] < s[j]

\* install_snapshot carries them over one by one, in membership order.
CarryOutputs(members) ==
    LET order == Ascending(Carried(members))
        after[n \in 0..Len(order)] ==
            IF n = 0 THEN [cache |-> cache, work |-> EmptyWork]
            ELSE InsertOutputs(after[n - 1], order[n], work.outputs[order[n]])
    IN  after[Len(order)]

-----------------------------------------------------------------------------
(* Operations, all under the coordinator lock *)

Init ==
    /\ cache = EmptyCache
    /\ work = EmptyWork
    /\ present = <<>>

\* hydrate_from_caches looks a waiting fact up.
Get(o) ==
    /\ o \in DOMAIN cache.entries
    /\ cache' = Touch(cache, o)
    /\ UNCHANGED <<work, present>>

\* The end of a slice stores a confirmed script ...
Insert(o, s) ==
    /\ cache' = InsertScript(cache, o, s, work.bytes)
    /\ UNCHANGED <<work, present>>

\* ... or the outputs of a transaction of the current membership.
StoreOutputs(t) ==
    LET both == InsertOutputs([cache |-> cache, work |-> work], t, present[t])
    IN  /\ cache' = both.cache
        /\ work' = both.work
        /\ UNCHANGED present

InstallSnapshot(members) ==
    LET both == CarryOutputs(members)
    IN  /\ cache' = both.cache
        /\ work' = both.work
        /\ present' = members

Memberships == UNION {[S -> Wtxids] : S \in SUBSET Txids}

Next ==
    \/ \E o \in Outpoints : Get(o)
    \/ \E o \in Outpoints, s \in Scripts : Insert(o, s)
    \/ \E t \in DOMAIN present : StoreOutputs(t)
    \/ \E members \in Memberships : InstallSnapshot(members)

Spec == Init /\ [][Next]_vars

-----------------------------------------------------------------------------
(* Properties *)

\* "both auxiliary cache kinds share one configured bound": what the entries
\* and the retained outputs really weigh never exceeds it, whatever the
\* running totals say.
SharedBudget ==
    Total([o \in DOMAIN cache.entries |-> ScriptBytes[cache.entries[o].script]])
    + Total([t \in DOMAIN work.outputs |-> OutputBytes[work.outputs[t]]])
    <= MaximumBytes

\* Retained outputs belong to the witness variant of the current membership,
\* through any number of replacements of a transaction by another variant.
OutputsAreCurrent ==
    \A t \in DOMAIN work.outputs :
        t \in DOMAIN present /\ work.outputs[t] = present[t]

\* The order of use that the index stands for.
LruOrder ==
    {op \in Outpoints \X Outpoints :
        \E p, q \in cache.lru : p[2] = op[1] /\ q[2] = op[2] /\ Before(p, q)}

Recency == INSTANCE RecencyCache WITH
    script  <- [o \in DOMAIN cache.entries |-> cache.entries[o].script],
    older   <- LruOrder,
    outputs <- work.outputs

\* Eviction is in true order of use and takes no more than the budget needs:
\* stamps, their renumbering and the running totals implement a cache that
\* has none of them.
ImplementsRecencyCache == Recency!Spec
=============================================================================
