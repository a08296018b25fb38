------------------------ MODULE MembershipCollection ------------------------
(***************************************************************************)
(* RpcClient of src/src/rpc.rs: one mempool of one node is collected by    *)
(* four requests on a blocking thread (the chain tip, the reported size,   *)
(* the verbose mempool, the chain tip again) while the node goes on        *)
(* accepting, dropping and confirming transactions, and the wall clock may *)
(* be set.  The runtime collects its sources one after the other.          *)
(*                                                                         *)
(* A transaction is a number, ordered as txids are.  The node's tip is a   *)
(* height and a hash; a hash is never seen twice, so a node that returns   *)
(* to a tip it had left is not in this model (docs/architecture.md says    *)
(* that matching reads do not exclude it).                                 *)
(***************************************************************************)
EXTENDS Naturals, FiniteSets, SequencesExt

CONSTANTS
    Sources,
    Threads,            \* blocking threads
    Txs,                \* transactions the node may hold
    MaxEntries,         \* source -> max_mempool_entries
    MaxSupported,       \* MAX_SUPPORTED_MEMPOOL_ENTRIES
    MaxBlocks,          \* bound: tip changes
    MaxTxSteps,         \* bound: transactions accepted or dropped
    MaxClockSteps,      \* bound: movements of the clock
    MaxCollections      \* bound: collections begun

\* validate_configured_limit refuses any other limit at start-up.
ASSUME MembershipCollectionAssumption ==
    /\ Txs \subseteq Nat \ {0} /\ IsFiniteSet(Txs)
    /\ MaxEntries \in [Sources -> 1..MaxSupported]
    /\ {MaxSupported, MaxBlocks, MaxTxSteps, MaxClockSteps,
        MaxCollections} \subseteq Nat

VARIABLES
    tip, pool,          \* the node: its tip and its mempool
    clock,              \* system_now_ms
    nextId,             \* MembershipRpcClient::next_id
    limit,              \* RAW_MEMPOOL_ENTRY_LIMIT, one for each thread
    col,                \* the collection under way
    result,             \* what the last collection returned, until the next
    replay,             \* answers an intermediary may repeat: the last one of
                        \* each method
    budget              \* steps of the environment taken, by kind

nodeVars == <<tip, pool, clock, budget>>
vars == <<nodeVars, nextId, limit, col, result, replay>>

NoTip == [height |-> 0, hash |-> 0]
NoAnswer == [id |-> 0, tip |-> NoTip, pool |-> {}]
NoResult == [kind |-> "none"]
NoEntries == [entries |-> <<>>, observed |-> 0, error |-> "none"]

\* `wire' is what the decoder made of the document (RawMempoolWire).  The rest is
\* history: the node's tip when the collection began, its tip and its mempool when
\* that was read, and how many entries were listed then.
Idle == [pc |-> "idle", source |-> 0, thread |-> 0, started |-> 0,
         tip |-> NoTip, wire |-> NoEntries,
         began |-> NoTip, read |-> NoTip, document |-> {}, listed |-> 0]

Init ==
    /\ tip = [height |-> 1, hash |-> 1] /\ pool = {}
    /\ clock = 1 /\ nextId = 1
    /\ limit = [t \in Threads |-> MaxSupported]
    /\ col = Idle /\ result = NoResult
    /\ replay = [m \in {"chain", "raw"} |-> NoAnswer]
    /\ budget = [blocks |-> 0, txs |-> 0, clock |-> 0, collections |-> 0]

-----------------------------------------------------------------------------
(* The node and the clock (external) *)

Spend(kind) == budget' = [budget EXCEPT ![kind] = @ + 1]

\* A block confirms some of the mempool; a competing block of the same height
\* takes the tip and may return transactions to the mempool.
NewTip ==
    /\ budget.blocks < MaxBlocks
    /\ Spend("blocks")
    /\ \E h \in {tip.height, tip.height + 1} :
        tip' = [height |-> h, hash |-> tip.hash + 1]
    /\ pool' \in SUBSET Txs
    /\ UNCHANGED <<clock, nextId, limit, col, result, replay>>

ChangePool ==
    /\ budget.txs < MaxTxSteps
    /\ Spend("txs")
    /\ \E x \in Txs : pool' = IF x \in pool THEN pool \ {x} ELSE pool \cup {x}
    /\ UNCHANGED <<tip, clock, nextId, limit, col, result, replay>>

\* Time passes or the clock is set back; a clock before 1970 is 0.
MoveClock ==
    /\ budget.clock < MaxClockSteps
    /\ Spend("clock")
    /\ clock' \in {clock + 1, clock - 1} \cap Nat
    /\ UNCHANGED <<tip, pool, nextId, limit, col, result, replay>>

-----------------------------------------------------------------------------
(* One request *)

\* Mutant: the id of the answer is not compared.
AcceptsAny(answer, id) == TRUE

\* MembershipRpcClient::call takes only the answer to its own request.
Matches(answer, id) == answer.id = id

\* What the endpoint may send to a request of the method: the state of the node
\* now, or what was answered before.
Answers(method) == {[id |-> nextId, tip |-> tip, pool |-> pool], replay[method]}

\* The collection ends with an error.  The guard restores the thread's limit.
Fail(kind) ==
    /\ result' = [kind |-> kind, source |-> col.source]
    /\ limit' = [limit EXCEPT ![col.thread] = MaxSupported]
    /\ col' = Idle

Sent == nextId' = nextId + 1

\* A request fails: no connection, a bad status, a body that is too large or
\* cut short, another envelope, an RPC error, no result or one of another
\* shape.
CallFails ==
    /\ col.pc # "idle"
    /\ col.pc # "entries"
    /\ Sent
    /\ Fail("unavailable")
    /\ UNCHANGED <<nodeVars, replay>>

\* The blocking task itself is lost.
TaskLost ==
    /\ col.pc # "idle"
    /\ Fail("worker")
    /\ UNCHANGED <<nodeVars, nextId, replay>>

-----------------------------------------------------------------------------
(* The collection *)

Begin ==
    /\ col.pc = "idle" /\ budget.collections < MaxCollections
    /\ Spend("collections")
    /\ \E s \in Sources, t \in Threads :
        IF clock = 0
        THEN result' = [kind |-> "clock", source |-> s] /\ UNCHANGED col
        ELSE /\ col' = [Idle EXCEPT !.pc = "start_tip", !.source = s, !.thread = t,
                                    !.started = clock, !.began = tip]
             /\ result' = NoResult
    /\ UNCHANGED <<tip, pool, clock, nextId, limit, replay>>

\* getblockchaininfo, whose answer may hold a height or a hash that is refused.
ReadStartTip ==
    /\ col.pc = "start_tip"
    /\ Sent
    /\ \E a \in Answers("chain") :
        /\ Matches(a, nextId)
        /\ replay' = [replay EXCEPT !["chain"] = a]
        /\ \/ /\ col' = [col EXCEPT !.pc = "size", !.tip = a.tip]
              /\ UNCHANGED <<limit, result>>
           \/ Fail("invalid")
    /\ UNCHANGED nodeVars

\* getmempoolinfo: validate_reported_mempool_size.
ReadSize ==
    /\ col.pc = "size"
    /\ Sent
    /\ \/ IF Cardinality(pool) > MaxEntries[col.source]
          THEN Fail("limit")
          ELSE col' = [col EXCEPT !.pc = "raw"] /\ UNCHANGED <<limit, result>>
       \/ Fail("invalid")      \* a negative size
    /\ UNCHANGED <<nodeVars, replay>>

\* The entries of a mempool as the node may write them: in any order, each with
\* facts that are valid or not and a wtxid of its own or one that is reused, and
\* possibly one of them twice.
Entry(x, wtxid, valid) == [txid |-> x, wtxid |-> wtxid, valid |-> valid]

Document(s, wtxid, valid, again) ==
    LET plain == [i \in DOMAIN s |-> Entry(s[i], wtxid[s[i]], valid[s[i]])]
    IN  IF again /\ plain # <<>> THEN Append(plain, plain[1]) ELSE plain

WtxidsOf(xs) == {[x \in xs |-> x], [x \in xs |-> 0]}

\* Mutant: an entry that does not decode is left out.
VisitSkipping(most, state, e) ==
    IF state.error # "none" THEN state
    ELSE IF state.observed + 1 > most
    THEN [state EXCEPT !.observed = @ + 1, !.error = "limit"]
    ELSE IF ~ e.valid THEN [state EXCEPT !.observed = @ + 1]
    ELSE [state EXCEPT !.observed = @ + 1, !.entries = Append(@, e)]

\* visit_map on one key and value: the first error stays, and what follows it
\* is not decoded.
Visit(most, state, e) ==
    IF state.error # "none" THEN state
    ELSE IF state.observed + 1 > most
    THEN [state EXCEPT !.observed = @ + 1, !.error = "limit"]
    ELSE IF ~ e.valid THEN [state EXCEPT !.observed = @ + 1, !.error = "invalid"]
    ELSE [state EXCEPT !.observed = @ + 1, !.entries = Append(@, e)]

Decoded(document, most) ==
    LET state[n \in 0..Len(document)] ==
            IF n = 0 THEN NoEntries ELSE Visit(most, state[n - 1], document[n])
    IN  state[Len(document)]

\* into_entries, once nothing failed before: the limit, then no txid and no
\* wtxid twice.
EntriesError(entries, most) ==
    IF Len(entries) > most THEN "limit"
    ELSE IF \E i, j \in DOMAIN entries :
              i # j /\ (\/ entries[i].txid = entries[j].txid
                        \/ entries[i].wtxid = entries[j].wtxid)
         THEN "invalid" ELSE "none"

Ascending(s) == \A i, j \in DOMAIN s : i < j => s[i].txid < s[j].txid

Sorted(entries) == CHOOSE s \in SetToSeqs(ToSet(entries)) : Ascending(s)

\* Mutant: `let _ =' drops the guard at once.
GuardDropped(source) == MaxSupported

\* DecodeEntryLimitGuard::set, in force on the thread until the task ends.
Guard(source) == MaxEntries[source]

\* getrawmempool; its document is decoded under the limit of the thread.
ReadMempool ==
    /\ col.pc = "raw"
    /\ Sent
    /\ limit' = [limit EXCEPT ![col.thread] = Guard(col.source)]
    /\ \E a \in Answers("raw") :
        /\ Matches(a, nextId)
        /\ replay' = [replay EXCEPT !["raw"] = a]
        /\ \E s \in SetToSeqs(a.pool), wtxid \in WtxidsOf(a.pool),
              valid \in [a.pool -> BOOLEAN], again \in BOOLEAN :
            LET document == Document(s, wtxid, valid, again)
            IN  col' = [col EXCEPT !.pc = "entries", !.read = a.tip,
                                   !.document = a.pool, !.listed = Len(document),
                                   !.wire = Decoded(document, limit'[col.thread])]
    /\ UNCHANGED <<nodeVars, result>>

\* into_entries.
TakeEntries ==
    /\ col.pc = "entries"
    /\ LET most == MaxEntries[col.source]
           error == IF col.wire.error # "none" THEN col.wire.error
                    ELSE EntriesError(col.wire.entries, most)
       IN  IF error # "none" THEN Fail(error)
           ELSE /\ col' = [col EXCEPT !.pc = "end_tip",
                                      !.wire.entries = Sorted(@)]
                /\ UNCHANGED <<limit, result>>
    /\ UNCHANGED <<nodeVars, nextId, replay>>

\* Mutant: only the heights are compared.
SameHeight(start, end) == start.height = end.height

SameTip(start, end) == start = end

\* Mutant: a window without duration is refused.
WindowNotEmpty(started, completed) == completed > started

\* new_with_collection_window refuses a window that ends before it starts;
\* saturating_sub has made its duration 0.
WindowValid(started, completed) == completed >= started

\* The second getblockchaininfo, the clock, and the snapshot.
ReadEndTip ==
    /\ col.pc = "end_tip"
    /\ Sent
    /\ \E a \in Answers("chain") :
        /\ Matches(a, nextId)
        /\ replay' = [replay EXCEPT !["chain"] = a]
        /\ IF clock = 0 THEN Fail("clock")
           ELSE \/ Fail("invalid")      \* a height or hash that is refused
              \/ /\ ~ SameTip(col.tip, a.tip)
                 /\ Fail("unstable")
              \/ /\ SameTip(col.tip, a.tip) /\ ~ WindowValid(col.started, clock)
                 /\ Fail("window")
              \/ /\ SameTip(col.tip, a.tip) /\ WindowValid(col.started, clock)
                 /\ result' = [kind |-> "snapshot", source |-> col.source,
                               tip |-> a.tip, started |-> col.started,
                               completed |-> clock, entries |-> col.wire.entries,
                               read |-> col.read, document |-> col.document]
                 /\ limit' = [limit EXCEPT ![col.thread] = MaxSupported]
                 /\ col' = Idle
    /\ UNCHANGED nodeVars

Advance ==
    ReadStartTip \/ ReadSize \/ ReadMempool \/ TakeEntries \/ ReadEndTip \/ CallFails

Done == col.pc = "idle" /\ budget.collections = MaxCollections /\ UNCHANGED vars

Next == Begin \/ Advance \/ TaskLost \/ NewTip \/ ChangePool \/ MoveClock \/ Done

Spec == Init /\ [][Next]_vars

-----------------------------------------------------------------------------
(* Properties *)

Snapshot == result.kind = "snapshot"

\* The mempool of an accepted snapshot was read while the node had the tip the
\* snapshot is bound to, however the node, competing blocks and repeated answers
\* interleave with the four requests.  It is the whole mempool that was read, in
\* the order of txids, with no txid and no wtxid twice, and within the source's
\* limit; otherwise there is none.
SnapshotIsMempoolOfTip ==
    Snapshot =>
        /\ result.read = result.tip
        /\ {result.entries[i].txid : i \in DOMAIN result.entries} = result.document
        /\ \A i, j \in DOMAIN result.entries : i < j =>
              /\ result.entries[i].txid < result.entries[j].txid
              /\ result.entries[i].wtxid # result.entries[j].wtxid
        /\ Len(result.entries) <= MaxEntries[result.source]

\* The decoder never keeps more entries than the source allows, although the
\* mempool may grow after its size was checked and the limit reaches the decoder
\* through the thread; a thread that is given back has no limit left on it.
DecoderWithinLimit ==
    /\ col.pc # "idle" => Len(col.wire.entries) <= MaxEntries[col.source]
    /\ \A t \in Threads : limit[t] # MaxSupported =>
          col.pc # "idle" /\ col.thread = t /\ limit[t] = MaxEntries[col.source]

\* A collection is refused only for what happened in it.  It is `unstable' only if
\* the node left the tip it had when the collection began, its window is refused
\* only if the clock was set back, and a mempool is too large only if the source's
\* limit is below the size that was reported or the entries that were listed.
\* So get_mempool_snapshot returns what a node at rest has, whatever was answered
\* to, or left on the thread by, an earlier collection.
Refused(kind) == col.pc # "idle" /\ col'.pc = "idle" /\ result'.kind = kind

RefusedForCause ==
    [][ /\ Refused("unstable") => tip # col.began
        /\ Refused("window") => clock < col.started
        /\ Refused("limit") =>
              MaxEntries[col.source] <
                (IF col.pc = "size" THEN Cardinality(pool) ELSE col.listed) ]_vars
=============================================================================
