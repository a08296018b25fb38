# Mempool Atlas: TLA+ models, checks and proofs

Mempool Atlas polls the mempools of one to four Bitcoin nodes, classifies the
transactions it finds, and serves the current state of every source over HTTP
to a browser interface. Nothing is stored on disk. This directory models what
decides whether readers see the truth: how a mempool is collected from a node
that goes on working, how its transactions are classified, each and in bounded
slices, how results are published while several tasks work on one source, how
the two loops of the runtime share the RPC work, and what the browser's pages
show while their requests overlap.

Paths are relative to the repository: `src/src/runtime.rs` is the Rust source,
`src/web/src/main.ts` the browser code.

## The system

| Component | State | Operations | Hard behaviour |
|---|---|---|---|
| `CurrentStatePublisher` (`runtime/publisher.rs`) | `CurrentState`: membership, materialized snapshot, classification map, error, lifecycle, four counters, the encoded response with its ETag | `record_poll_started`, `publish_membership`, `publish_classification_update`, `publish_lifecycle`, `publish_failure`, `snapshot_response_payload`, `transaction_detail` | each publication reads under a read lock, encodes on a worker without a lock, and commits under the write lock only if what it read is still current |
| `AtlasRuntime` (`runtime.rs`) | the RPC work gate (a semaphore with one permit), the wakeup, the pending set, the loops' own variables | `run_membership_rounds`, `poll_round`, `run_classification`, `classify_one_slice`, `publish_classification` | two loops in one `tokio::join!`; lost wakeups, starvation, results for a replaced generation, errors in the middle of a round |
| `ClassificationPipeline` (`classification.rs`) | generation, revision, candidates with attempts, cached outputs and confirmed scripts | `install_snapshot`, `classify_next_for_generation` | slices over awaits, retries, byte and item budgets |
| Classification RPC (`classification_rpc.rs`, fetches of `classification.rs`) | the id counter, the lanes of a wave | batches sent on several lanes, matching of their answers | reordered, missing, duplicated answers; one batch of several fails |
| Membership RPC (`rpc.rs`) | the id counter, the decode limit of each thread | `get_mempool_snapshot` | the chain tip and the mempool change during the collection |
| HTTP transport (`rpc_transport.rs`) | none | `post_json_bounded` | bodies cut short or above the limit |
| Snapshot model (`model.rs`) | none | validation, materialization, progress | classifications of another witness variant |
| HTTP API (`api.rs`) | none | conditional snapshot reads, transaction details | validators that outlive the process |
| BIP-110 evaluator (`bip110/`), classifiers (`classifiers.rs`) | none | verdicts on one transaction | missing facts |
| Browser (`web/src`) | snapshots, selection, request tickets and sequences, comparison | discovery, snapshot loads, detail requests, comparison, drawing | answers out of order, a snapshot replaced while a detail is on its way |

How they interact. A membership round takes the gate, polls every source in
order and installs each collected mempool as a new generation of the source's
pipeline; then it drops the gate and publishes the outcomes, and every new
membership wakes the classification loop. That loop chooses a source, takes
the gate for one bounded slice of the *published* generation, releases it and
publishes the slice's report: a delta with the next revision, a lifecycle
(`classifying`, `complete`, `paused`), or both. HTTP readers see only the
publisher's state.

What makes each part correct:

- publisher: a reader never sees a mixture of two publications; publications
  do not go back; a `304 Not Modified` confirms only an identical response;
- runtime: no slice is superseded while it runs, no source starves, no wakeup
  or revision is lost, one failing source does not stop the others, every
  round and every classification ends;
- pipeline: every eligible transaction is classified, or given up, after
  finitely many slices; budgets are respected; a result belongs to the
  variant it was computed from;
- RPC: answers are attributed to their requests; a snapshot belongs to one
  chain tip;
- classification of a transaction: a claim made with facts missing stays true
  when they come, and whatever is produced can be published;
- browser: an older answer never replaces a newer one, and a detail shown
  belongs to the snapshot shown.

`PROJECT.json` lists the components with what is modelled of each, and the
hazards at the line where they bite.

## Modules

| Module | What it is |
|---|---|
| `PublisherState` | the fields of `CurrentState`, the operators that materialize and encode them, and what each critical section stores |
| `AtomicPublisher` | the promise of `docs/architecture.md`, "Publication model": every publication is one atomic step computed from the state at that step |
| `Publisher` | the code: read, encode and commit of each call as separate steps of concurrent tasks, a caching HTTP client, lost workers and restarts |
| `PublisherProofs` | the theorems about `Publisher` |
| `AtlasRuntime` | the membership rounds, the gate and the classification loop over all sources |
| `AtlasRuntimeProofs` | the theorems about `AtlasRuntime` |
| `RecencyCache` | what the pipeline's caches promise: scripts in order of use, one budget, no stamps and no totals |
| `AuxiliaryCache` | the code: the LRU index with its stamps, the running totals, the outputs carried between generations |
| `AuxiliaryCacheProofs` | the theorems about `AuxiliaryCache` |
| `Totals`, `TotalsProofs` | sums over finite sets and what is known of them, for the byte budgets |
| `PendingSlice` | the synchronous part of the classification pipeline: the window of candidates, the facts they need, waves, answers and deferral, as operators |
| `ClassificationPipeline` | generations and slices: admission, the three RPC waits of a slice, supersession, the end of a slice |
| `ClassificationPipelineProofs` | the theorems about `ClassificationPipeline` |
| `RpcTransport` | which HTTP responses of a node reach a caller |
| `ClassificationRpc` | ids, the decoding of a batch's answers and their meaning for the two methods, as operators |
| `ClassificationFetch` | the lanes that fetch a wave, over the previous two modules |
| `ClassificationFetchProofs` | the theorems about `ClassificationFetch` |
| `MembershipCollection` | the four requests of a collection, the node beside them |
| `MembershipCollectionProofs` | the theorems about `MembershipCollection` |
| `TransactionScripts` | scripts and witnesses as the evaluators read them |
| `Bip110Rules` | the seven rules, their evidence and the primary violation |
| `ClassifierLenses` | the properties, shape and data lenses |
| `TransactionClassification` | one witness variant classified over generations, with the previous two modules, and the validation of the result |
| `BrowserRequests` | what the browser's pages share: what the server answers, tickets |
| `NodePage`, `ComparisonPage` | the two pages: their handlers, and their requests |
| `BrowserTab` | a page, its user, the network and a server that publishes |
| `BrowserTabProofs` | the theorems about `BrowserTab` |
| `MC...` | instances for TLC, named after the module they instantiate |

How they compose. `ClassificationPipeline` asks for waves, and takes from
`ClassificationFetch` that an answer belongs to its request and that a wave
ends. `AtlasRuntime` takes from `ClassificationPipeline` that work ends, from
`MembershipCollection` that a collection returns one mempool or an error, and from
`Publisher` that a publication is atomic. `ClassificationPipeline` calls classifications opaque;
`TransactionClassification` says what they are. `BrowserRequests` assumes of the
server what `PublicationOrder` states.

### PublisherState, Publisher

A variable of `PublisherState` is a field of `CurrentState`, in camel case
(`classification_generation` is `generation`, with 0 for `None`). A membership
is its collection time and, for every txid, the witness variant present; a
classification is a variant and an opaque result. `Materialize` is
`materialize_retained`, `Encode` is the response `encode_response` builds
(availability, poll time, progress counts, error, snapshot), `Store...` are the
statements each call executes under the write lock, in the code's order.

In `Publisher` a call goes through `pc` = `check` (only memberships), `read`
and `encode`. `seen[c]` is what it read. `Commit...` is the second critical
section: superseded (return), changed meanwhile (round the loop again), or
stored. `publish_classification_update` does not start anew when only the
status changed: `RefreshUpdate` takes the poll time and the error and keeps
everything else, lifecycle included, as the code does. `WorkerFails` is a
blocking worker or an encoder that returns an error between the two sections.
The environment may hand over any generation and revision in its bounds, in any
order, so that stale, repeated and skipped revisions reach the publisher; it
passes classifications for other variants, which the checks have to refuse.

The HTTP client keeps the last response and its ETag over restarts of the
server. `Restart` clears the state and the calls.

Left out: the `source_id` comparison (one publisher is one source) and the
revision-zero check of a membership (the pipeline always passes 0), timings
and log lines.

### AtlasRuntime

`mpc` and `cpc` say where the two loops are; a step is the code between two
awaits. `gate` is the queue of the semaphore: its head holds the permit and
tokio grants it in FIFO order. A publication is one step, at its commit.
That is what `Publisher` and the refinement theorem justify. `pub` is reduced
to generation, revision, lifecycle, whether the last poll failed, and the round
of the last poll. The pipeline is its current generation with the number of
slices it may still need: `StoreSlice` says that a slice that does not fail
systemically leaves less work, which the code ensures by attempting each
candidate, or retrying it once, per generation. This is an assumption here;
`GenerationSettles` of `ClassificationPipeline` is the check of it. `wakeup` is the permit `Notify` stores.
`skipped` is a history variable.

A wall-clock error and a generation overflow are `other` outcomes, which the
code only logs. `Faults` switches the clock errors, the RPC errors and the
failing publications of a run.

### AuxiliaryCache

`cache` is `ConfirmedScriptCache` and `work` the part of `ClassificationWork`
that shares its budget. Every access holds the coordinator lock, so an
operation is one step, written as a function on these records; a `BTreeMap` is
a function on its keys. `ShrinkTurn` is one turn of the loop of `shrink_to` with
its defensive branches, and `ShrinkTo` the loop, a recursive function of the
number of turns: each pops a pair of the index, so it has at most one more than
there are pairs. `Renumber` is the part of `allocate_stamp` that runs when the
stamps are used up: a pair's new stamp is the number of pairs before it.
`CarryOutputs` is the loop of `install_snapshot` that moves outputs into the new
generation. Scripts and variants are opaque and have a
size, the code's estimate. The overflow of `checked_add` in `insert_outputs`
is left out: two summands of at most 512 MiB. The old generation's outputs, which
stay in memory until its last user drops them, are not counted, as in the code.

`RecencyCache` has neither index nor totals. `older` is the order of use as a
relation, and `Kept` the largest set of entries that is closed under later use
and fits the budget, so the specification says nothing of how eviction goes
about it.

### PendingSlice, ClassificationPipeline

`PendingSlice` has one operator per method of the struct. It works on a record
whose fields are the struct's, with these abstractions: a script is its outpoint
and a size; `active` and `fair_order` hold the same candidates and are one
function, `turn`, from a candidate to its place; `pending_script_bytes` is computed from the facts, as
`recount_script_bytes` does; the inputs of a transaction are its distinct
outpoints, already in order. Scripts that are stored one after the other as long
as they fit are a set, `Stored`: a script is in it exactly if it fits beside
what was ready and those of the set that come before it. `activate_waiting`
takes the longest prefix of the queue the window has room for. `SelectWave` is
the loop that `next_parent_wave` and `next_confirmed_wave` have in common, with
the rotation of the order and the cursor of each candidate (`TakeTurn`). It is a
recursive function of the number of turns, of which there are at most as many as
candidates times one more than the size of a wave, since every round but the
last adds something. The loops of the recovery from caches and of
`resolve_capacity_pressure` in `ClassificationPipeline` are written the same way.

In `ClassificationPipeline` a slice is a record, `slice`: the local variables of
`classify_next_for_generation` with the place where it waits (`raw`, `parents`,
`confirmed`). A step runs from one wait to the next or to the end of the slice,
so `RawAnswered` may end in a parent wave, a confirmed wave or `StoreSlice`.
`resolve_capacity_pressure` yields, but what it changes is local to the slice;
a supersession at such a yield has the effect of one at the last wait. Answers
are arbitrary: found, failed for a retry, failed systemically, and for
`gettxout` null. A request whose batch failed or was not sent any more has the
effect of a systemic failure. Batches complete in any order, so the answers of a
wave are applied in any order. After a slice the caches keep any part of what is
new and any part of the confirmed scripts: `AuxiliaryCache` says which, the
properties here hold for all of them. A classification is reduced to the set of
inputs known to have no script, which is what makes it retryable.

The runtime starts slices: `MayStart` is its protocol, one more slice while the
last said `continue`, and one additional slice after the first (finding 1).
`slices`, `rawRequests`, `givenUp` and `fetched` are history variables; `MayStart`
reads the first.

One limit of this is worth knowing. An attempt whose wave failed systemically is
counted and the fact is neither selected nor given up once its attempts are
used. That is harmless because a systemic failure pauses the generation, and
the runtime resumes it at most once. A caller that went on with a paused
generation could get slices that say `continue` and do nothing.

### RpcTransport, ClassificationRpc, ClassificationFetch

A response of the endpoint is what it meant to send and what arrived; the read
loop of `read_bounded_response` comes to `Accepted`. A batch is its keys and the
first of its ids. An answer of the node is its members as far as the decoder
tells them apart: `error` may be missing, null, an error or something else, and
`result` missing, null or a value, so that `Outcome` can go wrong as serde does.
A document may leave answers out, repeat them, carry foreign ids, or not be an
array. `Reserve`, `Respond` and `Join` are the steps of a task: the ids it takes
from the counter, shared with all other tasks, the answer to its batch, and the
collection of its values, with the refilling of the lane. A task may be lost.
`asked` is a history variable: the key each id was given to.

A batch of several requests without a single answer is a systemic failure and
stops the wave, as in the code. What the model says of a value is `found`, `null`, retryable
or systemic; transactions and scripts are the keys they belong to.

### MembershipCollection

`col.pc` says which request is next. The node's tip and mempool change between
any two, within budgets. An intermediary may repeat the previous answer to a
method, with its id, which is why `Matches` is needed; other wrong answers fail
in `CallFails`. `Visit` is one entry of the streaming visitor, `limit` the
thread-local it reads and `Guard` what sets it until the task ends. `began`, `read`,
`document` and `listed` (the node's tip at the beginning and at the reading, the
mempool that was read, and how many entries were listed) are history.

A tip that is left and comes back (A, B, A) between the two reads is accepted by
the code, as `docs/architecture.md` says. Here a hash is not seen twice.

### TransactionScripts, Bip110Rules, ClassifierLenses, TransactionClassification

A script is a sequence of decoded instructions with sizes; the bytes of a push
are a length, a tag for how they begin, the script they decode to and the tokens
of the text they carry. The constants of the rules are the code's. `Evaluated`
goes over the rules as `rules/mod.rs` does, with the facts that are known.
ARC4 is a mark on a token that says its place in the key stream, so that pieces
put together in the wrong order do not decrypt. `Valid` is the validation of
`model.rs`, which the publisher applies to a whole delta.

`Classify` is one generation's classification with any set of known inputs, and
a variant that lacked facts is classified again. `Client` in the properties is the reference: Bitcoin
Knots' interpreter, which stops at its first error.

Limits: an envelope without burn keys is searched only in the first candidate
multisig, so that a foreign one in front of it leaves `counterparty` unfound;
the runs' carriers do not have it. The coinbase and the `Consensus` mode, which
only tests use, are left out.

### BrowserRequests, NodePage, ComparisonPage, BrowserTab

A page is a record of the module-level variables of its `.ts` file. A handler
runs to its next `await` in one step; what is after the `await` is another, taken
when the answer arrives or the request is rejected. A request is answered with
the state the server has at that moment, and the answer arrives at any later
time, so answers overtake one another. The server goes through a sequence of
states, and a snapshot or a detail is an index into it. A snapshot load is a
ticket of `RequestLifecycle`; an aborted request is rejected, or it had already
been answered. `panel.says` is what the detail section shows.

`SelectView` and `TransitionView` are all handlers that change what is selected
in a snapshot. Those that go on to the first sample are such a step followed by
the choice of a transaction. `active` is `activeLoads`: a load that
`discoverSources` waits for counts with it, and both end in one step.

## Runs

| Run | Instance | What it shows |
|---|---|---|
| `publisher` | two transactions, one with two variants, three memberships, one membership and one classification task, generations and revisions up to 2, 4 clock ticks | coherence, order, validators and the refinement in all interleavings of two calls, with lost workers and restarts |
| `runtime` | two sources, two generations, up to two slices, one revision, clock errors | no lost wakeup or revision, fair sharing, termination of rounds and classification |
| `runtime_faults` | two sources, two generations, RPC and publication errors | the gate separates installation from slices; what is published is never ahead of the pipeline and `complete` is true; every source has its turn |
| `auxiliary_cache` | three outpoints, scripts of two sizes, two transactions with three variants, a budget of five units, stamps that run out after five uses | the shared budget, the variants of retained outputs, and the refinement of `RecencyCache` |
| `pipeline` | five kinds of histories: transactions that share previous outputs; several that need a script as large as the budget; one wider than the window; one that fills the budget while another waits for an output its parent has not; and two generations with two witness variants of one transaction, a child of it and a child of an output it has not | no transaction is lost, the limits hold, fetched scripts are not lost for lack of room, nulls are not mistaken for evidence, supersession at every wait, every generation comes to an end |
| `classification_fetch` | waves of four keys in three batches on two lanes, both methods, ids that run out, two waves | values belong to their requests and are complete, and every wave ends |
| `membership_collection` | two sources with limits of different size, one blocking thread, two transactions, one new tip, one step of the clock, two collections | a snapshot is one whole mempool of one tip within the limit, also on a thread that served a failed collection; nothing is refused without a cause |
| `transaction_classification` | Taproot and other spends at the limits of every rule, alone and in pairs, carriers of every protocol whole and split, families and shapes; every subset of facts in two generations | claims stay true, the primary violation, the validation, the carriers |
| `browser` | three sources, two transactions, three states of the server, three addresses, two actions of the user | what both pages show, and that they come to rest |
| `paused_generation_resumes`, `internal_poll_failure_stays_ready`, `lost_report_stays_classifying` | as the runtime runs | see *Findings* |

The properties, in the order of the runs:

- `CachedResponseCoherent`: the cached body is the encoding of the present
  snapshot, lifecycle and error. Only its poll time may be old.
- `SnapshotMatchesState`: the visible snapshot is the materialization of the
  retained membership and classifications, all of the right variant; snapshot,
  membership, lifecycle and generation exist together.
- `NotModifiedMeansUnchanged`: the ETag identifies the content, over restarts.
- `AcceptedDetailMatchesHeldSnapshot`: the browser's acceptance rule (same
  observation time and revision) accepts only details that agree with the
  snapshot it holds.
- `PublicationOrder`: generations grow, revisions advance one by one, no
  classification is lost.
- `ImplementsAtomicPublisher`: `Publisher` refines `AtomicPublisher`.
- `EveryRevisionPublished`: every revision the pipeline made of the published
  generation is visible or is just being published.
- `ClassifyingIsScheduled`: a generation shown as `classifying` is queued or in
  hand, and the loop is awake or about to be woken.
- `RoundFinishes`, `ClassificationEnds`: liveness.
- `PublishedNeverAhead`: no generation, revision or `complete` is shown that the
  pipeline has not reached.
- `SliceNeverSuperseded`, `EverySourceAttempted`, `RoundRobinIsFair`: as their
  comments say.
- `NothingLost`: whatever was taken up is classified, pending or given up, and
  `complete` is true.
- `WithinLimits`: the byte limit, the fact limit with the exception the code
  makes for a single candidate, and two raw requests per variant and generation.
- `FactsServeCandidates`: there is a fact for every input of an active candidate
  and for nothing else, so the `unreachable!` of `classify_ready` is unreachable.
- `NullOnlyOutsideMempool`: an output counts as missing only if its transaction
  is not in the membership.
- `FetchedScriptsAreUsed`: a script fetched in a slice is not left blocked when
  the slice ends, unless the cache has it. An output its parent does not have is
  excepted: see *Proofs*.
- `OnlyMembersKept`: nothing of a superseded slice, and nothing of another
  witness variant, is in the current generation.
- `GenerationSettles`: liveness, every generation stops saying `continue`.
- `SharedBudget`: what confirmed scripts and retained outputs weigh, added up
  anew, stays within the configured bound.
- `OutputsAreCurrent`: retained outputs are of the current membership's variant.
- `ImplementsRecencyCache`: eviction is in true order of use and no larger than
  needed, and a new generation evicts nothing.
- `AnswersAreTrue`: a value is what the node said about its own key, and only a
  key the node does not know is explicitly absent.
- `RequestsOwnTheirIds`: ids that are out belong to one request.
- `RequestsAreAccounted`: one value per key, no more batches than lanes, and a
  wave that ended has failed exactly when some key has no value of its own.
- `SnapshotIsMempoolOfTip`: an accepted snapshot is one whole mempool, read at
  the tip it names.
- `DecoderWithinLimit`: the decoder keeps to the limit of the source, and gives
  its thread back without one.
- `WaveEnds`: liveness.
- `RefusedForCause`: a collection is refused as unstable, for its window or as too
  large only because of what the node or the clock did during it.
- `ClaimsHoldWhateverIsMissing`: for every script the unknown outputs may have,
  verdicts, first rejection and labels stay.
- `PrimaryIsFirstRejection`: the primary violation is where a client that stops
  at its first error would stop.
- `ClassificationIsPublishable`: the validation accepts every classification.
- `CarriersAreFound`: the data lens finds what is carried and nothing else, also
  with another output between the pieces.
- `ViewIsCoherent`: snapshot, comparison and detail on the screen belong
  together and to the sources and the transaction chosen.
- `RefreshMeansIdle`: the button is enabled only when nothing is under way that
  could replace what is shown.
- `NeverOlder`: a snapshot is never replaced by an older one of its source.
- `PageSettles`: liveness, no detail stays "Loading" and the button comes back.

### Bounds

Two tasks are all the code has per source: one per loop. Two generations and
two revisions contain every relation the guards compare (older, equal, next,
skipped). Four clock ticks let a membership, a second call, a restart and a
third call overlap. An entry that changes its variant, one that disappears and
an empty mempool are the cases materialization tells apart. For the runtime,
two sources and two generations let a round overlap a slice of the previous
generation, and one revision makes the overflow of the revision counter
happen. `RoundRobinIsFair` distinguishes the cursor from the lowest source first
with two sources already. In the cache run one
long and two short scripts fill the budget, so an insertion may evict none, one
or several entries, and retained outputs may crowd all of them out. In the
first history of the pipeline run three transactions are the smallest case in which two candidates
share a fact while a third waits outside the window, and the script budget of two
units makes one script exclude the others. When all candidates share that script,
as in the second, deferring one may not make room for it, which is what
`resolve_capacity_pressure` has its loop for. The last has a full budget while
an awaited output does not exist, which `defer_one_capacity_blocked_fact` then
calls blocked. All of them together have 525 305 states. Two attempts per fact are the code's
own constant. Three batches for two lanes let a lane be refilled while the other
fails; ids that end at six let a later wave run out of them. One new tip and one
repeated answer are what the second read has to detect. Two actions of the user
on top of the opening make three requests of a kind overlap, and three states of
the server contain a first snapshot, a new revision that changes a result, one
that changes another's, and a new membership. The limits of the code are constants of the model. The bounds
are the constants `MaxGeneration`, `MaxRevision`, `MaxClock`, `MaxWork`, `MaximumBytes`,
`MaxStamp`, `MaxWaves`, `MaxBlocks`, `MaxTxSteps`, `MaxClockSteps`,
`MaxCollections`, `MaxGenerations`, `MaxClicks`, and `RoundWrap`, at which the round id wraps as the u64 does.

### Fairness

`AtlasRuntime` assumes weak fairness of the steps of a running round and of the
steps of the classification loop: both are futures of one `tokio::join!`, which
polls each when it is woken, the semaphore is fair, and every RPC has a timeout,
so that a collection or a slice ends. Nothing is assumed of the interval: a
new round need not come. `Publisher` states no fairness, and its loops may in
principle go round for ever; each further round needs another commit in
between. `ClassificationPipeline` assumes weak fairness of the steps of a slice:
its requests have timeouts, and the runtime goes on with it. It is written out
as `SliceFairness`, with `SliceEnabled` for ENABLED. A new membership need not
come. `ClassificationFetch` assumes weak fairness of the steps of a wave: every
request has a timeout (`RPC_BATCH_TIMEOUT`). `MembershipCollection` states none: a
collection is a straight line of four requests, each with a timeout
(`MEMBERSHIP_RPC_TIMEOUT`), and that it ends needs no model. `BrowserTab` assumes that a
browser resolves or rejects every request in the end, and nothing of the user or
the server.

## Proofs

`PublisherProofs` proves, for any number of tasks, any sets of transactions,
variants, results and errors (the transactions finite) and any bounds:

| Theorem | Statement |
|---|---|
| `TypeCorrect` | `Spec => []TypeOK` |
| `CachedResponseIsCoherent` | `Spec => []CachedResponseCoherent` |
| `SnapshotAlwaysMatchesState` | `Spec => []SnapshotMatchesState` |
| `PublisherImplementsAtomic` | `Spec => ImplementsAtomicPublisher` |
| `NotModifiedIsSafe` | `Spec => []NotModifiedMeansUnchanged` |
| `PublicationsAreOrdered` | `Spec => PublicationOrder` |
| `AcceptedDetailsMatch` | `Spec => []AcceptedDetailMatchesHeldSnapshot` |

Assumptions: the transactions are finite (cardinalities are counted); `None`
is different from every value it stands beside; the inputs have their types.

The argument. None of the invariants is inductive alone, because a commit
stores what was computed from an earlier view. The inductive invariant is

    TypeOK /\ CallsConsistent /\ SnapshotMatchesState /\ CachedResponseCoherent

`CallsConsistent` says why the optimistic loops are sound. A view is never
newer than the state; if its generation and revision are still current, so are
the snapshot, the membership and the classifications it holds; if its status
revision is current, so are the poll time, the error and, except for a
refreshed update, the lifecycle. It also records what the checks before the
loop established about the arguments. A commit that finds its counters
unchanged therefore stores what it would have computed at that moment. The
refinement follows with the identity mapping: commits are the atomic steps,
everything else stutters.

`NotModifiedIsSafe` needs a second invariant, `ValidatorsFresh`. Collections
published by a process completed after it started, so a validator with such a
collection time was issued by this process, and its response number was used
once. This rests on a wall clock that moves forward between the last collection
of one process and the first of the next; the code relies on that too, as the
ETag consists of the observation time and a counter that starts again.

`AcceptedDetailsMatch` needs a third, `HeldInv`. The browser compares only the
observation time and the revision. `CollectionsApart` says that collections that
are handed over, published or held by the client have different times;
`HeldIsOlder` that a held copy of the collection readers see is of an earlier
revision or is the visible snapshot itself, restarts included.

`AtlasRuntimeProofs` proves, for one to four sources (what `AtlasRuntime::new`
accepts), any work, any largest generation and revision and any faults:

| Theorem | Statement |
|---|---|
| `GateIsExclusive` | `Spec => []GateOrder` |
| `SlicesAreNotSuperseded` | `Spec => []SliceNeverSuperseded` |
| `PublishedIsNotAhead` | `Spec => []PublishedNeverAhead` |
| `RevisionsArePublished` | `Spec => []EveryRevisionPublished`, if no publication fails |
| `ClassifyingStaysScheduled` | `Spec => []ClassifyingIsScheduled`, if no publication fails |
| `SourcesAreAttempted` | `Spec => []EverySourceAttempted` |
| `ClassificationIsRoundRobin` | `Spec => []RoundRobinIsFair` |

The condition of the two theorems about scheduling is needed: the run
`lost_report_stays_classifying` shows what a failed publication does (see Findings).

The argument. `GateOrder` says that the queue of the gate has one of five values,
and in which of them each loop waits or holds the permit; so no snapshot is
installed while a slice runs. With it the inductive invariant `Inv` relates the
three copies of a generation: what a round installed and has not published yet
(`OutcomesInstalled`), what a slice reported and has not published yet
(`ReportIsTrue`), and the pipeline itself (`UnpublishedIsFresh`: a generation is
classified only once it is published). `PublishedNeverAhead` alone is not
inductive, as a publication shows values that were computed before the gate was
dropped.

`ScheduleInv` is inductive relative to `Inv`. A report that carries a delta
carries the one after the published revision (`DeltaFollows`), and if a
membership is published between the start of a slice and its report, the source
is in the pending set (`Rescheduled`); so a report that is dropped never leaves a
generation behind. `RoundInv` says which sources of a round have had their turn.
`FairInv` says that the slices a source has waited for and its distance from the
cursor add up to less than the number of sources: each slice of another source
brings the cursor closer.

`MembershipCollectionProofs` proves, for any sources, limits and threads, any
finite set of transactions and any bounds:

| Theorem | Statement |
|---|---|
| `CollectionInvariant` | `Spec => []CollectionInv` |
| `CollectedIsMempoolOfTip` | `Spec => []SnapshotIsMempoolOfTip` |
| `CollectionWithinLimit` | `Spec => []DecoderWithinLimit` |
| `CollectionRefusedForCause` | `Spec => RefusedForCause` |

Assumptions: transactions are positive numbers and finitely many, limits are what
`validate_configured_limit` accepts. The argument. An answer that is repeated has
the id of an earlier request (`AnswersAreOld`), so an answer that is taken says
what the node has at that moment. The tips a collection reads are in the order in
which the node had them (`TipsInOrder`), and a hash is seen once: when the first
and the last are equal, so is the one under which the mempool was read; when they
are not, the node has left the tip it had at the beginning. A limit
is on a thread only from the decoding to the end of the collection
(`LimitsAreReturned`). What was decoded without an error is all of the document,
and one that exceeds the limit lists more than that (`EntriesAreComplete`). This rests on lemmas about the loop of `visit_map`, by
induction over its turns: it keeps a prefix of the document as long as there is
no error, never more than its limit, and stops at the limit only if there is more;
and on one about sorting: entries with
different txids have exactly one place each in the order of txids.

`ClassificationFetchProofs` proves, for any keys and waves, any number of lanes,
batch sizes and byte estimates, any largest id and any answers:

| Theorem | Statement |
|---|---|
| `FetchInvariant` | `Spec => []FetchInv` |
| `FetchRequestsOwnTheirIds` | `Spec => []RequestsOwnTheirIds` |
| `FetchAnswersAreTrue` | `Spec => []AnswersAreTrue` |
| `FetchRequestsAreAccounted` | `Spec => []RequestsAreAccounted` |

Assumptions: a wave asks for no key twice, every method has a lane and a batch
size, what the node makes up is no key. The argument. A key is in one of three
places, the rest of the wave, a batch or the collected values (`KeysApart`), and
unless something failed in at least one (`NothingMissing`). The ids of a batch lie
below the counter and are recorded as its own (`IdsAreOwned`), so an answer whose
id is in the range of a batch is about the key at that place (`FoundIsTrue`).
Every key of a batch that got a response has a value (`TasksAnswer`).
`RequestsAreAccounted` alone is not inductive: that a failure is reported exactly
when a key failed or has no value follows, at the end of a wave, from where the
keys are before it (`FailureHasKey`, `KeysOfWave`).

`BrowserTabProofs` proves, for any number of sources and clicks, any sequence of
published states in which each follows the one before, and any addresses:

| Theorem | Statement |
|---|---|
| `TabInvariant` | `Spec => []TabInv` |
| `TabViewIsCoherent` | `Spec => []ViewIsCoherent` |
| `TabRefreshMeansIdle` | `Spec => []RefreshMeansIdle` |
| `TabNeverOlder` | `Spec => NeverOlder` |

Assumptions: of the server what `PublicationOrder` states and `PublisherProofs`
proves (within a collection the revision grows and a result once given stays);
`None` is no value it stands beside. The argument. Each page has an invariant of
its own (`NodeGood`, `PairGood`): a ticket that is current was issued last, so at
most one load of a page can still be shown; a load that is current was sent for
the source or the pair that is selected, and was not answered by an older state
than what is shown; on the node page, a detail request that is current was sent
for the chosen transaction and the shown snapshot. For the comparison the counter
of active requests is the number of loads and discoveries under way, where a load
that a discovery waits for counts twice (`PairCount`).

`AuxiliaryCacheProofs` proves, for any scripts, transactions, sizes and budget, and
any finite set of outpoints with more stamps than outpoints:

| Theorem | Statement |
|---|---|
| `CachesInvariant` | `Spec => []CachesInv` |
| `CachesWithinBudget` | `Spec => []SharedBudget` |
| `RetainedOutputsAreCurrent` | `Spec => []OutputsAreCurrent` |
| `CachesRefineRecency` | `Spec => ImplementsRecencyCache` |

Assumptions: sizes are positive, the budget is not zero (`ClassificationLimits::new`
refuses it), and the stamps, 2^64 in the code, outnumber the entries. `SharedBudget`
is about real weights while the code only compares running totals, so the
inductive invariant has to say that these are right: `CacheOK` (the index holds one
pair for every entry, with a stamp of its own below the next one, and the total is
what the entries weigh) and `WorkOK` (the same for the outputs). A turn of
`shrink_to` removes the oldest entry and keeps both, so the loop ends with a total
that fits, and its defensive branches are not taken (by induction over its turns).
Renumbering by rank keeps the order of the stamps, and leaves one free because there are
more stamps than entries. Carrying outputs never
exceeds the budget, because what is carried was retained before; so it evicts
nothing. For the refinement, what the loop leaves is closed under later use, and
one more entry would not fit; sets closed under later use contain one another, so
it is the one `Kept` chooses.

`ClassificationPipelineProofs` proves, for any transactions with any inputs, any
limits, sizes and histories of memberships:

| Theorem | Statement |
|---|---|
| `PipelineInvariant` | `Spec => []PipelineInv` |
| `NoTransactionIsLost` | `Spec => []NothingLost` |
| `LimitsAreKept` | `Spec => []WithinLimits` |
| `FactsAlwaysServe` | `Spec => []FactsServeCandidates` |
| `OnlyMembersAreKept` | `Spec => []OnlyMembersKept` |
| `NoFetchedScriptIsLost` | `Spec => []FetchedScriptsAreUsed` |
| `NullsAreOutsideMempool` | `Spec => NullOnlyOutsideMempool` |

Assumptions: a membership is finite and has one variant per txid, every script has
a size, and the limits are not zero where `ClassificationLimits` refuses zero.
The argument, in the order of the module:

- The window. `SliceOK` says that a window has facts for exactly the inputs of its
  candidates, and that these and the bytes of the ready scripts are within their
  limits. That `Stored` exists and is one set is an induction over the places of
  the scripts; whatever the order of the answers, what it stores fits. Admission,
  waves, answers, deferral and the discarding of candidates keep `SliceOK`, and
  `FactsOK`: only an output of no mempool transaction is missing or asked of
  `gettxout` at first.
- The loops. Each is shown to reach its end within the number of turns its
  function has. `resolve_capacity_pressure` is the interesting one: a turn that does not
  end it takes a candidate out of the window, so at its end no script that only this
  slice has fetched is blocked.
- The slice. Every step inside it (`Follows`, `Keeps`) moves candidates only into
  the results or the deferred ones. At each wait `Accounted` says that whatever was tried
  is classified, in the hands of the slice or given up, and that nothing in its hands
  is given up.
  When a generation is superseded at a wait, the new one has not begun
  (`StaleOK`), and what comes back to the old slice changes nothing.

None of the invariants is inductive alone: `NothingLost` is about the state between
slices, and what a slice holds meanwhile is in its local variables.

The attempt to prove `FetchedScriptsAreUsed` found that it was too strong. When
the budget is full, `defer_one_capacity_blocked_fact` blocks the first awaited
fact, which may be an output that its parent, though fetched, does not have; no
script of it exists to be used, and the candidate is deferred. The property now
excepts such outputs, and a history in which this happens is part of the run.

Only model-checked:

- Liveness under fairness (`RoundFinishes`, `ClassificationEnds`,
  `GenerationSettles`, `WaveEnds`, `PageSettles`): outside the
  proof system's reach.
- `TransactionClassification` (`ClaimsHoldWhateverIsMissing`,
  `PrimaryIsFirstRejection`, `ClassificationIsPublishable`, `CarriersAreFound`).
  Its properties compare what scans of scripts, witnesses and payloads compute.
  The scans recurse over the structure of a script (a push may hold a script), so
  they are recursive operators, and the proofs would be inductions over data.

The u64 counters are unbounded in `Publisher`.

## Findings

Three statements of the repository that the code does not keep, each with a
run that shows a shortest behaviour:

1. *A paused source stays paused until a replacement generation*
   (`src/src/runtime/tests.rs:948`). The classification loop removes a source
   from its active set and waits for the gate, and then for the read lock. If a
   membership of that source commits in this window, the source is added to the
   pending set again while the slice already takes the new generation. When that
   slice pauses the generation, the leftover entry starts another slice of it.
   The effect is one additional attempt.
2. *A failed poll marks the snapshot stale* (`docs/architecture.md:47`). Only
   RPC errors are published; a clock or an installation error is logged and the
   source stays `ready`.
3. *`classifying` means that work remains, `paused` that an internal failure
   stopped the generation* (`docs/architecture.md:97`). When the publication of
   a report fails, the source is not scheduled again, and the lifecycle says
   `classifying` until the next round.

## Not modelled

- Command line, configuration and start-up (`main.rs`): they run once, before
  there is any state. The registry of sources is built there and never changes.
- Routing, static files, headers and error bodies of the HTTP API: no state.
- The field validation of entries, descriptors and names in `model.rs`, and the
  validation of JSON in `api.ts`: straight-line checks of one value.
- Bytes: script encoding, ARC4, hashes, the layouts inside a payload. Their
  inputs are out of TLC's reach; what the classifiers do with the outcome is
  modelled.
- The coinbase transaction and the `Consensus` mode of the evaluator, and
  `transaction_structure`, which counts fields of one transaction.
- The comparison and terrain computations of the browser (merge join, partition
  into bands), which keep no state and interleave with nothing; drawing and
  wording.

## Plan

Safety of every component with state is proved. What is left:

1. `TransactionClassification`: the scans of one script as functions of a position
   instead of recursive operators, so that at least the order of the seven rules
   (`PrimaryIsFirstRejection`) can be proved from lemmas about one rule each.
2. A composition of `AtlasRuntime` with `ClassificationPipeline`, in which
   `StoreSlice` of the former is the end of a slice of the latter instead of an
   assumption.
