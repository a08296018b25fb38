--------------------------- MODULE BrowserRequests ---------------------------
(***************************************************************************)
(* What the two pages of src/web/src have in common: the requests they     *)
(* send, what the server answers at the moment it serves them, and the     *)
(* tickets of comparison-lifecycle.ts by which a page recognises an answer *)
(* it no longer waits for.                                                 *)
(*                                                                         *)
(* The server goes through a fixed sequence of states; the pages hold an   *)
(* index into it in place of a snapshot or a detail.                       *)
(***************************************************************************)
EXTENDS Naturals, Sequences, FiniteSets

CONSTANTS
    NumSources,     \* the configured sources are 1 .. NumSources
    Txids,
    None,           \* null
    Published,      \* the states of the server: source -> what it shows
    MaxClicks       \* bound on what the user does

VARIABLES
    server,         \* index of the state the server is in
    clicks          \* how often the user has acted

Sources == 1 .. NumSources

\* What a source shows: observed_at_ms (0 without a snapshot), the
\* classification revision, and the result of every transaction present (0
\* while it is unclassified).  It does not go back.
Follows(a, b) ==
    \/ a.observed < b.observed
    \/ a.observed = b.observed /\ a.revision < b.revision
    \/ a = b

Versions == 1 .. Len(Published)

ASSUME BrowserAssumption ==
    /\ NumSources \in Nat \ {0} /\ MaxClicks \in Nat
    /\ None \notin Nat /\ None \notin Txids
    /\ Len(Published) \in Nat \ {0} /\ DOMAIN Published = Versions
    /\ \A v \in Versions : DOMAIN Published[v] = Sources
    /\ \A v \in Versions, s \in Sources :
          /\ Published[v][s].observed \in Nat /\ Published[v][s].revision \in Nat
          /\ DOMAIN Published[v][s].results \subseteq Txids
          /\ \A w \in Versions : v < w => Follows(Published[v][s], Published[w][s])

-----------------------------------------------------------------------------
(* Snapshots and details *)

\* A snapshot is what a source showed when the request for it was served.
Snapshot(s, v) == [source |-> s, version |-> v]

StateOf(snapshot) == Published[snapshot.version][snapshot.source]
Loaded(s, v) == Published[v][s].observed # 0
Results(snapshot) == StateOf(snapshot).results
Holds(snapshot, txid) == txid \in DOMAIN Results(snapshot)

\* transaction_detail: 503 without a snapshot or a classification, 404 for a
\* transaction that is not present.
Failure == 0
DetailAnswer(s, v, txid) ==
    IF Loaded(s, v) /\ Holds(Snapshot(s, v), txid) /\ Results(Snapshot(s, v))[txid] # 0
    THEN v
    ELSE Failure

\* transactionDetailMatchesSnapshot: a later revision will do if its result
\* is the one the snapshot shows.
MatchesSnapshot(snapshot, txid, v) ==
    LET shown == StateOf(snapshot)
        detail == Published[v][snapshot.source]
    IN  /\ detail.observed = shown.observed
        /\ \/ detail.revision = shown.revision
           \/ /\ detail.revision > shown.revision
              /\ detail.results[txid] = shown.results[txid]

-----------------------------------------------------------------------------
(* RequestLifecycle: beginning or invalidating makes every older ticket     *)
(* stale, and aborts its request.                                           *)

Invalidated(generation) == generation + 1

\* Mutant: no ticket is ever stale.
AlwaysCurrent(generation, ticket) == TRUE

IsCurrent(generation, ticket) == ticket = generation

\* A request under way has no answer until the server serves it, with the
\* state it has at that moment.  Served or not, it may be rejected: by an error
\* of the network, or because it was aborted.
Unanswered == None

\* The detail section of a page: what it says, of which transaction, and the
\* details rendered.
Panel(says, txid, detail) == [says |-> says, txid |-> txid, detail |-> detail]

-----------------------------------------------------------------------------
(* The server and the user *)

\* Memberships or classification updates are published.
Publish == server < Len(Published) /\ server' = server + 1 /\ UNCHANGED clicks

Click == clicks < MaxClicks /\ clicks' = clicks + 1 /\ UNCHANGED server
Network == UNCHANGED <<server, clicks>>
=============================================================================
