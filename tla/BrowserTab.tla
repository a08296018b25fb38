----------------------------- MODULE BrowserTab -----------------------------
(***************************************************************************)
(* A tab of the browser with one of the two pages, opened with any address,*)
(* against a server whose sources go on publishing.                        *)
(***************************************************************************)
EXTENDS NodePage, ComparisonPage

CONSTANT Addresses      \* a pair and a transaction that the address names

ASSUME AddressAssumption ==
    \A a \in Addresses : a.pair \in Pairs \cup {NoPair} /\ a.txid \in Txids \cup {None}

vars == <<server, clicks, node, pair>>

Init ==
    /\ server = 1
    /\ clicks = 0
    /\ \E a \in Addresses :
          \/ node = NodeOpened(a.txid) /\ pair = None
          \/ node = None /\ pair = PairOpened(a.pair, a.txid)

UserSteps == (NodeUser /\ UNCHANGED pair) \/ (PairUser /\ UNCHANGED node)
NetworkSteps == (NodeNetwork /\ UNCHANGED pair) \/ (PairNetwork /\ UNCHANGED node)
ServerSteps == Publish /\ UNCHANGED <<node, pair>>

Next == UserSteps \/ NetworkSteps \/ ServerSteps

\* A browser resolves or rejects every fetch in the end.
Spec == Init /\ [][Next]_vars /\ WF_vars(NetworkSteps)

-----------------------------------------------------------------------------
(* Properties *)

\* What a page shows is of the sources its selects show: changing the source
\* or the pair leaves nothing of the previous one, and no late answer brings
\* it back.  A detail on the screen is of the transaction chosen, and its result
\* is the one the snapshot beside it shows, for every side of a comparison.
ViewIsCoherent ==
    /\ Shown => (node.snapshot # None => node.snapshot.source = node.selected)
    /\ PairShown => (pair.comparison # None => pair.comparison.sources = pair.sources)
    /\ Shown /\ node.panel.says = "shown" =>
          /\ node.snapshot # None /\ node.chosen = node.panel.txid
          /\ StateOf(Snapshot(node.snapshot.source, node.panel.detail)).results[node.chosen]
                = Results(node.snapshot)[node.chosen]
    /\ PairShown /\ pair.panel.says = "shown" =>
          /\ pair.comparison # None /\ pair.chosen = pair.panel.txid
          /\ \A side \in DOMAIN pair.panel.detail :
                pair.panel.detail[side] # Failure =>
                  StateOf(Snapshot(pair.comparison.sources[side],
                                   pair.panel.detail[side])).results[pair.chosen]
                    = Results(Side(pair.comparison, side))[pair.chosen]

\* The refresh button is enabled only when nothing is under way that could
\* still replace what is shown.
RefreshMeansIdle ==
    /\ Shown /\ node.refresh =>
          ~ node.discovering /\ \A l \in node.loads : ~ IsCurrent(node.generation, l.ticket)
    /\ PairShown /\ pair.refresh => pair.loads = {} /\ pair.discoveries = {}

\* A snapshot is never replaced by an older one of the same source, in
\* whatever order the answers come.
NeverOlder ==
    [][ /\ Shown /\ node.snapshot # None /\ node'.snapshot # None
             /\ node'.snapshot.source = node.snapshot.source
          => node'.snapshot.version >= node.snapshot.version
        /\ \A side \in Sides :
             PairShown /\ pair.comparison # None /\ pair'.comparison # None
               /\ pair'.comparison.sources[side] = pair.comparison.sources[side]
             => pair'.comparison.versions[side] >= pair.comparison.versions[side] ]_vars

Loading ==
    \/ Shown /\ node.panel.says = "loading"
    \/ PairShown /\ pair.panel.says = "loading"

CanRefresh == (Shown /\ node.refresh) \/ (PairShown /\ pair.refresh)

\* A page comes to rest: "Loading" is never the last word of the detail section,
\* an answer that is not wanted any more has left it to a later one; and the
\* refresh button comes back once the requests have ended.
PageSettles == (Loading ~> ~ Loading) /\ (~ CanRefresh ~> CanRefresh)
=============================================================================
