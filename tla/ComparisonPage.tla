--------------------------- MODULE ComparisonPage ---------------------------
(***************************************************************************)
(* The comparison of two sources, src/web/src/comparison-main.ts: the pair *)
(* chosen, the two snapshots compared and the details of one transaction   *)
(* in both.  Discovery of the sources, loads of a pair and details are     *)
(* requests of their own kinds, each with its own tickets; activeLoads     *)
(* counts the first two.  As in NodePage a handler is a function on the    *)
(* page.                                                                   *)
(***************************************************************************)
EXTENDS BrowserRequests

VARIABLE pair       \* the page, None while it is not open

Sides == {"left", "right"}

\* Two different sources, on the left and on the right.
Pairs == {c \in [Sides -> Sources] : c["left"] # c["right"]}
NoPair == [side \in Sides |-> None]
Complete(sources) == \A side \in Sides : sources[side] # None

\* The snapshot of one side.
Side(comparison, side) ==
    Snapshot(comparison.sources[side], comparison.versions[side])

\* What the page compares: CurrentComparison, which is not null.
Comparisons == [id : Nat, sources : [Sides -> Sources], versions : [Sides -> Versions]]

ASSUME ComparisonAssumption == None \notin Comparisons

HasTransaction(comparison, txid) ==
    \E side \in Sides : Holds(Side(comparison, side), txid)

-----------------------------------------------------------------------------
(* The detail section; chosen is selectedTransactionId *)

\* clearDetailPanel: the requests of an older sequence are aborted.
ClearDetailPanel(p, says) ==
    [p EXCEPT !.sequence = @ + 1, !.panel = Panel(says, None, None)]

PreparePendingView(p, txid) ==
    ClearDetailPanel([p EXCEPT !.chosen = txid],
                     IF txid = None THEN "choose" ELSE "waiting")

ResetComparisonView(p) ==
    ClearDetailPanel([p EXCEPT !.comparison = None, !.chosen = None], "choose")

\* detailForSide asks only for a transaction that is present and classified.
AskedSides(comparison, txid) ==
    {side \in Sides : /\ Holds(Side(comparison, side), txid)
                      /\ Results(Side(comparison, side))[txid] # 0}

LoadSelectedDetail(p, txid) ==
    [p EXCEPT !.sequence = @ + 1, !.panel = Panel("loading", None, None),
              !.details = @ \cup
                  {[sequence |-> p.sequence + 1, comparison |-> p.comparison,
                    txid |-> txid,
                    answers |-> [side \in AskedSides(p.comparison, txid) |->
                                   Unanswered]]}]

\* applyResolvedLoadedView, and the request for the details of what it found.
ApplyLoadedView(p, txid) ==
    LET view(says) == ClearDetailPanel([p EXCEPT !.chosen = txid], says)
    IN  IF txid = None THEN view("choose")
        ELSE IF HasTransaction(p.comparison, txid)
        THEN LoadSelectedDetail(view("loading"), txid)
        ELSE view("absent")

\* A detail that does not match the snapshot is an error of its side.
Outcome(comparison, side, txid, v) ==
    IF v # Failure /\ MatchesSnapshot(Side(comparison, side), txid, v) THEN v ELSE Failure

DetailsArrive(p, d) ==
    LET rest == [p EXCEPT !.details = @ \ {d}]
    IN  IF d.sequence = p.sequence /\ p.comparison = d.comparison /\ p.chosen = d.txid
        THEN [rest EXCEPT !.panel = Panel("shown", d.txid,
                [side \in DOMAIN d.answers |->
                   Outcome(d.comparison, side, d.txid, d.answers[side])])]
        ELSE rest

-----------------------------------------------------------------------------
(* Loads and discoveries *)

Started(p) == [p EXCEPT !.active = @ + 1, !.refresh = FALSE]

\* The finally of loadComparison and of discoverSources.
Ended(p, count) ==
    [p EXCEPT !.active = @ - count, !.refresh = @ \/ p.active = count]

\* A load that discoverSources waits for ends both.
LoadComparison(p, changed, txid, nested) ==
    LET begun == [Started(p) EXCEPT
                    !.generation = Invalidated(@),
                    !.loads = @ \cup {[ticket |-> Invalidated(p.generation),
                                       sources |-> p.sources, nested |-> nested,
                                       answers |-> [side \in Sides |-> Unanswered]]}]
    IN  IF changed THEN PreparePendingView(ResetComparisonView(begun), txid) ELSE begun

LoadCounts(l) == IF l.nested THEN 2 ELSE 1

\* currentSelectionMatches
SelectionMatches(p, l) == IsCurrent(p.generation, l.ticket) /\ p.sources = l.sources

\* Mutant: a load that is not wanted any more is not counted down.
EndedIfWanted(p, l) ==
    Ended([p EXCEPT !.loads = @ \ {l}],
          IF SelectionMatches(p, l) THEN LoadCounts(l) ELSE 0)

LoadEnded(p, l) == Ended([p EXCEPT !.loads = @ \ {l}], LoadCounts(l))

\* The previous comparison of the pair stays, if there is one.
ComparisonFails(p, l) ==
    LoadEnded(IF SelectionMatches(p, l) /\ p.comparison = None
              THEN PreparePendingView(ResetComparisonView(p), p.chosen) ELSE p, l)

\* compareCurrentSnapshots of the two responses; requireLoadedSnapshot throws.
ComparisonArrives(p, l) ==
    LET next == [id |-> l.ticket, sources |-> l.sources, versions |-> l.answers]
    IN  IF ~ SelectionMatches(p, l) THEN LoadEnded(p, l)
        ELSE IF \A side \in Sides : Loaded(l.sources[side], l.answers[side])
        THEN LoadEnded(ApplyLoadedView([p EXCEPT !.comparison = next], p.chosen), l)
        ELSE ComparisonFails(p, l)

FirstOf(S) == IF S = {} THEN None ELSE CHOOSE s \in S : \A t \in S : s <= t

\* chooseInitialSources: the pair the address asks for, or the present one, or
\* the first two sources that have a snapshot.
ChooseInitialSources(p, available) ==
    LET known == {c \in {p.requested, p.sources} :
                    \A side \in Sides : c[side] \in available}
        left == FirstOf(available)
    IN  IF p.requested \in known THEN p.requested
        ELSE IF p.sources \in known THEN p.sources
        ELSE [side \in Sides |-> IF side = "left" THEN left
                                 ELSE FirstOf(available \ {left})]

\* discoverSources up to its await.
DiscoverSources(p) ==
    [Started(p) EXCEPT !.generation = Invalidated(@), !.discovery = Invalidated(@),
                       !.discoveries = @ \cup {[ticket |-> Invalidated(p.discovery),
                                                answer |-> Unanswered]}]

\* The code after it, for the pair chosen.
PairDiscovered(p, sources) ==
    IF ~ Complete(sources)
    THEN Ended(ResetComparisonView([p EXCEPT !.sources = sources, !.requested = NoPair,
                                             !.generation = Invalidated(@)]), 1)
    ELSE LoadComparison(
            [p EXCEPT !.sources = sources, !.requested = NoPair],
            p.comparison = None \/ p.comparison.sources # sources,
            IF Complete(p.sources) /\ p.sources # sources THEN None ELSE p.chosen,
            TRUE)

DiscoveryArrives(p, d) ==
    LET rest == [p EXCEPT !.discoveries = @ \ {d}]
    IN  IF IsCurrent(p.discovery, d.ticket)
        THEN PairDiscovered([rest EXCEPT !.known = d.answer],
                            ChooseInitialSources(p, d.answer))
        ELSE Ended(rest, 1)

DiscoveryFails(p, d) ==
    Ended([p EXCEPT !.discoveries = @ \ {d},
                    !.generation = IF IsCurrent(p.discovery, d.ticket)
                                   THEN Invalidated(@) ELSE @], 1)

\* The page as it is opened: it discovers the sources at once.
PairOpened(requested, txid) ==
    DiscoverSources(PreparePendingView(
        [sources     |-> NoPair,    \* leftSourceId, rightSourceId
         requested   |-> requested, \* the pair of initialViewState
         known       |-> {},        \* configuredSources with a snapshot
         comparison  |-> None,
         generation  |-> 0,         \* of lifecycle
         discovery   |-> 0,         \* of discoveryLifecycle
         loads       |-> {},
         discoveries |-> {},
         active      |-> 0,         \* activeLoads
         refresh     |-> FALSE,
         chosen      |-> None,
         sequence    |-> 0,
         details     |-> {},
         panel       |-> Panel("choose", None, None)], txid))

-----------------------------------------------------------------------------
(* What the user does *)

PairShown == pair # None

\* selectionChanged and the swap button: the pair becomes this one.
WithPair(p, sources) ==
    LoadComparison([p EXCEPT !.discovery = Invalidated(@),
                             !.generation = Invalidated(@),
                             !.sources = sources],
                   TRUE, None, FALSE)

\* The options of a select are the sources with a snapshot, but for that of
\* the other side.
SelectionChanged ==
    /\ PairShown /\ Click
    /\ \E side \in Sides, s \in pair.known :
          /\ \A other \in Sides : pair.sources[other] # s
          /\ Complete([pair.sources EXCEPT ![side] = s])
          /\ pair' = WithPair(pair, [pair.sources EXCEPT ![side] = s])

SwapSources ==
    /\ PairShown /\ Click
    /\ Complete(pair.sources)
    /\ pair' = WithPair(pair, [side \in Sides |->
                  pair.sources[CHOOSE other \in Sides : other # side]])

RefreshComparison ==
    /\ PairShown /\ Click
    /\ pair.refresh
    /\ pair' = DiscoverSources(pair)

\* transitionComparisonView: a search, a sample, a region or a filter.
TransitionView ==
    /\ PairShown /\ Click
    /\ \E txid \in Txids \cup {None} :
          pair' = IF pair.comparison = None THEN PreparePendingView(pair, txid)
                  ELSE ApplyLoadedView(pair, txid)

-----------------------------------------------------------------------------
(* What becomes of the requests *)

DiscoveryServed ==
    /\ PairShown /\ Network
    /\ \E d \in pair.discoveries :
          /\ d.answer = Unanswered
          /\ pair' = [pair EXCEPT !.discoveries = (@ \ {d}) \cup
                {[d EXCEPT !.answer = {s \in Sources : Loaded(s, server)}]}]

DiscoveryEnds ==
    /\ PairShown /\ Network
    /\ \E d \in pair.discoveries :
          \/ d.answer # Unanswered /\ pair' = DiscoveryArrives(pair, d)
          \/ pair' = DiscoveryFails(pair, d)

\* The two snapshots of a load are requests of their own.
SnapshotServed ==
    /\ PairShown /\ Network
    /\ \E l \in pair.loads, side \in Sides :
          /\ l.answers[side] = Unanswered
          /\ pair' = [pair EXCEPT !.loads = (@ \ {l}) \cup
                {[l EXCEPT !.answers[side] = server]}]

\* Promise.all: both have arrived, or one has failed.
ComparisonEnds ==
    /\ PairShown /\ Network
    /\ \E l \in pair.loads :
          \/ /\ \A side \in Sides : l.answers[side] # Unanswered
             /\ pair' = ComparisonArrives(pair, l)
          \/ pair' = ComparisonFails(pair, l)

\* A side that fails is an outcome of its own.
SideServed ==
    /\ PairShown /\ Network
    /\ \E d \in pair.details : \E side \in DOMAIN d.answers :
          /\ d.answers[side] = Unanswered
          /\ \E v \in {Failure, DetailAnswer(d.comparison.sources[side], server, d.txid)} :
                pair' = [pair EXCEPT !.details = (@ \ {d}) \cup
                            {[d EXCEPT !.answers[side] = v]}]

\* Both sides are known, or the request was aborted.
DetailsEnd ==
    /\ PairShown /\ Network
    /\ \E d \in pair.details :
          \/ /\ \A side \in DOMAIN d.answers : d.answers[side] # Unanswered
             /\ pair' = DetailsArrive(pair, d)
          \/ /\ d.sequence # pair.sequence
             /\ pair' = [pair EXCEPT !.details = @ \ {d}]

PairUser == SelectionChanged \/ SwapSources \/ RefreshComparison \/ TransitionView
PairNetwork ==
    DiscoveryServed \/ DiscoveryEnds \/ SnapshotServed \/ ComparisonEnds
      \/ SideServed \/ DetailsEnd
=============================================================================
