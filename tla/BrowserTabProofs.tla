-------------------------- MODULE BrowserTabProofs --------------------------
(***************************************************************************)
(* Proofs about the pages of BrowserTab, for every sequence of published   *)
(* states, every number of sources and every number of clicks: what a page *)
(* shows is coherent, its refresh button means that nothing is under way,  *)
(* and a snapshot is never replaced by an older one.                       *)
(*                                                                         *)
(* The handlers are functions on a page, so the invariant is a predicate   *)
(* NodeGood(p, v) or PairGood(p, v) on a page p while the server is in its *)
(* state v, and a lemma about a handler says what it does to the fields.   *)
(***************************************************************************)
EXTENDS BrowserTab, Integers, FiniteSetTheorems, WellFoundedInduction, TLAPS

-----------------------------------------------------------------------------
(* The page of one node *)

Snapshots == [source : Sources, version : Versions]

NodeLoads == [ticket : Nat, source : Sources, answer : Versions \cup {None}]

NodeDetails ==
    [sequence : Nat, txid : Txids, snapshot : Snapshots,
     answer : Versions \cup {Failure, None}]

NodeSays == {"choose", "no snapshot", "absent", "loading", "shown", "unavailable"}

NodePanels == [says : NodeSays, txid : Txids \cup {None}, detail : Versions \cup {None}]

NodePages ==
    [selected : Sources \cup {None}, snapshot : Snapshots \cup {None},
     generation : Nat, loads : SUBSET NodeLoads,
     addressed : Txids \cup {None}, chosen : Txids \cup {None},
     sequence : Nat, details : SUBSET NodeDetails,
     panel : NodePanels,
     discovering : BOOLEAN, refresh : BOOLEAN]

\* The sources are discovered once, before anything is loaded, and what is
\* shown is of the source selected.
NodeSelection(p) ==
    /\ p.selected = None => p.loads = {} /\ p.snapshot = None
    /\ p.discovering => p.selected = None
    /\ p.snapshot # None => p.snapshot.source = p.selected

\* A ticket belongs to one load.
NodeTickets(p) ==
    /\ \A l \in p.loads : l.ticket <= p.generation
    /\ \A k, l \in p.loads : k.ticket = l.ticket => k = l

\* The button waits for the current load.
NodeButton(p) ==
    p.refresh => ~ p.discovering /\ \A l \in p.loads : ~ IsCurrent(p.generation, l.ticket)

\* The current load was asked for after the snapshot on the screen was served.
NodeOrder(p, v) ==
    /\ p.snapshot # None => p.snapshot.version <= v
    /\ \A l \in p.loads : l.answer # None => l.answer <= v
    /\ \A l \in p.loads :
          IsCurrent(p.generation, l.ticket) /\ l.answer # None /\ p.snapshot # None
            => p.snapshot.version <= l.answer

\* A detail request of the current sequence is about what is on the screen.
NodeSequenced(p) == \A d \in p.details : d.sequence <= p.sequence
NodeCurrentDetails(p) ==
    \A d \in p.details :
        d.sequence = p.sequence => d.snapshot = p.snapshot /\ d.txid = p.chosen

\* The second part of ViewIsCoherent, of a page.
NodeDetailMatches(p) ==
    p.panel.says = "shown" =>
        /\ p.snapshot # None /\ p.chosen = p.panel.txid
        /\ StateOf(Snapshot(p.snapshot.source, p.panel.detail)).results[p.chosen]
              = Results(p.snapshot)[p.chosen]

NodeGood(p, v) ==
    /\ p \in NodePages
    /\ NodeSelection(p)
    /\ NodeTickets(p)
    /\ NodeButton(p)
    /\ NodeOrder(p, v)
    /\ NodeSequenced(p)
    /\ NodeCurrentDetails(p)
    /\ NodeDetailMatches(p)

\* What NeverOlder says of a step of the page.
NodeNotOlder(p, q) ==
    p.snapshot # None /\ q.snapshot # None /\ q.snapshot.source = p.snapshot.source
        => q.snapshot.version >= p.snapshot.version

-----------------------------------------------------------------------------
(* Lemmas about the states the server goes through *)

\* Two states of a source with the same observation and revision are the same
\* state.
LEMMA SameStamp ==
    ASSUME NEW v \in Versions, NEW w \in Versions, NEW s \in Sources,
           Published[v][s].observed = Published[w][s].observed,
           Published[v][s].revision = Published[w][s].revision
    PROVE  Published[v][s] = Published[w][s]
<1>1. CASE v < w
  BY <1>1, BrowserAssumption DEF Follows
<1>2. CASE w < v
  BY <1>2, BrowserAssumption DEF Follows
<1>3. CASE v = w
  BY <1>3
<1>4. v \in Nat /\ w \in Nat
  BY BrowserAssumption DEF Versions
<1> QED
  BY <1>1, <1>2, <1>3, <1>4

\* A detail that transactionDetailMatchesSnapshot accepts has the result that
\* the snapshot shows.
LEMMA MatchGivesResult ==
    ASSUME NEW s \in Snapshots, NEW txid \in Txids, NEW v \in Versions,
           MatchesSnapshot(s, txid, v)
    PROVE  StateOf(Snapshot(s.source, v)).results[txid] = Results(s)[txid]
<1>1. s.source \in Sources /\ s.version \in Versions
  BY DEF Snapshots
<1>2. CASE Published[v][s.source].revision = Published[s.version][s.source].revision
  <2>1. Published[v][s.source] = Published[s.version][s.source]
    BY <1>1, <1>2, SameStamp DEF MatchesSnapshot, StateOf
  <2> QED
    BY <2>1 DEF StateOf, Snapshot, Results
<1>3. CASE Published[v][s.source].revision # Published[s.version][s.source].revision
  BY <1>3 DEF MatchesSnapshot, StateOf, Snapshot, Results
<1> QED
  BY <1>2, <1>3

\* A snapshot served to a page is one of the published states.
LEMMA SnapshotTyped ==
    ASSUME NEW s \in Sources, NEW v \in Versions
    PROVE  Snapshot(s, v) \in Snapshots
  BY DEF Snapshot, Snapshots

-----------------------------------------------------------------------------
(* The detail section of the page of one node *)

\* A panel is of its type.
LEMMA NodePanelTyped ==
    ASSUME NEW says \in NodeSays, NEW txid \in Txids \cup {None},
           NEW detail \in Versions \cup {None}
    PROVE  Panel(says, txid, detail) \in NodePanels
  BY DEF Panel, NodePanels

\* What clearing or refilling the detail section does: the loads are left
\* alone, nothing is shown, and the requests of the new sequence, if any, are
\* about what is on the screen.
NodeReset(p, q) ==
    /\ q \in NodePages
    /\ q.selected = p.selected /\ q.generation = p.generation /\ q.loads = p.loads
    /\ q.discovering = p.discovering /\ q.refresh = p.refresh
    /\ q.panel.says # "shown"
    /\ NodeSequenced(q) /\ NodeCurrentDetails(q)

\* ClearDetail resets the section and leaves the snapshot.
LEMMA ClearDetailResets ==
    ASSUME NEW p \in NodePages, NEW says \in NodeSays, says # "shown", NodeSequenced(p)
    PROVE  /\ NodeReset(p, ClearDetail(p, says))
           /\ ClearDetail(p, says).snapshot = p.snapshot
           /\ ClearDetail(p, says).addressed = p.addressed
<1> DEFINE q == ClearDetail(p, says)
<1>0. Panel(says, None, None) \in NodePanels
  BY NodePanelTyped
<1>6. p.sequence \in Nat /\ p.sequence + 1 \in Nat
  BY DEF NodePages
<1>1. q \in NodePages
  BY <1>0, <1>6, Zenon DEF NodePages, ClearDetail
<1>2. /\ q.selected = p.selected /\ q.generation = p.generation /\ q.loads = p.loads
      /\ q.snapshot = p.snapshot /\ q.addressed = p.addressed
      /\ q.details = p.details /\ q.sequence = p.sequence + 1
  BY DEF NodePages, ClearDetail
<1>3. q.discovering = p.discovering /\ q.refresh = p.refresh
  BY Zenon DEF NodePages, ClearDetail
<1>4. q.panel.says # "shown"
  BY DEF NodePages, ClearDetail, Panel
<1>5. \A d \in p.details : d.sequence \in Nat /\ d.sequence <= p.sequence
  BY DEF NodePages, NodeDetails, NodeSequenced
<1> HIDE DEF q
<1>7. NodeSequenced(q) /\ NodeCurrentDetails(q)
  BY <1>2, <1>5, <1>6 DEF NodeSequenced, NodeCurrentDetails
<1>8. NodeReset(p, q)
  BY <1>1, <1>2, <1>3, <1>4, <1>7 DEF NodeReset
<1> QED
  BY <1>2, <1>8 DEF q

\* ShowAbsentTransaction likewise.
LEMMA ShowAbsentResets ==
    ASSUME NEW p \in NodePages, NEW txid \in Txids, NodeSequenced(p)
    PROVE  /\ NodeReset(p, ShowAbsentTransaction(p, txid))
           /\ ShowAbsentTransaction(p, txid).snapshot = p.snapshot
<1> DEFINE q == ShowAbsentTransaction(p, txid)
<1>0. Panel("absent", txid, None) \in NodePanels
  BY NodePanelTyped DEF NodeSays
<1>6. p.sequence \in Nat /\ p.sequence + 1 \in Nat
  BY DEF NodePages
<1>1. q \in NodePages
  BY <1>0, <1>6, Zenon DEF NodePages, ShowAbsentTransaction
<1>2. /\ q.selected = p.selected /\ q.generation = p.generation /\ q.loads = p.loads
      /\ q.snapshot = p.snapshot
      /\ q.details = p.details /\ q.sequence = p.sequence + 1
  BY DEF NodePages, ShowAbsentTransaction
<1>3. q.discovering = p.discovering /\ q.refresh = p.refresh
  BY Zenon DEF NodePages, ShowAbsentTransaction
<1>4. q.panel.says # "shown"
  BY DEF NodePages, ShowAbsentTransaction, Panel
<1>5. \A d \in p.details : d.sequence \in Nat /\ d.sequence <= p.sequence
  BY DEF NodePages, NodeDetails, NodeSequenced
<1> HIDE DEF q
<1>7. NodeSequenced(q) /\ NodeCurrentDetails(q)
  BY <1>2, <1>5, <1>6 DEF NodeSequenced, NodeCurrentDetails
<1>8. NodeReset(p, q)
  BY <1>1, <1>2, <1>3, <1>4, <1>7 DEF NodeReset
<1> QED
  BY <1>2, <1>8 DEF q

\* loadTransactionDetail asks for the chosen transaction of the snapshot shown.
LEMMA LoadDetailResets ==
    ASSUME NEW p \in NodePages, NEW txid \in Txids, NodeSequenced(p), p.snapshot \in Snapshots
    PROVE  /\ NodeReset(p, LoadTransactionDetail(p, txid))
           /\ LoadTransactionDetail(p, txid).snapshot = p.snapshot
<1> DEFINE q == LoadTransactionDetail(p, txid)
           d == [sequence |-> p.sequence + 1, txid |-> txid,
                 snapshot |-> p.snapshot, answer |-> None]
<1>1. d \in NodeDetails
  BY DEF NodeDetails, NodePages
<1>2. d.sequence = p.sequence + 1 /\ d.txid = txid /\ d.snapshot = p.snapshot
  OBVIOUS
<1>3. q = [p EXCEPT !.sequence = p.sequence + 1, !.chosen = txid, !.addressed = txid,
                    !.panel = Panel("loading", txid, None),
                    !.details = p.details \cup {d}]
  BY DEF LoadTransactionDetail, NodePages, Unanswered
<1> HIDE DEF d, q
<1>0. Panel("loading", txid, None) \in NodePanels
  BY NodePanelTyped DEF NodeSays
<1>9. p.sequence \in Nat /\ p.sequence + 1 \in Nat /\ p.details \cup {d} \in SUBSET NodeDetails
  BY <1>1 DEF NodePages
<1>4. q \in NodePages
  BY <1>0, <1>3, <1>9, Zenon DEF NodePages
<1>5. /\ q.selected = p.selected /\ q.generation = p.generation /\ q.loads = p.loads
      /\ q.snapshot = p.snapshot /\ q.chosen = txid
      /\ q.details = p.details \cup {d} /\ q.sequence = p.sequence + 1
  BY <1>3 DEF NodePages
<1>6. q.discovering = p.discovering /\ q.refresh = p.refresh
  BY <1>3, Zenon DEF NodePages
<1>7. q.panel.says # "shown"
  BY <1>3 DEF NodePages, Panel
<1>8. \A e \in p.details : e.sequence \in Nat /\ e.sequence <= p.sequence
  BY DEF NodePages, NodeDetails, NodeSequenced
<1>10. NodeSequenced(q) /\ NodeCurrentDetails(q)
  BY <1>2, <1>5, <1>8, <1>9 DEF NodeSequenced, NodeCurrentDetails
<1>11. NodeReset(p, q)
  BY <1>4, <1>5, <1>6, <1>7, <1>10 DEF NodeReset
<1> QED
  BY <1>5, <1>11 DEF q

\* A snapshot of another version is put on the page.
LEMMA WithSnapshot ==
    ASSUME NEW p \in NodePages, NEW s \in Snapshots \cup {None}
    PROVE  LET q == [p EXCEPT !.snapshot = s]
           IN  /\ q \in NodePages
               /\ q.snapshot = s /\ q.selected = p.selected /\ q.generation = p.generation
               /\ q.loads = p.loads /\ q.sequence = p.sequence /\ q.details = p.details
               /\ q.addressed = p.addressed
               /\ q.discovering = p.discovering /\ q.refresh = p.refresh
<1> DEFINE q == [p EXCEPT !.snapshot = s]
<1>1. q \in NodePages
  BY Zenon DEF NodePages
<1>2. /\ q.snapshot = s /\ q.selected = p.selected /\ q.generation = p.generation
      /\ q.loads = p.loads /\ q.sequence = p.sequence /\ q.details = p.details
      /\ q.addressed = p.addressed
  BY DEF NodePages
<1>3. q.discovering = p.discovering /\ q.refresh = p.refresh
  BY Zenon DEF NodePages
<1> QED
  BY <1>1, <1>2, <1>3, Zenon

\* Two resets in a row are one.
LEMMA ResetAfterReset ==
    ASSUME NEW p, NEW q, NEW r, NodeReset(p, q), NodeReset(q, r)
    PROVE  NodeReset(p, r)
  BY Zenon DEF NodeReset

\* renderResponse shows the snapshot served, if the source has one, and starts
\* the detail section over.
LEMMA RenderResets ==
    ASSUME NEW p \in NodePages, NEW s \in Sources, NEW v \in Versions, NodeSequenced(p)
    PROVE  /\ NodeReset(p, RenderResponse(p, s, v))
           /\ RenderResponse(p, s, v).snapshot \in {None, Snapshot(s, v)}
<1> DEFINE bare == [p EXCEPT !.snapshot = None]
           with == [p EXCEPT !.snapshot = Snapshot(s, v)]
           shown == ClearDetail(with, "choose")
           says == IF p.addressed = None THEN "choose" ELSE "no snapshot"
<1>1. Snapshot(s, v) \in Snapshots
  BY SnapshotTyped
<1>2. says \in NodeSays /\ says # "shown"
  BY DEF NodeSays
<1>3. CASE ~ Loaded(s, v)
  <2>1. RenderResponse(p, s, v) = ClearDetail(bare, says)
    BY <1>3, Zenon DEF RenderResponse
  <2>2. /\ bare \in NodePages
        /\ bare.snapshot = None /\ bare.selected = p.selected
        /\ bare.generation = p.generation /\ bare.loads = p.loads
        /\ bare.sequence = p.sequence /\ bare.details = p.details
        /\ bare.discovering = p.discovering /\ bare.refresh = p.refresh
    BY WithSnapshot, Zenon
  <2> HIDE DEF bare, says
  <2>3. NodeSequenced(bare)
    BY <2>2 DEF NodeSequenced
  <2>4. NodeReset(bare, ClearDetail(bare, says)) /\ ClearDetail(bare, says).snapshot = None
    BY <1>2, <2>2, <2>3, ClearDetailResets
  <2>5. NodeReset(p, ClearDetail(bare, says))
    BY <2>2, <2>4, Zenon DEF NodeReset
  <2> QED
    BY <2>1, <2>4, <2>5
<1>4. CASE Loaded(s, v)
  <2>1. /\ with \in NodePages
        /\ with.snapshot = Snapshot(s, v) /\ with.selected = p.selected
        /\ with.generation = p.generation /\ with.loads = p.loads
        /\ with.sequence = p.sequence /\ with.details = p.details
        /\ with.addressed = p.addressed
        /\ with.discovering = p.discovering /\ with.refresh = p.refresh
    BY <1>1, WithSnapshot, Zenon
  <2>2. RenderResponse(p, s, v) =
          IF p.addressed = None THEN shown
          ELSE IF Holds(shown.snapshot, p.addressed)
          THEN LoadTransactionDetail(shown, p.addressed)
          ELSE ShowAbsentTransaction(shown, p.addressed)
    BY <1>4, Zenon DEF RenderResponse
  <2> HIDE DEF with
  <2>3. NodeSequenced(with)
    BY <2>1 DEF NodeSequenced
  <2>4. "choose" \in NodeSays /\ "choose" # "shown"
    BY DEF NodeSays
  <2>5. NodeReset(with, shown) /\ shown.snapshot = Snapshot(s, v)
    BY <2>1, <2>3, <2>4, ClearDetailResets
  <2>6. NodeReset(p, shown)
    BY <2>1, <2>5, Zenon DEF NodeReset
  <2>7. shown \in NodePages /\ NodeSequenced(shown)
    BY <2>5 DEF NodeReset
  <2> HIDE DEF shown
  <2>8. p.addressed \in Txids \cup {None}
    BY DEF NodePages
  <2>10. CASE p.addressed = None
    BY <2>2, <2>5, <2>6, <2>10
  <2>11. CASE p.addressed # None /\ Holds(shown.snapshot, p.addressed)
    <3>1. RenderResponse(p, s, v) = LoadTransactionDetail(shown, p.addressed)
      BY <2>2, <2>11, Zenon
    <3>2. /\ NodeReset(shown, LoadTransactionDetail(shown, p.addressed))
          /\ LoadTransactionDetail(shown, p.addressed).snapshot = Snapshot(s, v)
      BY <1>1, <2>5, <2>7, <2>8, <2>11, LoadDetailResets
    <3> QED
      BY <2>6, <3>1, <3>2, ResetAfterReset
  <2>12. CASE p.addressed # None /\ ~ Holds(shown.snapshot, p.addressed)
    <3>1. RenderResponse(p, s, v) = ShowAbsentTransaction(shown, p.addressed)
      BY <2>2, <2>12, Zenon
    <3>2. /\ NodeReset(shown, ShowAbsentTransaction(shown, p.addressed))
          /\ ShowAbsentTransaction(shown, p.addressed).snapshot = Snapshot(s, v)
      BY <2>5, <2>7, <2>8, <2>12, ShowAbsentResets
    <3> QED
      BY <2>6, <3>1, <3>2, ResetAfterReset
  <2> QED
    BY <2>10, <2>11, <2>12
<1> QED
  BY <1>3, <1>4

-----------------------------------------------------------------------------
(* The handlers of the page of one node keep NodeGood *)

\* A reset that shows nothing, or what was shown, or the answer of the current
\* load, keeps the page good.
LEMMA ResetKeepsGood ==
    ASSUME NEW p, NEW q, NEW v \in Versions, NodeGood(p, v), NodeReset(p, q),
           q.snapshot # None =>
               /\ q.snapshot.source = p.selected /\ q.snapshot.version <= v
               /\ \A l \in p.loads :
                     IsCurrent(p.generation, l.ticket) /\ l.answer # None
                       => q.snapshot.version <= l.answer,
           p.selected = None => q.snapshot = None
    PROVE  NodeGood(q, v)
<1>1. q \in NodePages /\ NodeSequenced(q) /\ NodeCurrentDetails(q)
  BY DEF NodeReset
<1>2. /\ q.selected = p.selected /\ q.generation = p.generation /\ q.loads = p.loads
      /\ q.discovering = p.discovering /\ q.refresh = p.refresh
  BY Zenon DEF NodeReset
<1>3. NodeSelection(q)
  BY <1>2, Zenon DEF NodeGood, NodeSelection
<1>4. NodeTickets(q)
  BY <1>2 DEF NodeGood, NodeTickets
<1>5. NodeButton(q)
  BY <1>2, Zenon DEF NodeGood, NodeButton
<1>6. NodeOrder(q, v)
  BY <1>2, Zenon DEF NodeGood, NodeOrder
<1>7. NodeDetailMatches(q)
  BY DEF NodeReset, NodeDetailMatches
<1> QED
  BY <1>1, <1>3, <1>4, <1>5, <1>6, <1>7 DEF NodeGood

\* The same when the snapshot stays.
LEMMA ResetInPlace ==
    ASSUME NEW p, NEW q, NEW v \in Versions, NodeGood(p, v), NodeReset(p, q),
           q.snapshot = p.snapshot
    PROVE  NodeGood(q, v)
<1>1. q.snapshot # None =>
          /\ q.snapshot.source = p.selected /\ q.snapshot.version <= v
          /\ \A l \in p.loads :
                IsCurrent(p.generation, l.ticket) /\ l.answer # None
                  => q.snapshot.version <= l.answer
  BY Zenon DEF NodeGood, NodeSelection, NodeOrder
<1>2. p.selected = None => q.snapshot = None
  BY Zenon DEF NodeGood, NodeSelection
<1> QED
  BY <1>1, <1>2, ResetKeepsGood

\* What the address names does not matter.
LEMMA WithAddressed ==
    ASSUME NEW p, NEW v \in Versions, NEW txid \in Txids \cup {None}, NodeGood(p, v)
    PROVE  /\ NodeGood([p EXCEPT !.addressed = txid], v)
           /\ [p EXCEPT !.addressed = txid].snapshot = p.snapshot
<1> DEFINE q == [p EXCEPT !.addressed = txid]
<1>0. p \in NodePages
  BY DEF NodeGood
<1>1. q \in NodePages
  BY <1>0, Zenon DEF NodePages
<1>2. /\ q.snapshot = p.snapshot /\ q.selected = p.selected /\ q.generation = p.generation
      /\ q.loads = p.loads /\ q.sequence = p.sequence /\ q.details = p.details
      /\ q.chosen = p.chosen /\ q.panel = p.panel
  BY <1>0 DEF NodePages
<1>3. q.discovering = p.discovering /\ q.refresh = p.refresh
  BY <1>0, Zenon DEF NodePages
<1> HIDE DEF q
<1>4. NodeSelection(q) /\ NodeButton(q)
  BY <1>2, <1>3, Zenon DEF NodeGood, NodeSelection, NodeButton
<1>5. NodeTickets(q) /\ NodeOrder(q, v) /\ NodeSequenced(q) /\ NodeCurrentDetails(q)
  BY <1>2, Zenon DEF NodeGood, NodeTickets, NodeOrder, NodeSequenced, NodeCurrentDetails
<1>6. NodeDetailMatches(q)
  BY <1>2, Zenon DEF NodeGood, NodeDetailMatches
<1> QED
  BY <1>1, <1>2, <1>4, <1>5, <1>6 DEF NodeGood, q

\* ClearDetail keeps a good page good.
LEMMA ClearDetailKeepsGood ==
    ASSUME NEW p, NEW v \in Versions, NEW says \in NodeSays, says # "shown", NodeGood(p, v)
    PROVE  NodeGood(ClearDetail(p, says), v) /\ ClearDetail(p, says).snapshot = p.snapshot
<1>1. p \in NodePages /\ NodeSequenced(p)
  BY DEF NodeGood
<1> QED
  BY <1>1, ClearDetailResets, ResetInPlace

\* clearAddressedTransaction likewise.
LEMMA ClearAddressedKeepsGood ==
    ASSUME NEW p, NEW v \in Versions, NodeGood(p, v)
    PROVE  NodeGood(ClearAddressed(p), v) /\ ClearAddressed(p).snapshot = p.snapshot
<1> DEFINE q == [p EXCEPT !.addressed = None]
<1>1. NodeGood(q, v) /\ q.snapshot = p.snapshot
  BY WithAddressed
<1>2. "choose" \in NodeSays /\ "choose" # "shown"
  BY DEF NodeSays
<1> HIDE DEF q
<1>3. NodeGood(ClearDetail(q, "choose"), v) /\ ClearDetail(q, "choose").snapshot = q.snapshot
  BY <1>1, <1>2, ClearDetailKeepsGood
<1> QED
  BY <1>1, <1>3 DEF ClearAddressed, q

\* loadSnapshot: the new ticket is later than every other.
LEMMA LoadSnapshotKeepsGood ==
    ASSUME NEW p, NEW v \in Versions, NodeGood(p, v), p.selected \in Sources
    PROVE  NodeGood(LoadSnapshot(p), v) /\ LoadSnapshot(p).snapshot = p.snapshot
<1> DEFINE q == LoadSnapshot(p)
           l == [ticket |-> p.generation + 1, source |-> p.selected, answer |-> None]
<1>0. p \in NodePages
  BY DEF NodeGood
<1>1. p.generation \in Nat /\ p.generation + 1 \in Nat /\ p.loads \in SUBSET NodeLoads
  BY <1>0 DEF NodePages
<1>2. l \in NodeLoads /\ l.ticket = p.generation + 1 /\ l.answer = None
  BY <1>1 DEF NodeLoads
<1>3. q = [p EXCEPT !.generation = p.generation + 1, !.refresh = FALSE,
                    !.loads = p.loads \cup {l}]
  BY <1>0, Zenon DEF LoadSnapshot, Invalidated, Unanswered
<1> HIDE DEF q, l
<1>4. p.loads \cup {l} \in SUBSET NodeLoads
  BY <1>1, <1>2
<1>5. q \in NodePages
  BY <1>0, <1>1, <1>3, <1>4, Zenon DEF NodePages
<1>6. /\ q.snapshot = p.snapshot /\ q.selected = p.selected
      /\ q.generation = p.generation + 1 /\ q.loads = p.loads \cup {l}
      /\ q.sequence = p.sequence /\ q.details = p.details
      /\ q.chosen = p.chosen /\ q.panel = p.panel
  BY <1>0, <1>3 DEF NodePages
<1>7. q.discovering = p.discovering /\ ~ q.refresh
  BY <1>0, <1>3, Zenon DEF NodePages
<1>8. p.selected # None
  BY BrowserAssumption DEF Sources
<1>9. NodeSelection(q)
  BY <1>6, <1>7, <1>8, Zenon DEF NodeGood, NodeSelection
<1>10. NodeButton(q)
  BY <1>7 DEF NodeButton
<1>11. \A k \in p.loads : k.ticket \in Nat /\ k.ticket <= p.generation
  BY <1>1 DEF NodeGood, NodeTickets, NodeLoads
<1>12. NodeTickets(q)
  BY <1>1, <1>2, <1>6, <1>11 DEF NodeGood, NodeTickets
<1>13. \A k \in q.loads : IsCurrent(q.generation, k.ticket) => k = l
  BY <1>1, <1>6, <1>11 DEF IsCurrent
<1>14. NodeOrder(q, v)
  BY <1>2, <1>6, <1>13, Zenon DEF NodeGood, NodeOrder
<1>15. NodeSequenced(q) /\ NodeCurrentDetails(q)
  BY <1>6, Zenon DEF NodeGood, NodeSequenced, NodeCurrentDetails
<1>16. NodeDetailMatches(q)
  BY <1>6, Zenon DEF NodeGood, NodeDetailMatches
<1> QED
  BY <1>5, <1>6, <1>9, <1>10, <1>12, <1>14, <1>15, <1>16 DEF NodeGood, q

\* The finally of loadSnapshot: the load leaves, and with it the only one that
\* could be current.
LEMMA FinishLoadKeepsGood ==
    ASSUME NEW p, NEW v \in Versions, NodeGood(p, v), NEW l \in p.loads
    PROVE  NodeGood(FinishLoad(p, l), v) /\ FinishLoad(p, l).snapshot = p.snapshot
<1> DEFINE q == FinishLoad(p, l)
<1>0. p \in NodePages
  BY DEF NodeGood
<1>1. p.loads \ {l} \in SUBSET NodeLoads
  BY <1>0 DEF NodePages
<1>2. (p.refresh \/ IsCurrent(p.generation, l.ticket)) \in BOOLEAN
  BY Zenon
<1>3. q = [p EXCEPT !.loads = p.loads \ {l},
                    !.refresh = p.refresh \/ IsCurrent(p.generation, l.ticket)]
  BY <1>0, Zenon DEF FinishLoad
<1> HIDE DEF q
<1>5. q \in NodePages
  BY <1>0, <1>1, <1>2, <1>3, Zenon DEF NodePages
<1>6. /\ q.snapshot = p.snapshot /\ q.selected = p.selected
      /\ q.generation = p.generation /\ q.loads = p.loads \ {l}
      /\ q.sequence = p.sequence /\ q.details = p.details
      /\ q.chosen = p.chosen /\ q.panel = p.panel
  BY <1>0, <1>3 DEF NodePages
<1>7. /\ q.discovering = p.discovering
      /\ q.refresh => p.refresh \/ IsCurrent(p.generation, l.ticket)
  BY <1>0, <1>3, Zenon DEF NodePages
<1>8. p.selected # None
  BY Zenon DEF NodeGood, NodeSelection
<1>9. NodeSelection(q)
  BY <1>6, <1>7, <1>8, Zenon DEF NodeGood, NodeSelection
<1>10. NodeButton(q)
  <2>1. ~ p.discovering
    BY <1>8, Zenon DEF NodeGood, NodeSelection
  <2>2. CASE p.refresh
    BY <1>6, <1>7, <2>1, <2>2, Zenon DEF NodeGood, NodeButton
  <2>3. CASE IsCurrent(p.generation, l.ticket)
    <3>1. \A k \in p.loads : IsCurrent(p.generation, k.ticket) => k = l
      BY <2>3 DEF NodeGood, NodeTickets, IsCurrent
    <3> QED
      BY <1>6, <1>7, <2>1, <3>1, Zenon DEF NodeButton
  <2> QED
    BY <1>7, <2>2, <2>3, Zenon DEF NodeButton
<1>12. NodeTickets(q)
  BY <1>6, Zenon DEF NodeGood, NodeTickets
<1>14. NodeOrder(q, v)
  BY <1>6, Zenon DEF NodeGood, NodeOrder
<1>15. NodeSequenced(q) /\ NodeCurrentDetails(q)
  BY <1>6, Zenon DEF NodeGood, NodeSequenced, NodeCurrentDetails
<1>16. NodeDetailMatches(q)
  BY <1>6, Zenon DEF NodeGood, NodeDetailMatches
<1> QED
  BY <1>5, <1>6, <1>9, <1>10, <1>12, <1>14, <1>15, <1>16 DEF NodeGood, q

-----------------------------------------------------------------------------
(* The actions of the page of one node *)

\* What an action of the page is to show: the page stays good, and its snapshot
\* is not replaced by an older one.
NodeStep(v) == NodeGood(node', v) /\ NodeNotOlder(node, node')

\* A step that keeps the snapshot does not replace it by an older one.
LEMMA SameSnapshotNotOlder ==
    ASSUME NEW p \in NodePages, NEW q, q.snapshot = p.snapshot \/ q.snapshot = None
    PROVE  NodeNotOlder(p, q)
<1>1. p.snapshot # None => p.snapshot.version \in Nat
  BY BrowserAssumption DEF NodePages, Snapshots, Versions
<1> QED
  BY <1>1 DEF NodeNotOlder

\* Selecting another source: nothing of the previous one stays.
LEMMA SelectSourceKeepsGood ==
    ASSUME server \in Versions, NodeGood(node, server), SelectSource
    PROVE  NodeStep(server)
<1>1. PICK s \in Sources :
          node' = LoadSnapshot(PrepareForSourceLoad(
                    [node EXCEPT !.selected = s, !.generation = Invalidated(@)]))
  BY DEF SelectSource
<1> DEFINE p == [node EXCEPT !.selected = s, !.generation = Invalidated(@)]
           q == [p EXCEPT !.snapshot = None]
<1>2. node \in NodePages /\ node.generation \in Nat /\ node.generation + 1 \in Nat
  BY DEF NodeGood, NodePages
<1>3. q = [node EXCEPT !.selected = s, !.generation = node.generation + 1,
                       !.snapshot = None]
  BY <1>2, Zenon DEF Invalidated
<1>4. node.selected # None
  BY DEF SelectSource
<1> HIDE DEF p, q
<1>5. q \in NodePages
  BY <1>2, <1>3, Zenon DEF NodePages
<1>6. /\ q.snapshot = None /\ q.selected = s
      /\ q.generation = node.generation + 1 /\ q.loads = node.loads
      /\ q.sequence = node.sequence /\ q.details = node.details
      /\ q.chosen = node.chosen /\ q.panel = node.panel /\ q.addressed = node.addressed
  BY <1>2, <1>3 DEF NodePages
<1>7. q.discovering = node.discovering /\ q.refresh = node.refresh
  BY <1>2, <1>3, Zenon DEF NodePages
<1>8. s # None
  BY BrowserAssumption DEF Sources
<1>9. q.discovering = FALSE
  BY <1>2, <1>4, <1>7, Zenon DEF NodeGood, NodeSelection, NodePages
\* The page before its detail section is cleared, but for that section.
<1> DEFINE r == ClearDetail([q EXCEPT !.addressed = None], "choose")
           b == [q EXCEPT !.addressed = None]
<1>10. b \in NodePages
  BY <1>5, Zenon DEF NodePages
<1>11. /\ b.snapshot = None /\ b.selected = s
       /\ b.generation = node.generation + 1 /\ b.loads = node.loads
       /\ b.sequence = node.sequence /\ b.details = node.details
  BY <1>5, <1>6 DEF NodePages
<1>12. b.discovering = FALSE /\ b.refresh = node.refresh
  BY <1>5, <1>7, <1>9, Zenon DEF NodePages
<1>13. NodeSequenced(b)
  BY <1>11 DEF NodeGood, NodeSequenced
<1>14. "choose" \in NodeSays /\ "choose" # "shown"
  BY DEF NodeSays
<1> HIDE DEF b
<1>15. NodeReset(b, ClearDetail(b, "choose")) /\ ClearDetail(b, "choose").snapshot = None
  BY <1>10, <1>11, <1>13, <1>14, ClearDetailResets
<1>16. r = ClearDetail(b, "choose")
  BY DEF b
<1> HIDE DEF r
<1>17. /\ r \in NodePages /\ r.snapshot = None /\ r.selected = s
       /\ r.generation = node.generation + 1 /\ r.loads = node.loads
       /\ r.discovering = FALSE /\ r.refresh = node.refresh
       /\ r.panel.says # "shown" /\ NodeSequenced(r) /\ NodeCurrentDetails(r)
  BY <1>11, <1>12, <1>15, <1>16, Zenon DEF NodeReset
<1>18. \A l \in node.loads : l.ticket \in Nat /\ l.ticket <= node.generation
  BY <1>2 DEF NodeGood, NodePages, NodeLoads, NodeTickets
<1>19. \A l \in r.loads : ~ IsCurrent(r.generation, l.ticket)
  BY <1>2, <1>17, <1>18 DEF IsCurrent
<1>20. NodeSelection(r) /\ NodeButton(r)
  BY <1>8, <1>17, <1>19, Zenon DEF NodeSelection, NodeButton
<1>21. NodeTickets(r)
  BY <1>2, <1>17, <1>18 DEF NodeGood, NodeTickets
<1>22. NodeOrder(r, server)
  BY <1>17, Zenon DEF NodeGood, NodeOrder
<1>23. NodeGood(r, server)
  BY <1>17, <1>20, <1>21, <1>22 DEF NodeGood, NodeDetailMatches
<1>24. NodeGood(LoadSnapshot(r), server) /\ LoadSnapshot(r).snapshot = None
  BY <1>17, <1>23, LoadSnapshotKeepsGood
<1>25. node' = LoadSnapshot(r)
  BY <1>1 DEF PrepareForSourceLoad, ClearAddressed, r, q, p
<1> QED
  BY <1>2, <1>24, <1>25, SameSnapshotNotOlder DEF NodeStep

\* The refresh button: another load, or the discovery that failed.
LEMMA RefreshKeepsGood ==
    ASSUME server \in Versions, NodeGood(node, server), Refresh
    PROVE  NodeStep(server)
<1>0. node \in NodePages
  BY DEF NodeGood
<1>1. CASE node.selected # None
  <2>1. node' = LoadSnapshot(node)
    BY <1>1 DEF Refresh
  <2>2. node.selected \in Sources
    BY <1>0, <1>1 DEF NodePages
  <2> QED
    BY <1>0, <2>1, <2>2, LoadSnapshotKeepsGood, SameSnapshotNotOlder DEF NodeStep
<1>2. CASE node.selected = None
  <2> DEFINE q == [node EXCEPT !.discovering = TRUE, !.refresh = FALSE]
  <2>1. node' = q
    BY <1>2 DEF Refresh
  <2>2. q \in NodePages
    BY <1>0, Zenon DEF NodePages
  <2>3. /\ q.snapshot = node.snapshot /\ q.selected = node.selected
        /\ q.generation = node.generation /\ q.loads = node.loads
        /\ q.sequence = node.sequence /\ q.details = node.details
        /\ q.chosen = node.chosen /\ q.panel = node.panel
    BY <1>0 DEF NodePages
  <2>4. ~ q.refresh
    BY <1>0, Zenon DEF NodePages
  <2> HIDE DEF q
  <2>5. NodeSelection(q) /\ NodeButton(q)
    BY <1>2, <2>3, <2>4, Zenon DEF NodeGood, NodeSelection, NodeButton
  <2>6. NodeTickets(q) /\ NodeOrder(q, server) /\ NodeSequenced(q) /\ NodeCurrentDetails(q)
    BY <2>3, Zenon
       DEF NodeGood, NodeTickets, NodeOrder, NodeSequenced, NodeCurrentDetails
  <2>7. NodeDetailMatches(q)
    BY <2>3, Zenon DEF NodeGood, NodeDetailMatches
  <2>8. NodeGood(q, server)
    BY <2>2, <2>5, <2>6, <2>7 DEF NodeGood
  <2> QED
    BY <1>0, <2>1, <2>3, <2>8, SameSnapshotNotOlder DEF NodeStep
<1> QED
  BY <1>1, <1>2

\* A transaction is searched for or chosen.
LEMMA SearchKeepsGood ==
    ASSUME server \in Versions, NodeGood(node, server), SearchForTransaction
    PROVE  NodeStep(server)
<1>0. node \in NodePages /\ NodeSequenced(node)
  BY DEF NodeGood
<1>1. PICK txid \in Txids :
          node' = IF node.snapshot = None
                  THEN [ClearDetail(node, "no snapshot") EXCEPT !.addressed = txid]
                  ELSE IF Holds(node.snapshot, txid) THEN LoadTransactionDetail(node, txid)
                  ELSE ShowAbsentTransaction(node, txid)
  BY DEF SearchForTransaction
<1>2. CASE node.snapshot = None
  <2> DEFINE q == ClearDetail(node, "no snapshot")
  <2>1. "no snapshot" \in NodeSays /\ "no snapshot" # "shown"
    BY DEF NodeSays
  <2>2. NodeGood(q, server) /\ q.snapshot = node.snapshot
    BY <2>1, ClearDetailKeepsGood
  <2> HIDE DEF q
  <2>3. NodeGood([q EXCEPT !.addressed = txid], server)
          /\ [q EXCEPT !.addressed = txid].snapshot = q.snapshot
    BY <2>2, WithAddressed
  <2>4. node' = [q EXCEPT !.addressed = txid]
    BY <1>1, <1>2 DEF q
  <2> QED
    BY <1>0, <2>2, <2>3, <2>4, SameSnapshotNotOlder DEF NodeStep
<1>3. CASE node.snapshot # None /\ Holds(node.snapshot, txid)
  <2>1. node' = LoadTransactionDetail(node, txid)
    BY <1>1, <1>3
  <2>2. node.snapshot \in Snapshots
    BY <1>0, <1>3 DEF NodePages
  <2>3. NodeReset(node, node') /\ node'.snapshot = node.snapshot
    BY <1>0, <2>1, <2>2, LoadDetailResets
  <2> QED
    BY <1>0, <2>3, ResetInPlace, SameSnapshotNotOlder DEF NodeStep
<1>4. CASE node.snapshot # None /\ ~ Holds(node.snapshot, txid)
  <2>1. node' = ShowAbsentTransaction(node, txid)
    BY <1>1, <1>4
  <2>2. NodeReset(node, node') /\ node'.snapshot = node.snapshot
    BY <1>0, <2>1, ShowAbsentResets
  <2> QED
    BY <1>0, <2>2, ResetInPlace, SameSnapshotNotOlder DEF NodeStep
<1> QED
  BY <1>2, <1>3, <1>4

\* Another view of the same snapshot.
LEMMA SelectViewKeepsGood ==
    ASSUME server \in Versions, NodeGood(node, server), SelectView
    PROVE  NodeStep(server)
<1>0. node \in NodePages
  BY DEF NodeGood
<1>1. node' = ClearAddressed(node)
  BY DEF SelectView
<1> QED
  BY <1>0, <1>1, ClearAddressedKeepsGood, SameSnapshotNotOlder DEF NodeStep

\* The sources are known, or asking for them has failed.
LEMMA DiscoveredKeepsGood ==
    ASSUME server \in Versions, NodeGood(node, server), SourcesDiscovered
    PROVE  NodeStep(server)
<1>0. node \in NodePages /\ node.discovering
  BY DEF NodeGood, SourcesDiscovered
<1>1. node.selected = None /\ node.loads = {} /\ node.snapshot = None
  BY <1>0, Zenon DEF NodeGood, NodeSelection
<1>2. ASSUME NEW s \in Sources,
             node' = LoadSnapshot([node EXCEPT !.discovering = FALSE, !.selected = s])
      PROVE  NodeStep(server)
  <2> DEFINE q == [node EXCEPT !.discovering = FALSE, !.selected = s]
  <2>1. q \in NodePages
    BY <1>0, Zenon DEF NodePages
  <2>2. /\ q.snapshot = node.snapshot /\ q.selected = s
        /\ q.generation = node.generation /\ q.loads = node.loads
        /\ q.sequence = node.sequence /\ q.details = node.details
        /\ q.chosen = node.chosen /\ q.panel = node.panel
    BY <1>0 DEF NodePages
  <2>3. ~ q.discovering
    BY <1>0, Zenon DEF NodePages
  <2>4. s # None
    BY BrowserAssumption DEF Sources
  <2> HIDE DEF q
  <2>5. NodeSelection(q) /\ NodeButton(q)
    BY <1>1, <2>2, <2>3, <2>4, Zenon DEF NodeSelection, NodeButton
  <2>6. NodeTickets(q) /\ NodeOrder(q, server) /\ NodeSequenced(q) /\ NodeCurrentDetails(q)
    BY <2>2, Zenon
       DEF NodeGood, NodeTickets, NodeOrder, NodeSequenced, NodeCurrentDetails
  <2>7. NodeDetailMatches(q)
    BY <2>2, Zenon DEF NodeGood, NodeDetailMatches
  <2>8. NodeGood(q, server)
    BY <2>1, <2>5, <2>6, <2>7 DEF NodeGood
  <2>9. NodeGood(LoadSnapshot(q), server) /\ LoadSnapshot(q).snapshot = q.snapshot
    BY <2>2, <2>8, LoadSnapshotKeepsGood
  <2>10. node' = LoadSnapshot(q)
    BY <1>2 DEF q
  <2> QED
    BY <1>0, <2>2, <2>9, <2>10, SameSnapshotNotOlder DEF NodeStep
<1>3. CASE node' = [node EXCEPT !.discovering = FALSE, !.refresh = TRUE]
  <2>1. node' \in NodePages
    BY <1>0, <1>3, Zenon DEF NodePages
  <2>2. /\ node'.snapshot = node.snapshot /\ node'.selected = node.selected
        /\ node'.generation = node.generation /\ node'.loads = node.loads
        /\ node'.sequence = node.sequence /\ node'.details = node.details
        /\ node'.chosen = node.chosen /\ node'.panel = node.panel
    BY <1>0, <1>3 DEF NodePages
  <2>3. ~ node'.discovering
    BY <1>0, <1>3, Zenon DEF NodePages
  <2>5. NodeSelection(node') /\ NodeButton(node')
    BY <1>1, <2>2, <2>3, Zenon DEF NodeSelection, NodeButton
  <2>6. /\ NodeTickets(node') /\ NodeOrder(node', server)
        /\ NodeSequenced(node') /\ NodeCurrentDetails(node')
    BY <2>2, Zenon
       DEF NodeGood, NodeTickets, NodeOrder, NodeSequenced, NodeCurrentDetails
  <2>7. NodeDetailMatches(node')
    BY <2>2, Zenon DEF NodeGood, NodeDetailMatches
  <2>8. NodeGood(node', server)
    BY <2>1, <2>5, <2>6, <2>7 DEF NodeGood
  <2> QED
    BY <1>0, <2>2, <2>8, SameSnapshotNotOlder DEF NodeStep
<1> QED
  BY <1>2, <1>3 DEF SourcesDiscovered

\* A snapshot request is served with the state the server is in, which is not
\* older than what is shown.
LEMMA LoadServedKeepsGood ==
    ASSUME server \in Versions, NodeGood(node, server), LoadServed
    PROVE  NodeStep(server)
<1>0. node \in NodePages /\ node.loads \in SUBSET NodeLoads
  BY DEF NodeGood, NodePages
<1>1. PICK l \in node.loads :
          node' = [node EXCEPT !.loads = (@ \ {l}) \cup {[l EXCEPT !.answer = server]}]
  BY DEF LoadServed
<1> DEFINE k == [l EXCEPT !.answer = server]
<1>2. k \in NodeLoads /\ k.ticket = l.ticket /\ k.answer = server
  BY <1>0 DEF NodeLoads
<1>3. node' = [node EXCEPT !.loads = (node.loads \ {l}) \cup {k}]
  BY <1>0, <1>1
<1> HIDE DEF k
<1>4. (node.loads \ {l}) \cup {k} \in SUBSET NodeLoads
  BY <1>0, <1>2
<1>5. node' \in NodePages
  BY <1>0, <1>3, <1>4, Zenon DEF NodePages
<1>6. /\ node'.snapshot = node.snapshot /\ node'.selected = node.selected
      /\ node'.generation = node.generation /\ node'.loads = (node.loads \ {l}) \cup {k}
      /\ node'.sequence = node.sequence /\ node'.details = node.details
      /\ node'.chosen = node.chosen /\ node'.panel = node.panel
  BY <1>0, <1>3 DEF NodePages
<1>7. node'.discovering = node.discovering /\ node'.refresh = node.refresh
  BY <1>0, <1>3, Zenon DEF NodePages
<1>8. node.selected # None
  BY Zenon DEF NodeGood, NodeSelection
<1>9. NodeSelection(node')
  BY <1>6, <1>7, <1>8, Zenon DEF NodeGood, NodeSelection
<1>10. NodeButton(node')
  BY <1>2, <1>6, <1>7, Zenon DEF NodeGood, NodeButton
<1>11. NodeTickets(node')
  BY <1>2, <1>6, Zenon DEF NodeGood, NodeTickets
<1>12. NodeOrder(node', server)
  <2>1. server <= server
    BY BrowserAssumption DEF Versions
  <2> QED
    BY <1>2, <1>6, <2>1, Zenon DEF NodeGood, NodeOrder
<1>13. NodeSequenced(node') /\ NodeCurrentDetails(node')
  BY <1>6, Zenon DEF NodeGood, NodeSequenced, NodeCurrentDetails
<1>14. NodeDetailMatches(node')
  BY <1>6, Zenon DEF NodeGood, NodeDetailMatches
<1>15. NodeGood(node', server)
  BY <1>5, <1>9, <1>10, <1>11, <1>12, <1>13, <1>14 DEF NodeGood
<1> QED
  BY <1>0, <1>6, <1>15, SameSnapshotNotOlder DEF NodeStep

\* A load ends: only the current one of the selected source is rendered, and it
\* is not older than what is shown.
LEMMA LoadEndsKeepsGood ==
    ASSUME server \in Versions, NodeGood(node, server), LoadEnds
    PROVE  NodeStep(server)
<1>0. node \in NodePages /\ NodeSequenced(node)
  BY DEF NodeGood
<1>1. PICK l \in node.loads :
          \/ l.answer # None /\ node' = LoadArrives(node, l)
          \/ node' = FinishLoad(node, l)
  BY DEF LoadEnds, LoadFails, Unanswered
<1>2. CASE node' = FinishLoad(node, l)
  BY <1>0, <1>2, FinishLoadKeepsGood, SameSnapshotNotOlder DEF NodeStep
<1>3. CASE l.answer # None /\ node' = LoadArrives(node, l)
  <2>1. CASE ~ (IsCurrent(node.generation, l.ticket) /\ node.selected = l.source)
    <3>1. node' = FinishLoad(node, l)
      BY <1>3, <2>1 DEF LoadArrives
    <3> QED
      BY <1>2, <3>1
  <2>2. CASE IsCurrent(node.generation, l.ticket) /\ node.selected = l.source
    <3> DEFINE q == RenderResponse(node, l.source, l.answer)
    <3>1. node' = FinishLoad(q, l)
      BY <1>3, <2>2 DEF LoadArrives
    <3>2. l.source \in Sources /\ l.answer \in Versions
      BY <1>0, <1>3 DEF NodePages, NodeLoads
    <3>3. NodeReset(node, q) /\ q.snapshot \in {None, Snapshot(l.source, l.answer)}
      BY <1>0, <3>2, RenderResets
    <3> HIDE DEF q
    <3>4. /\ Snapshot(l.source, l.answer).source = l.source
          /\ Snapshot(l.source, l.answer).version = l.answer
      BY DEF Snapshot
    <3>5. l.answer <= server
      BY <1>3 DEF NodeGood, NodeOrder
    <3>6. \A k \in node.loads : IsCurrent(node.generation, k.ticket) => k = l
      BY <2>2 DEF NodeGood, NodeTickets, IsCurrent
    <3>7. l.answer <= l.answer
      BY <3>2, BrowserAssumption DEF Versions
    <3>8. q.snapshot # None =>
            /\ q.snapshot.source = node.selected /\ q.snapshot.version <= server
            /\ \A k \in node.loads :
                  IsCurrent(node.generation, k.ticket) /\ k.answer # None
                    => q.snapshot.version <= k.answer
      BY <2>2, <3>3, <3>4, <3>5, <3>6, <3>7
    <3>9. node.selected # None
      BY Zenon DEF NodeGood, NodeSelection
    <3>10. NodeGood(q, server)
      BY <3>3, <3>8, <3>9, ResetKeepsGood
    <3>11. l \in q.loads
      BY <3>3 DEF NodeReset
    <3>12. NodeGood(node', server) /\ node'.snapshot = q.snapshot
      BY <3>1, <3>10, <3>11, FinishLoadKeepsGood
    <3>13. node.snapshot # None => node.snapshot.version <= l.answer
      BY <1>3, <2>2 DEF NodeGood, NodeOrder
    <3>14. l.answer \in Nat /\ (node.snapshot # None => node.snapshot.version \in Nat)
      BY <1>0, <3>2, BrowserAssumption DEF NodePages, Snapshots, Versions
    <3>15. NodeNotOlder(node, node')
      BY <3>3, <3>4, <3>12, <3>13, <3>14 DEF NodeNotOlder
    <3> QED
      BY <3>12, <3>15 DEF NodeStep
  <2> QED
    BY <2>1, <2>2
<1> QED
  BY <1>1, <1>2, <1>3

\* A step of the detail requests: the section may come to show a detail.
LEMMA DetailStep ==
    ASSUME NEW v \in Versions, NodeGood(node, v), NEW details \in SUBSET NodeDetails,
           NEW panel \in NodePanels,
           node' = [node EXCEPT !.details = details, !.panel = panel],
           \A d \in details : \E e \in node.details :
               d.sequence = e.sequence /\ d.snapshot = e.snapshot /\ d.txid = e.txid,
           panel.says = "shown" =>
               \/ panel = node.panel
               \/ /\ node.snapshot # None /\ node.chosen = panel.txid
                  /\ StateOf(Snapshot(node.snapshot.source, panel.detail)).results[node.chosen]
                        = Results(node.snapshot)[node.chosen]
    PROVE  NodeStep(v)
<1>0. node \in NodePages
  BY DEF NodeGood
<1>1. node' \in NodePages
  BY <1>0, Zenon DEF NodePages
<1>2. /\ node'.snapshot = node.snapshot /\ node'.selected = node.selected
      /\ node'.generation = node.generation /\ node'.loads = node.loads
      /\ node'.sequence = node.sequence /\ node'.details = details
      /\ node'.chosen = node.chosen /\ node'.panel = panel
  BY <1>0 DEF NodePages
<1>3. node'.discovering = node.discovering /\ node'.refresh = node.refresh
  BY <1>0, Zenon DEF NodePages
<1>4. NodeSelection(node') /\ NodeButton(node')
  BY <1>2, <1>3, Zenon DEF NodeGood, NodeSelection, NodeButton
<1>5. NodeTickets(node') /\ NodeOrder(node', v)
  BY <1>2, Zenon DEF NodeGood, NodeTickets, NodeOrder
<1>6. NodeSequenced(node') /\ NodeCurrentDetails(node')
  BY <1>2 DEF NodeGood, NodeSequenced, NodeCurrentDetails
<1>7. NodeDetailMatches(node')
  BY <1>2, Zenon DEF NodeGood, NodeDetailMatches
<1>8. NodeGood(node', v)
  BY <1>1, <1>4, <1>5, <1>6, <1>7 DEF NodeGood
<1> QED
  BY <1>0, <1>2, <1>8, SameSnapshotNotOlder DEF NodeStep

\* A detail request is served.
LEMMA DetailServedKeepsGood ==
    ASSUME server \in Versions, NodeGood(node, server), DetailServed
    PROVE  NodeStep(server)
<1>0. node \in NodePages /\ node.details \in SUBSET NodeDetails /\ node.panel \in NodePanels
  BY DEF NodeGood, NodePages
<1>1. PICK d \in node.details :
          node' = [node EXCEPT !.details = (@ \ {d}) \cup
                    {[d EXCEPT !.answer = DetailAnswer(d.snapshot.source, server, d.txid)]}]
  BY DEF DetailServed
<1> DEFINE answer == DetailAnswer(d.snapshot.source, server, d.txid)
           e == [d EXCEPT !.answer = answer]
           details == (node.details \ {d}) \cup {e}
<1>2. answer \in Versions \cup {Failure, None}
  BY DEF DetailAnswer
<1> HIDE DEF answer
<1>3. /\ e \in NodeDetails /\ e.sequence = d.sequence /\ e.snapshot = d.snapshot
      /\ e.txid = d.txid
  BY <1>0, <1>2 DEF NodeDetails
<1>4. node' = [node EXCEPT !.details = details]
  BY <1>0, <1>1 DEF answer
<1> HIDE DEF e
<1>5. /\ details \in SUBSET NodeDetails
      /\ \A x \in details : \E y \in node.details :
            x.sequence = y.sequence /\ x.snapshot = y.snapshot /\ x.txid = y.txid
  BY <1>0, <1>3
<1> HIDE DEF details
<1>6. [node EXCEPT !.details = details]
        = [node EXCEPT !.details = details, !.panel = node.panel]
  BY <1>0 DEF NodePages
<1> QED
  BY <1>0, <1>4, <1>5, <1>6, DetailStep

\* A detail request ends; what the section then shows is about the transaction
\* chosen and has its result.
LEMMA DetailEndsKeepsGood ==
    ASSUME server \in Versions, NodeGood(node, server), DetailEnds
    PROVE  NodeStep(server)
<1>0. node \in NodePages /\ node.details \in SUBSET NodeDetails /\ node.panel \in NodePanels
  BY DEF NodeGood, NodePages
<1>1. PICK d \in node.details :
          \/ d.answer \notin {None, Failure} /\ node' = DetailArrives(node, d)
          \/ node' = DetailFails(node, d)
  BY DEF DetailEnds, Unanswered
<1> DEFINE details == node.details \ {d}
<1>2. /\ details \in SUBSET NodeDetails
      /\ \A x \in details : \E y \in node.details :
            x.sequence = y.sequence /\ x.snapshot = y.snapshot /\ x.txid = y.txid
  BY <1>0
<1>3. d.txid \in Txids /\ d.snapshot \in Snapshots
  BY <1>0 DEF NodeDetails
<1> DEFINE gone == Panel("unavailable", d.txid, None)
<1>4. gone \in NodePanels /\ gone.says # "shown"
  <2>1. gone \in NodePanels
    BY <1>3, NodePanelTyped DEF NodeSays
  <2>2. gone.says # "shown"
    BY DEF Panel
  <2> QED
    BY <2>1, <2>2
<1>5. [node EXCEPT !.details = details]
        = [node EXCEPT !.details = details, !.panel = node.panel]
  BY <1>0 DEF NodePages
<1> HIDE DEF gone
<1>6. CASE node' = [node EXCEPT !.details = details]
  BY <1>0, <1>2, <1>5, <1>6, DetailStep
<1>7. CASE node' = [node EXCEPT !.details = details, !.panel = gone]
  BY <1>0, <1>2, <1>4, <1>7, DetailStep
<1>8. CASE node' = DetailFails(node, d)
  <2>1. CASE d.sequence = node.sequence
    <3>1. node' = [node EXCEPT !.details = details, !.panel = gone]
      BY <1>0, <1>8, <2>1, Zenon DEF DetailFails, gone
    <3> QED
      BY <1>7, <3>1
  <2>2. CASE d.sequence # node.sequence
    <3>1. node' = [node EXCEPT !.details = details, !.panel = node.panel]
      BY <1>0, <1>8, <2>2, Zenon DEF DetailFails
    <3> QED
      BY <1>5, <1>6, <3>1
  <2> QED
    BY <2>1, <2>2
<1>9. CASE d.answer \notin {None, Failure} /\ node' = DetailArrives(node, d)
  <2> DEFINE rest == [node EXCEPT !.details = details]
  <2>1. CASE ~ DetailIsCurrent(node, d)
    <3>1. node' = rest
      BY <1>9, <2>1 DEF DetailArrives
    <3> QED
      BY <1>6, <3>1
  <2>2. CASE DetailIsCurrent(node, d) /\ ~ MatchesSnapshot(d.snapshot, d.txid, d.answer)
    <3>1. node' = [rest EXCEPT !.panel = gone]
      BY <1>9, <2>2 DEF DetailArrives, gone
    <3>2. node' = [node EXCEPT !.details = details, !.panel = gone]
      BY <3>1, Zenon
    <3> QED
      BY <1>7, <3>2
  <2>3. CASE DetailIsCurrent(node, d) /\ MatchesSnapshot(d.snapshot, d.txid, d.answer)
    <3> DEFINE full == Panel("shown", d.txid, d.answer)
    <3>1. node' = [rest EXCEPT !.panel = full]
      BY <1>9, <2>3 DEF DetailArrives
    <3>2. node' = [node EXCEPT !.details = details, !.panel = full]
      BY <3>1, Zenon
    <3>3. d.answer \in Versions
      BY <1>0, <1>9 DEF NodeDetails
    <3>4. full \in NodePanels
      BY <1>3, <3>3, NodePanelTyped DEF NodeSays
    <3>5. full.txid = d.txid /\ full.detail = d.answer
      BY DEF Panel
    <3> HIDE DEF full
    <3>6. node.snapshot = d.snapshot /\ node.chosen = d.txid /\ node.snapshot # None
      BY <2>3 DEF DetailIsCurrent, NodeGood, NodeCurrentDetails
    <3>7. StateOf(Snapshot(d.snapshot.source, d.answer)).results[d.txid]
            = Results(d.snapshot)[d.txid]
      BY <1>3, <2>3, <3>3, MatchGivesResult
    <3>8. StateOf(Snapshot(node.snapshot.source, full.detail)).results[node.chosen]
            = Results(node.snapshot)[node.chosen]
      BY <3>5, <3>6, <3>7
    <3>9. node.chosen = full.txid
      BY <3>5, <3>6
    <3> QED
      BY <1>2, <3>2, <3>4, <3>6, <3>8, <3>9, DetailStep
  <2> QED
    BY <2>1, <2>2, <2>3
<1> QED
  BY <1>1, <1>8, <1>9

\* Every step of the page of one node.
LEMMA NodeKeepsGood ==
    ASSUME server \in Versions, NodeGood(node, server), NodeUser \/ NodeNetwork
    PROVE  NodeStep(server)
  BY SelectSourceKeepsGood, RefreshKeepsGood, SearchKeepsGood, SelectViewKeepsGood,
     DiscoveredKeepsGood, LoadServedKeepsGood, LoadEndsKeepsGood, DetailServedKeepsGood,
     DetailEndsKeepsGood DEF NodeUser, NodeNetwork

-----------------------------------------------------------------------------
(* The comparison of two sources *)

\* A pair, or one that is not complete.
Choices == [Sides -> Sources \cup {None}]

PairLoads ==
    [ticket : Nat, sources : [Sides -> Sources], nested : BOOLEAN,
     answers : [Sides -> Versions \cup {None}]]

Discoveries == [ticket : Nat, answer : (SUBSET Sources) \cup {None}]

\* The answers for the sides that were asked for.
SideAnswers == UNION {[asked -> Versions \cup {Failure, None}] : asked \in SUBSET Sides}

PairDetails ==
    [sequence : Nat, comparison : Comparisons, txid : Txids, answers : SideAnswers]

PairSays == {"choose", "waiting", "absent", "loading", "shown"}

PairPanels ==
    [says : PairSays, txid : Txids \cup {None}, detail : SideAnswers \cup {None}]

PairPages ==
    [sources : Choices, requested : Choices, known : SUBSET Sources,
     comparison : Comparisons \cup {None}, generation : Nat, discovery : Nat,
     loads : SUBSET PairLoads, discoveries : SUBSET Discoveries,
     active : Int, refresh : BOOLEAN,
     chosen : Txids \cup {None}, sequence : Nat, details : SUBSET PairDetails,
     panel : PairPanels]

\* A ticket belongs to one request of its kind.
PairTickets(p) ==
    /\ \A l \in p.loads : l.ticket <= p.generation
    /\ \A k, l \in p.loads : k.ticket = l.ticket => k = l
    /\ \A d \in p.discoveries : d.ticket <= p.discovery
    /\ \A c, d \in p.discoveries : c.ticket = d.ticket => c = d

\* The current load was asked for after both snapshots compared were served.
PairOrder(p, v) ==
    /\ \A side \in Sides :
          /\ p.comparison # None => p.comparison.versions[side] <= v
          /\ \A l \in p.loads : l.answers[side] # None => l.answers[side] <= v
    /\ \A l \in p.loads, side \in Sides :
          /\ IsCurrent(p.generation, l.ticket) /\ l.answers[side] # None
          /\ p.comparison # None
          => p.comparison.versions[side] <= l.answers[side]

\* The last part of ViewIsCoherent, of a page.
PairDetailMatches(p) ==
    p.panel.says = "shown" =>
        /\ p.comparison # None /\ p.chosen = p.panel.txid
        /\ \A side \in DOMAIN p.panel.detail :
              p.panel.detail[side] # Failure =>
                StateOf(Snapshot(p.comparison.sources[side],
                                 p.panel.detail[side])).results[p.chosen]
                  = Results(Side(p.comparison, side))[p.chosen]

PairFit(p, v) ==
    /\ p \in PairPages
    /\ PairTickets(p)
    /\ PairOrder(p, v)
    /\ PairDetailMatches(p)

\* What is compared is the pair chosen.
PairSelection(p) == p.comparison # None => p.comparison.sources = p.sources

\* activeLoads is the number of requests under way, a load that a discovery
\* waits for counting for both; slack of them are being ended.
Nested(loads) == {l \in loads : l.nested}
UnderWay(p) ==
    Cardinality(p.discoveries) + Cardinality(p.loads) + Cardinality(Nested(p.loads))
PairCount(p, slack) ==
    /\ IsFiniteSet(p.loads) /\ IsFiniteSet(p.discoveries)
    /\ p.active = UnderWay(p) + slack

PairButton(p) == p.refresh => p.active = 0

PairGood(p, v) == PairFit(p, v) /\ PairSelection(p) /\ PairCount(p, 0) /\ PairButton(p)

\* What NeverOlder says of a step of the page.
PairNotOlder(p, q) ==
    \A side \in Sides :
        p.comparison # None /\ q.comparison # None
          /\ q.comparison.sources[side] = p.comparison.sources[side]
        => q.comparison.versions[side] >= p.comparison.versions[side]

-----------------------------------------------------------------------------
(* Counting the requests under way *)

\* A load that starts counts for one, or for two if a discovery waits for it.
LEMMA NestedAdds ==
    ASSUME NEW loads, IsFiniteSet(loads), NEW l \in PairLoads, l \notin loads
    PROVE  /\ IsFiniteSet(loads \cup {l})
           /\ Cardinality(loads \cup {l}) + Cardinality(Nested(loads \cup {l}))
                = Cardinality(loads) + Cardinality(Nested(loads)) + LoadCounts(l)
<1>1. /\ IsFiniteSet(loads \cup {l})
      /\ Cardinality(loads \cup {l}) = Cardinality(loads) + 1
  BY FS_AddElement
<1>2. IsFiniteSet(Nested(loads)) /\ l \notin Nested(loads)
  BY FS_Subset DEF Nested
<1>3. Cardinality(loads) \in Nat /\ Cardinality(Nested(loads)) \in Nat
  BY <1>2, FS_CardinalityType
<1>4. CASE l.nested
  <2>1. Nested(loads \cup {l}) = Nested(loads) \cup {l}
    BY <1>4, Zenon DEF Nested
  <2>2. Cardinality(Nested(loads \cup {l})) = Cardinality(Nested(loads)) + 1
    BY <1>2, <2>1, FS_AddElement
  <2> QED
    BY <1>1, <1>3, <1>4, <2>2 DEF LoadCounts
<1>5. CASE ~ l.nested
  <2>1. Nested(loads \cup {l}) = Nested(loads)
    BY <1>5, Zenon DEF Nested
  <2> QED
    BY <1>1, <1>3, <1>5, <2>1 DEF LoadCounts
<1> QED
  BY <1>4, <1>5

\* A load that ends counts for as much.
LEMMA NestedRemoves ==
    ASSUME NEW loads \in SUBSET PairLoads, IsFiniteSet(loads), NEW l \in loads
    PROVE  /\ IsFiniteSet(loads \ {l})
           /\ Cardinality(loads \ {l}) + Cardinality(Nested(loads \ {l}))
                = Cardinality(loads) + Cardinality(Nested(loads)) - LoadCounts(l)
<1>1. IsFiniteSet(loads \ {l}) /\ l \notin loads \ {l} /\ l \in PairLoads
  BY FS_RemoveElement
<1>2. (loads \ {l}) \cup {l} = loads
  OBVIOUS
<1>3. Cardinality(loads) + Cardinality(Nested(loads))
        = Cardinality(loads \ {l}) + Cardinality(Nested(loads \ {l})) + LoadCounts(l)
  BY <1>1, <1>2, NestedAdds
<1>4. IsFiniteSet(Nested(loads)) /\ IsFiniteSet(Nested(loads \ {l}))
  BY <1>1, FS_Subset DEF Nested
<1>5. /\ Cardinality(loads) \in Nat /\ Cardinality(Nested(loads)) \in Nat
      /\ Cardinality(loads \ {l}) \in Nat /\ Cardinality(Nested(loads \ {l})) \in Nat
  BY <1>1, <1>4, FS_CardinalityType
<1> QED
  BY <1>1, <1>3, <1>5 DEF LoadCounts

\* The numbers that make up UnderWay are natural.
LEMMA UnderWayTyped ==
    ASSUME NEW p, IsFiniteSet(p.loads), IsFiniteSet(p.discoveries)
    PROVE  /\ Cardinality(p.discoveries) \in Nat /\ Cardinality(p.loads) \in Nat
           /\ Cardinality(Nested(p.loads)) \in Nat /\ UnderWay(p) \in Nat
<1>1. IsFiniteSet(Nested(p.loads))
  BY FS_Subset DEF Nested
<1> QED
  BY <1>1, FS_CardinalityType DEF UnderWay

\* Nothing counted is nothing under way.
LEMMA NothingUnderWay ==
    ASSUME NEW p, IsFiniteSet(p.loads), IsFiniteSet(p.discoveries), UnderWay(p) = 0
    PROVE  p.loads = {} /\ p.discoveries = {}
<1>1. Cardinality(p.discoveries) = 0 /\ Cardinality(p.loads) = 0
  BY UnderWayTyped DEF UnderWay
<1> QED
  BY <1>1, FS_EmptySet

-----------------------------------------------------------------------------
(* The pair chosen *)

\* A set of natural numbers that is not empty has a least element.
LEMMA LeastNumber ==
    ASSUME NEW T, T \subseteq Nat, T # {}
    PROVE  \E x \in T : \A y \in T : x <= y
<1>1. PICK x \in T : \A y \in T : ~ (<<y, x>> \in OpToRel(<, Nat))
  BY NatLessThanWellFounded, WFMin
<1>2. \A y \in T : ~ (y < x)
  BY <1>1 DEF OpToRel
<1> QED
  BY <1>2

\* The first of a set of sources is one of them.
LEMMA FirstIsOne ==
    ASSUME NEW S \in SUBSET Sources
    PROVE  FirstOf(S) \in S \cup {None}
<1>1. CASE S = {}
  BY <1>1 DEF FirstOf
<1>2. CASE S # {}
  <2>1. S \subseteq Nat
    BY BrowserAssumption DEF Sources
  <2>2. \E s \in S : \A t \in S : s <= t
    BY <1>2, <2>1, LeastNumber
  <2> QED
    BY <1>2, <2>2 DEF FirstOf
<1> QED
  BY <1>1, <1>2

\* chooseInitialSources yields a pair of available sources, or one that is not
\* complete.
LEMMA ChosenTyped ==
    ASSUME NEW p \in PairPages, NEW available \in SUBSET Sources
    PROVE  ChooseInitialSources(p, available) \in Choices
<1> DEFINE known == {c \in {p.requested, p.sources} :
                       \A side \in Sides : c[side] \in available}
           left == FirstOf(available)
           first == [side \in Sides |-> IF side = "left" THEN left
                                        ELSE FirstOf(available \ {left})]
<1>1. p.requested \in Choices /\ p.sources \in Choices
  BY DEF PairPages
<1>2. left \in Sources \cup {None} /\ FirstOf(available \ {left}) \in Sources \cup {None}
  BY FirstIsOne
<1> HIDE DEF left
<1>3. first \in Choices
  BY <1>2 DEF Choices
<1>4. ChooseInitialSources(p, available) \in {p.requested, p.sources, first}
  BY DEF ChooseInitialSources, left
<1> QED
  BY <1>1, <1>3, <1>4

-----------------------------------------------------------------------------
(* The detail section of the comparison *)

\* A panel is of its type.
LEMMA PairPanelTyped ==
    ASSUME NEW says \in PairSays, NEW txid \in Txids \cup {None},
           NEW detail \in SideAnswers \cup {None}
    PROVE  Panel(says, txid, detail) \in PairPanels
  BY DEF Panel, PairPanels

\* One side of a comparison is a snapshot of its source.
LEMMA SideTyped ==
    ASSUME NEW c \in Comparisons, NEW side \in Sides
    PROVE  Side(c, side) \in Snapshots /\ Side(c, side).source = c.sources[side]
<1>1. c.sources[side] \in Sources /\ c.versions[side] \in Versions
  BY DEF Comparisons
<1> QED
  BY <1>1, SnapshotTyped DEF Side, Snapshot

\* What clearing or refilling the detail section does: the requests for pairs
\* and sources are left alone, and nothing is shown.
PairSame(p, q) ==
    /\ q \in PairPages
    /\ q.sources = p.sources /\ q.generation = p.generation /\ q.discovery = p.discovery
    /\ q.loads = p.loads /\ q.discoveries = p.discoveries
    /\ q.active = p.active /\ q.refresh = p.refresh

PairReset(p, q) == PairSame(p, q) /\ q.panel.says # "shown"

\* clearDetailPanel clears the section.
LEMMA ClearPanelResets ==
    ASSUME NEW p \in PairPages, NEW says \in PairSays, says # "shown"
    PROVE  /\ PairReset(p, ClearDetailPanel(p, says))
           /\ ClearDetailPanel(p, says).comparison = p.comparison
           /\ ClearDetailPanel(p, says).chosen = p.chosen
<1> DEFINE q == ClearDetailPanel(p, says)
           panel == Panel(says, None, None)
<1>1. panel \in PairPanels
  BY PairPanelTyped
<1>2. p.sequence \in Nat /\ p.sequence + 1 \in Nat
  BY DEF PairPages
<1>3. panel.says = says
  BY DEF Panel
<1>4. q = [p EXCEPT !.sequence = p.sequence + 1, !.panel = panel]
  BY Zenon DEF ClearDetailPanel, PairPages
<1> HIDE DEF panel, q
<1>5. q \in PairPages
  BY <1>1, <1>2, <1>4, Zenon DEF PairPages
<1>6. /\ q.sources = p.sources /\ q.generation = p.generation /\ q.discovery = p.discovery
      /\ q.loads = p.loads /\ q.discoveries = p.discoveries
      /\ q.active = p.active /\ q.panel = panel
      /\ q.comparison = p.comparison /\ q.chosen = p.chosen
  BY <1>4, Zenon DEF PairPages
<1>7. q.refresh = p.refresh
  BY <1>4, Zenon DEF PairPages
<1>8. PairReset(p, q)
  BY <1>3, <1>5, <1>6, <1>7 DEF PairReset, PairSame
<1> QED
  BY <1>6, <1>8 DEF q

\* Another transaction is chosen, or another comparison shown.
LEMMA WithChosen ==
    ASSUME NEW p \in PairPages, NEW txid \in Txids \cup {None}
    PROVE  /\ PairSame(p, [p EXCEPT !.chosen = txid])
           /\ [p EXCEPT !.chosen = txid].comparison = p.comparison
           /\ [p EXCEPT !.chosen = txid].chosen = txid
<1> DEFINE q == [p EXCEPT !.chosen = txid]
<1>1. q \in PairPages
  BY Zenon DEF PairPages
<1>2. /\ q.sources = p.sources /\ q.generation = p.generation /\ q.discovery = p.discovery
      /\ q.loads = p.loads /\ q.discoveries = p.discoveries
      /\ q.active = p.active /\ q.refresh = p.refresh
      /\ q.comparison = p.comparison /\ q.chosen = txid
  BY Zenon DEF PairPages
<1> QED
  BY <1>1, <1>2, Zenon DEF PairSame

\* Likewise for what is compared.
LEMMA WithComparison ==
    ASSUME NEW p \in PairPages, NEW comparison \in Comparisons \cup {None}
    PROVE  /\ PairSame(p, [p EXCEPT !.comparison = comparison])
           /\ [p EXCEPT !.comparison = comparison].comparison = comparison
<1> DEFINE q == [p EXCEPT !.comparison = comparison]
<1>1. q \in PairPages
  BY Zenon DEF PairPages
<1>2. /\ q.sources = p.sources /\ q.generation = p.generation /\ q.discovery = p.discovery
      /\ q.loads = p.loads /\ q.discoveries = p.discoveries
      /\ q.active = p.active /\ q.refresh = p.refresh
      /\ q.comparison = comparison
  BY Zenon DEF PairPages
<1> QED
  BY <1>1, <1>2, Zenon DEF PairSame

\* Changes of that kind add up to one reset.
LEMMA ResetsAddUp ==
    ASSUME NEW p, NEW q, NEW r,
           \/ PairSame(p, q) /\ PairReset(q, r)
           \/ PairReset(p, q) /\ PairReset(q, r)
    PROVE  PairReset(p, r)
  BY Zenon DEF PairReset, PairSame

\* preparePendingView.
LEMMA PrepareResets ==
    ASSUME NEW p \in PairPages, NEW txid \in Txids \cup {None}
    PROVE  /\ PairReset(p, PreparePendingView(p, txid))
           /\ PreparePendingView(p, txid).comparison = p.comparison
<1> DEFINE says == IF txid = None THEN "choose" ELSE "waiting"
           q == [p EXCEPT !.chosen = txid]
<1>1. says \in PairSays /\ says # "shown"
  BY DEF PairSays
<1>2. PairSame(p, q) /\ q.comparison = p.comparison
  BY WithChosen
<1>3. PreparePendingView(p, txid) = ClearDetailPanel(q, says)
  BY DEF PreparePendingView
<1> HIDE DEF says, q
<1>4. q \in PairPages
  BY <1>2 DEF PairSame
<1>5. PairReset(q, ClearDetailPanel(q, says)) /\ ClearDetailPanel(q, says).comparison = q.comparison
  BY <1>1, <1>4, ClearPanelResets
<1> QED
  BY <1>2, <1>3, <1>5, ResetsAddUp

\* resetComparisonView.
LEMMA ResetViewResets ==
    ASSUME NEW p \in PairPages
    PROVE  /\ PairReset(p, ResetComparisonView(p))
           /\ ResetComparisonView(p).comparison = None
<1> DEFINE b == [p EXCEPT !.comparison = None]
           q == [b EXCEPT !.chosen = None]
<1>1. "choose" \in PairSays /\ "choose" # "shown"
  BY DEF PairSays
<1>2. PairSame(p, b) /\ b.comparison = None
  BY WithComparison
<1>3. ResetComparisonView(p) = ClearDetailPanel(q, "choose")
  BY Zenon DEF ResetComparisonView
<1> HIDE DEF b
<1>4. PairSame(b, q) /\ q.comparison = None
  BY <1>2, WithChosen DEF PairSame
<1> HIDE DEF q
<1>5. q \in PairPages /\ PairSame(p, q)
  BY <1>2, <1>4, Zenon DEF PairSame
<1>6. PairReset(q, ClearDetailPanel(q, "choose"))
        /\ ClearDetailPanel(q, "choose").comparison = q.comparison
  BY <1>1, <1>5, ClearPanelResets
<1> QED
  BY <1>3, <1>4, <1>5, <1>6, ResetsAddUp

\* Both, in that order, as when the pair has changed.
LEMMA ResetAndPrepareResets ==
    ASSUME NEW p \in PairPages, NEW txid \in Txids \cup {None}
    PROVE  /\ PairReset(p, PreparePendingView(ResetComparisonView(p), txid))
           /\ PreparePendingView(ResetComparisonView(p), txid).comparison = None
<1> DEFINE q == ResetComparisonView(p)
<1>1. PairReset(p, q) /\ q.comparison = None
  BY ResetViewResets
<1> HIDE DEF q
<1>2. q \in PairPages
  BY <1>1 DEF PairReset, PairSame
<1>3. /\ PairReset(q, PreparePendingView(q, txid))
      /\ PreparePendingView(q, txid).comparison = q.comparison
  BY <1>2, PrepareResets
<1>4. PairReset(p, PreparePendingView(q, txid))
  BY <1>1, <1>3, ResetsAddUp
<1> QED
  BY <1>1, <1>3, <1>4 DEF q

\* loadSelectedDetail asks for the sides of what is compared.
LEMMA LoadSelectedResets ==
    ASSUME NEW p \in PairPages, NEW txid \in Txids, p.comparison \in Comparisons
    PROVE  /\ PairReset(p, LoadSelectedDetail(p, txid))
           /\ LoadSelectedDetail(p, txid).comparison = p.comparison
<1> DEFINE q == LoadSelectedDetail(p, txid)
           answers == [side \in AskedSides(p.comparison, txid) |-> None]
           d == [sequence |-> p.sequence + 1, comparison |-> p.comparison,
                 txid |-> txid, answers |-> answers]
           panel == Panel("loading", None, None)
<1>1. answers \in SideAnswers
  <2>1. AskedSides(p.comparison, txid) \in SUBSET Sides
    BY DEF AskedSides
  <2> DEFINE asked == AskedSides(p.comparison, txid)
  <2> HIDE DEF asked
  <2>2. [side \in asked |-> None] \in [asked -> Versions \cup {Failure, None}]
    OBVIOUS
  <2> QED
    BY <2>1, <2>2, Zenon DEF SideAnswers, asked
<1>2. panel \in PairPanels /\ panel.says # "shown"
  <2>1. panel \in PairPanels
    BY PairPanelTyped DEF PairSays
  <2>2. panel.says # "shown"
    BY DEF Panel
  <2> QED
    BY <2>1, <2>2
<1>3. p.sequence \in Nat /\ p.sequence + 1 \in Nat /\ p.details \in SUBSET PairDetails
  BY DEF PairPages
<1>4. q = [p EXCEPT !.sequence = p.sequence + 1, !.panel = panel,
                    !.details = p.details \cup {d}]
  BY Zenon DEF LoadSelectedDetail, PairPages, Unanswered
<1> HIDE DEF answers
<1>5. d \in PairDetails
  BY <1>1, <1>3 DEF PairDetails
<1> HIDE DEF d, q, panel
<1>6. p.details \cup {d} \in SUBSET PairDetails
  BY <1>3, <1>5
<1>7. q \in PairPages
  BY <1>2, <1>3, <1>4, <1>6, Zenon DEF PairPages
<1>8. /\ q.sources = p.sources /\ q.generation = p.generation /\ q.discovery = p.discovery
      /\ q.loads = p.loads /\ q.discoveries = p.discoveries
      /\ q.active = p.active /\ q.refresh = p.refresh
      /\ q.comparison = p.comparison /\ q.panel = panel
  BY <1>4, Zenon DEF PairPages
<1>9. PairReset(p, q)
  BY <1>2, <1>7, <1>8, Zenon DEF PairReset, PairSame
<1> QED
  BY <1>8, <1>9 DEF q

\* applyResolvedLoadedView.
LEMMA ApplyResets ==
    ASSUME NEW p \in PairPages, NEW txid \in Txids \cup {None}, p.comparison \in Comparisons
    PROVE  /\ PairReset(p, ApplyLoadedView(p, txid))
           /\ ApplyLoadedView(p, txid).comparison = p.comparison
<1> DEFINE b == [p EXCEPT !.chosen = txid]
           view(says) == ClearDetailPanel(b, says)
<1>1. PairSame(p, b) /\ b.comparison = p.comparison
  BY WithChosen
<1>2. ApplyLoadedView(p, txid) =
        IF txid = None THEN view("choose")
        ELSE IF HasTransaction(p.comparison, txid)
        THEN LoadSelectedDetail(view("loading"), txid)
        ELSE view("absent")
  BY Zenon DEF ApplyLoadedView
<1> HIDE DEF b
<1>3. ASSUME NEW says \in PairSays, says # "shown"
      PROVE  PairReset(p, view(says)) /\ view(says).comparison = p.comparison
  <2>1. b \in PairPages
    BY <1>1 DEF PairSame
  <2>2. PairReset(b, view(says)) /\ view(says).comparison = b.comparison
    BY <1>3, <2>1, ClearPanelResets
  <2> QED
    BY <1>1, <2>2, ResetsAddUp
<1>4. {"choose", "loading", "absent"} \subseteq PairSays
  BY DEF PairSays
<1>5. CASE txid = None
  <2>1. ApplyLoadedView(p, txid) = view("choose")
    BY <1>2, <1>5, Zenon
  <2>2. PairReset(p, view("choose")) /\ view("choose").comparison = p.comparison
    BY <1>3, <1>4
  <2> QED
    BY <2>1, <2>2, Zenon
<1>6. CASE txid # None /\ ~ HasTransaction(p.comparison, txid)
  <2>1. ApplyLoadedView(p, txid) = view("absent")
    BY <1>2, <1>6, Zenon
  <2>2. PairReset(p, view("absent")) /\ view("absent").comparison = p.comparison
    BY <1>3, <1>4
  <2> QED
    BY <2>1, <2>2, Zenon
<1>7. CASE txid # None /\ HasTransaction(p.comparison, txid)
  <2> DEFINE q == view("loading")
  <2>1. ApplyLoadedView(p, txid) = LoadSelectedDetail(q, txid)
    BY <1>2, <1>7, Zenon
  <2>2. PairReset(p, q) /\ q.comparison = p.comparison
    BY <1>3, <1>4
  <2> HIDE DEF q
  <2>3. q \in PairPages
    BY <2>2 DEF PairReset, PairSame
  <2>4. /\ PairReset(q, LoadSelectedDetail(q, txid))
        /\ LoadSelectedDetail(q, txid).comparison = q.comparison
    BY <1>7, <2>2, <2>3, LoadSelectedResets
  <2> QED
    BY <2>1, <2>2, <2>4, ResetsAddUp
<1> QED
  BY <1>5, <1>6, <1>7

-----------------------------------------------------------------------------
(* The handlers of the comparison keep the parts of PairGood *)

\* A reset that shows nothing, or what was compared, keeps the page good.
LEMMA PairResetKeepsFit ==
    ASSUME NEW p, NEW q, NEW v, PairFit(p, v), PairReset(p, q),
           q.comparison = None \/ q.comparison = p.comparison
    PROVE  PairFit(q, v)
<1>1. /\ q \in PairPages /\ q.generation = p.generation /\ q.discovery = p.discovery
      /\ q.loads = p.loads /\ q.discoveries = p.discoveries
      /\ q.panel.says # "shown"
  BY DEF PairReset, PairSame
<1>2. PairTickets(q)
  BY <1>1, Zenon DEF PairFit, PairTickets
<1>3. PairOrder(q, v)
  BY <1>1, Zenon DEF PairFit, PairOrder
<1> QED
  BY <1>1, <1>2, <1>3 DEF PairFit, PairDetailMatches

\* And what it counts.
LEMMA PairResetKeepsCount ==
    ASSUME NEW p, NEW q, NEW slack, PairSame(p, q)
    PROVE  /\ PairCount(p, slack) => PairCount(q, slack)
           /\ PairButton(p) => PairButton(q)
<1>1. /\ q.loads = p.loads /\ q.discoveries = p.discoveries
      /\ q.active = p.active /\ q.refresh = p.refresh
  BY Zenon DEF PairSame
<1> QED
  BY <1>1, Zenon DEF PairCount, PairButton, UnderWay

\* Both together.
LEMMA PairResetKeepsGood ==
    ASSUME NEW p, NEW q, NEW v, PairGood(p, v), PairReset(p, q),
           q.comparison = None \/ q.comparison = p.comparison
    PROVE  PairGood(q, v)
<1>1. PairFit(q, v)
  BY PairResetKeepsFit DEF PairGood
<1>2. PairCount(q, 0) /\ PairButton(q)
  BY PairResetKeepsCount DEF PairGood, PairReset
<1>3. q.sources = p.sources
  BY DEF PairReset, PairSame
<1>4. PairSelection(q)
  BY <1>3 DEF PairGood, PairSelection
<1> QED
  BY <1>1, <1>2, <1>4 DEF PairGood

\* The finally of loadComparison and of discoverSources: what was still counted
\* is no longer, and the button is enabled when nothing is left.
LEMMA EndedKeepsGood ==
    ASSUME NEW p, NEW v, NEW count \in Nat, PairFit(p, v), PairSelection(p),
           PairCount(p, count), ~ p.refresh
    PROVE  PairGood(Ended(p, count), v) /\ Ended(p, count).comparison = p.comparison
<1> DEFINE q == Ended(p, count)
<1>0. p \in PairPages /\ p.active \in Int /\ p.active - count \in Int
  BY DEF PairFit, PairPages
<1>1. (p.refresh \/ p.active = count) \in BOOLEAN
  BY Zenon
<1>2. q = [p EXCEPT !.active = p.active - count, !.refresh = p.refresh \/ p.active = count]
  BY <1>0, Zenon DEF Ended
<1> HIDE DEF q
<1>3. q \in PairPages
  BY <1>0, <1>1, <1>2, Zenon DEF PairPages
<1>4. /\ q.sources = p.sources /\ q.generation = p.generation /\ q.discovery = p.discovery
      /\ q.loads = p.loads /\ q.discoveries = p.discoveries
      /\ q.active = p.active - count
      /\ q.comparison = p.comparison /\ q.panel = p.panel /\ q.chosen = p.chosen
  BY <1>0, <1>2, Zenon DEF PairPages
<1>5. q.refresh => p.active = count
  BY <1>0, <1>2, Zenon DEF PairPages
<1>6. PairTickets(q) /\ PairOrder(q, v)
  BY <1>4, Zenon DEF PairFit, PairTickets, PairOrder
<1>7. PairDetailMatches(q)
  BY <1>4, Zenon DEF PairFit, PairDetailMatches
<1>8. PairSelection(q)
  BY <1>4 DEF PairSelection
<1>9. UnderWay(p) \in Nat
  BY UnderWayTyped DEF PairCount
<1>10. UnderWay(q) = UnderWay(p)
  BY <1>4 DEF UnderWay
<1>11. PairCount(q, 0)
  BY <1>4, <1>9, <1>10 DEF PairCount
<1>12. PairButton(q)
  BY <1>0, <1>4, <1>5 DEF PairButton
<1>13. PairGood(q, v)
  BY <1>3, <1>6, <1>7, <1>8, <1>11, <1>12 DEF PairGood, PairFit
<1> QED
  BY <1>4, <1>13 DEF q

\* While something is under way the button is disabled.
LEMMA BusyButton ==
    ASSUME NEW p, NEW v, PairGood(p, v), p.loads # {} \/ p.discoveries # {}
    PROVE  ~ p.refresh
<1>1. UnderWay(p) # 0
  BY NothingUnderWay DEF PairGood, PairCount
<1>2. UnderWay(p) \in Nat
  BY UnderWayTyped DEF PairGood, PairCount
<1>3. p.active # 0
  BY <1>1, <1>2 DEF PairGood, PairCount
<1> QED
  BY <1>3, Zenon DEF PairGood, PairButton

\* A load leaves.
LEMMA LoadEndedKeepsGood ==
    ASSUME NEW p, NEW v, PairGood(p, v), NEW l \in p.loads
    PROVE  PairGood(LoadEnded(p, l), v) /\ LoadEnded(p, l).comparison = p.comparison
<1> DEFINE q == [p EXCEPT !.loads = @ \ {l}]
<1>0. p \in PairPages /\ p.loads \in SUBSET PairLoads /\ p.active \in Int
  BY DEF PairGood, PairFit, PairPages
<1>1. p.loads \ {l} \in SUBSET PairLoads /\ l \in PairLoads
  BY <1>0
<1>2. ~ p.refresh
  BY BusyButton
<1>3. q = [p EXCEPT !.loads = p.loads \ {l}]
  BY <1>0, Zenon DEF PairPages
<1> HIDE DEF q
<1>4. q \in PairPages
  BY <1>0, <1>1, <1>3, Zenon DEF PairPages
<1>5. /\ q.sources = p.sources /\ q.generation = p.generation /\ q.discovery = p.discovery
      /\ q.loads = p.loads \ {l} /\ q.discoveries = p.discoveries
      /\ q.active = p.active /\ q.refresh = p.refresh
      /\ q.comparison = p.comparison /\ q.panel = p.panel /\ q.chosen = p.chosen
  BY <1>0, <1>3, Zenon DEF PairPages
<1>6. PairTickets(q) /\ PairOrder(q, v)
  BY <1>5, Zenon DEF PairGood, PairFit, PairTickets, PairOrder
<1>7. PairDetailMatches(q) /\ PairSelection(q)
  BY <1>5, Zenon DEF PairGood, PairFit, PairDetailMatches, PairSelection
<1>8. IsFiniteSet(p.loads) /\ IsFiniteSet(p.discoveries) /\ p.active = UnderWay(p) + 0
  BY DEF PairGood, PairCount
<1>9. /\ IsFiniteSet(q.loads)
      /\ Cardinality(q.loads) + Cardinality(Nested(q.loads))
           = Cardinality(p.loads) + Cardinality(Nested(p.loads)) - LoadCounts(l)
  BY <1>0, <1>5, <1>8, NestedRemoves
<1>10. LoadCounts(l) \in Nat
  BY DEF LoadCounts
<1>11. /\ Cardinality(p.discoveries) \in Nat /\ Cardinality(p.loads) \in Nat
       /\ Cardinality(Nested(p.loads)) \in Nat
       /\ Cardinality(q.loads) \in Nat /\ Cardinality(Nested(q.loads)) \in Nat
  BY <1>5, <1>8, <1>9, UnderWayTyped
<1>12. PairCount(q, LoadCounts(l))
  <2> DEFINE n == LoadCounts(l)
  <2> HIDE DEF n
  <2>1. p.active = Cardinality(q.discoveries)
                     + (Cardinality(q.loads) + Cardinality(Nested(q.loads)) + n)
    BY <1>5, <1>8, <1>9, <1>10, <1>11 DEF UnderWay, n
  <2>2. p.active = UnderWay(q) + n
    BY <1>5, <1>10, <1>11, <2>1 DEF UnderWay, n
  <2> QED
    BY <1>5, <1>8, <1>9, <2>2 DEF PairCount, n
<1>13. PairFit(q, v) /\ ~ q.refresh
  BY <1>2, <1>4, <1>5, <1>6, <1>7 DEF PairFit
<1>14. PairGood(Ended(q, LoadCounts(l)), v) /\ Ended(q, LoadCounts(l)).comparison = q.comparison
  BY <1>7, <1>10, <1>12, <1>13, EndedKeepsGood
<1> QED
  BY <1>5, <1>14 DEF LoadEnded, q

\* loadComparison: the new ticket is later than every other; the load is for the
\* pair chosen, and what was compared is reset unless it is of that pair.
LEMMA LoadComparisonKeepsGood ==
    ASSUME NEW p, NEW v, PairFit(p, v), p.sources \in [Sides -> Sources],
           NEW changed \in BOOLEAN, NEW txid \in Txids \cup {None}, NEW nested \in BOOLEAN,
           ~ changed => PairSelection(p), PairCount(p, IF nested THEN 1 ELSE 0)
    PROVE  LET q == LoadComparison(p, changed, txid, nested)
           IN  PairGood(q, v) /\ q.comparison \in {None, p.comparison}
<1> DEFINE l == [ticket |-> p.generation + 1, sources |-> p.sources, nested |-> nested,
                 answers |-> [side \in Sides |-> None]]
           q == [Started(p) EXCEPT !.generation = Invalidated(@), !.loads = @ \cup {l}]
           r == PreparePendingView(ResetComparisonView(q), txid)
<1>0. /\ p \in PairPages /\ p.loads \in SUBSET PairLoads /\ p.active \in Int
      /\ p.generation \in Nat /\ p.generation + 1 \in Nat /\ p.active + 1 \in Int
  BY DEF PairFit, PairPages
<1>1. l \in PairLoads
  <2>1. [side \in Sides |-> None] \in [Sides -> Versions \cup {None}]
    OBVIOUS
  <2> DEFINE answers == [side \in Sides |-> None]
  <2> HIDE DEF answers
  <2> QED
    BY <1>0, <2>1, Zenon DEF PairLoads, answers
<1>2. /\ l.ticket = p.generation + 1 /\ l.nested = nested
      /\ \A side \in Sides : l.answers[side] = None
  OBVIOUS
<1>3. LoadComparison(p, changed, txid, nested) = IF changed THEN r ELSE q
  BY Zenon DEF LoadComparison, Invalidated, Unanswered
<1>4. q = [p EXCEPT !.active = p.active + 1, !.refresh = FALSE,
                    !.generation = p.generation + 1, !.loads = p.loads \cup {l}]
  BY <1>0, Zenon DEF Started, Invalidated, PairPages
<1> HIDE DEF l, q
<1>5. p.loads \cup {l} \in SUBSET PairLoads
  BY <1>0, <1>1
<1>6. q \in PairPages
  BY <1>0, <1>4, <1>5, Zenon DEF PairPages
<1>7. /\ q.sources = p.sources /\ q.generation = p.generation + 1
      /\ q.discovery = p.discovery
      /\ q.loads = p.loads \cup {l} /\ q.discoveries = p.discoveries
      /\ q.active = p.active + 1
      /\ q.comparison = p.comparison /\ q.panel = p.panel /\ q.chosen = p.chosen
  BY <1>0, <1>4, Zenon DEF PairPages
<1>8. ~ q.refresh
  BY <1>0, <1>4, Zenon DEF PairPages
<1>9. \A k \in p.loads : k.ticket \in Nat /\ k.ticket <= p.generation
  BY <1>0 DEF PairFit, PairTickets, PairLoads
<1>10. l \notin p.loads
  BY <1>0, <1>2, <1>9
<1>11. PairTickets(q)
  <2>1. \A k \in q.loads : k.ticket <= q.generation
    BY <1>0, <1>2, <1>7, <1>9
  <2>2. \A j, k \in q.loads : j.ticket = k.ticket => j = k
    <3>1. \A k \in p.loads : k.ticket # l.ticket
      BY <1>0, <1>2, <1>9
    <3> QED
      BY <1>7, <3>1 DEF PairFit, PairTickets
  <2> QED
    BY <1>7, <2>1, <2>2 DEF PairFit, PairTickets
<1>12. \A k \in q.loads : IsCurrent(q.generation, k.ticket) => k = l
  BY <1>0, <1>7, <1>9 DEF IsCurrent
<1>13. PairOrder(q, v)
  BY <1>2, <1>7, <1>12, Zenon DEF PairFit, PairOrder
<1>14. PairDetailMatches(q)
  BY <1>7, Zenon DEF PairFit, PairDetailMatches
<1>15. PairFit(q, v)
  BY <1>6, <1>11, <1>13, <1>14 DEF PairFit
<1>16. PairCount(q, 0) /\ PairButton(q)
  <2>1. IsFiniteSet(p.loads) /\ IsFiniteSet(p.discoveries)
    BY DEF PairCount
  <2>2. /\ IsFiniteSet(q.loads)
        /\ Cardinality(q.loads) + Cardinality(Nested(q.loads))
             = Cardinality(p.loads) + Cardinality(Nested(p.loads)) + LoadCounts(l)
    BY <1>1, <1>7, <1>10, <2>1, NestedAdds
  <2>3. /\ Cardinality(p.discoveries) \in Nat /\ Cardinality(p.loads) \in Nat
        /\ Cardinality(Nested(p.loads)) \in Nat
        /\ Cardinality(q.loads) \in Nat /\ Cardinality(Nested(q.loads)) \in Nat
    BY <1>7, <2>1, <2>2, UnderWayTyped
  <2>4. CASE nested
    <3>1. LoadCounts(l) = 2 /\ p.active = UnderWay(p) + 1
      BY <1>2, <2>4 DEF LoadCounts, PairCount
    <3> QED
      BY <1>7, <1>8, <2>1, <2>2, <2>3, <3>1 DEF PairCount, PairButton, UnderWay
  <2>5. CASE ~ nested
    <3>1. LoadCounts(l) = 1 /\ p.active = UnderWay(p) + 0
      BY <1>2, <2>5 DEF LoadCounts, PairCount
    <3> QED
      BY <1>7, <1>8, <2>1, <2>2, <2>3, <3>1 DEF PairCount, PairButton, UnderWay
  <2> QED
    BY <2>4, <2>5
<1>17. CASE ~ changed
  <2>1. LoadComparison(p, changed, txid, nested) = q
    BY <1>3, <1>17
  <2>2. PairSelection(q)
    BY <1>7, <1>17 DEF PairSelection
  <2>3. PairGood(q, v)
    BY <1>15, <1>16, <2>2 DEF PairGood
  <2> QED
    BY <1>7, <2>1, <2>3
<1>18. CASE changed
  <2>1. LoadComparison(p, changed, txid, nested) = r
    BY <1>3, <1>18
  <2>2. PairReset(q, r) /\ r.comparison = None
    BY <1>6, ResetAndPrepareResets
  <2> HIDE DEF r
  <2>3. PairFit(r, v)
    BY <1>15, <2>2, PairResetKeepsFit
  <2>4. PairCount(r, 0) /\ PairButton(r)
    BY <1>16, <2>2, PairResetKeepsCount DEF PairReset
  <2>5. PairGood(r, v)
    BY <2>2, <2>3, <2>4 DEF PairGood, PairSelection
  <2> QED
    BY <2>1, <2>2, <2>5
<1> QED
  BY <1>17, <1>18

\* discoverSources up to its await.
LEMMA DiscoverKeepsGood ==
    ASSUME NEW p, NEW v, PairGood(p, v)
    PROVE  PairGood(DiscoverSources(p), v) /\ DiscoverSources(p).comparison = p.comparison
<1> DEFINE d == [ticket |-> p.discovery + 1, answer |-> None]
           q == DiscoverSources(p)
<1>0. /\ p \in PairPages /\ p.discoveries \in SUBSET Discoveries /\ p.active \in Int
      /\ p.generation \in Nat /\ p.generation + 1 \in Nat /\ p.active + 1 \in Int
      /\ p.discovery \in Nat /\ p.discovery + 1 \in Nat /\ p.loads \in SUBSET PairLoads
  BY DEF PairGood, PairFit, PairPages
<1>1. d \in Discoveries /\ d.ticket = p.discovery + 1
  BY <1>0 DEF Discoveries
<1>2. q = [p EXCEPT !.active = p.active + 1, !.refresh = FALSE,
                    !.generation = p.generation + 1, !.discovery = p.discovery + 1,
                    !.discoveries = p.discoveries \cup {d}]
  BY <1>0, Zenon DEF DiscoverSources, Started, Invalidated, Unanswered, PairPages
<1> HIDE DEF d, q
<1>3. p.discoveries \cup {d} \in SUBSET Discoveries
  BY <1>0, <1>1
<1>4. q \in PairPages
  BY <1>0, <1>2, <1>3, Zenon DEF PairPages
<1>5. /\ q.sources = p.sources /\ q.generation = p.generation + 1
      /\ q.discovery = p.discovery + 1
      /\ q.loads = p.loads /\ q.discoveries = p.discoveries \cup {d}
      /\ q.active = p.active + 1
      /\ q.comparison = p.comparison /\ q.panel = p.panel /\ q.chosen = p.chosen
  BY <1>0, <1>2, Zenon DEF PairPages
<1>6. ~ q.refresh
  BY <1>0, <1>2, Zenon DEF PairPages
<1>7. \A c \in p.discoveries : c.ticket \in Nat /\ c.ticket <= p.discovery
  BY <1>0 DEF PairGood, PairFit, PairTickets, Discoveries
<1>8. \A l \in p.loads : l.ticket \in Nat /\ l.ticket <= p.generation
  BY <1>0 DEF PairGood, PairFit, PairTickets, PairLoads
<1>9. d \notin p.discoveries
  BY <1>0, <1>1, <1>7
<1>10. PairTickets(q)
  <2>1. \A l \in q.loads : l.ticket <= q.generation
    BY <1>0, <1>5, <1>8
  <2>2. \A c \in q.discoveries : c.ticket <= q.discovery
    BY <1>0, <1>1, <1>5, <1>7
  <2>3. \A b, c \in q.discoveries : b.ticket = c.ticket => b = c
    <3>1. \A c \in p.discoveries : c.ticket # d.ticket
      BY <1>0, <1>1, <1>7
    <3> QED
      BY <1>5, <3>1 DEF PairGood, PairFit, PairTickets
  <2> QED
    BY <1>5, <2>1, <2>2, <2>3 DEF PairGood, PairFit, PairTickets
<1>11. \A l \in q.loads : ~ IsCurrent(q.generation, l.ticket)
  BY <1>0, <1>5, <1>8 DEF IsCurrent
<1>12. PairOrder(q, v)
  BY <1>5, <1>11, Zenon DEF PairGood, PairFit, PairOrder
<1>13. PairDetailMatches(q) /\ PairSelection(q)
  BY <1>5, Zenon DEF PairGood, PairFit, PairDetailMatches, PairSelection
<1>14. PairCount(q, 0) /\ PairButton(q)
  <2>1. IsFiniteSet(p.loads) /\ IsFiniteSet(p.discoveries) /\ p.active = UnderWay(p) + 0
    BY DEF PairGood, PairCount
  <2>2. /\ IsFiniteSet(q.discoveries)
        /\ Cardinality(q.discoveries) = Cardinality(p.discoveries) + 1
    BY <1>5, <1>9, <2>1, FS_AddElement
  <2>3. /\ Cardinality(p.discoveries) \in Nat /\ Cardinality(p.loads) \in Nat
        /\ Cardinality(Nested(p.loads)) \in Nat
    BY <2>1, UnderWayTyped
  <2> QED
    BY <1>5, <1>6, <2>1, <2>2, <2>3 DEF PairCount, PairButton, UnderWay
<1> QED
  BY <1>4, <1>5, <1>10, <1>12, <1>13, <1>14 DEF PairGood, PairFit, q

\* A discovery leaves, still counted; the generation may be invalidated, and the
\* pair and the sources known may change.
LEMMA DiscoveryLeaves ==
    ASSUME NEW p, NEW v, PairGood(p, v), NEW d \in p.discoveries,
           NEW q \in PairPages, NEW generation \in Nat,
           generation = p.generation \/ generation = p.generation + 1,
           q.generation = generation, q.discovery = p.discovery,
           q.loads = p.loads, q.discoveries = p.discoveries \ {d},
           q.active = p.active, q.refresh = p.refresh,
           q.comparison = p.comparison, q.panel = p.panel, q.chosen = p.chosen
    PROVE  PairFit(q, v) /\ PairCount(q, 1) /\ ~ q.refresh
<1>0. /\ p \in PairPages /\ p.loads \in SUBSET PairLoads
      /\ p.generation \in Nat /\ p.active \in Int
  BY DEF PairGood, PairFit, PairPages
<1>1. ~ p.refresh
  BY BusyButton
<1>2. ~ q.refresh
  BY <1>1, Zenon
<1>3. \A l \in p.loads : l.ticket \in Nat /\ l.ticket <= p.generation
  BY <1>0 DEF PairGood, PairFit, PairTickets, PairLoads
<1>4. \A l \in q.loads : l.ticket <= q.generation
  BY <1>0, <1>3
<1>5. PairTickets(q)
  BY <1>4 DEF PairGood, PairFit, PairTickets
<1>6. \A l \in q.loads : IsCurrent(q.generation, l.ticket) => IsCurrent(p.generation, l.ticket)
  BY <1>0, <1>3 DEF IsCurrent
<1>7. PairOrder(q, v)
  BY <1>6, Zenon DEF PairGood, PairFit, PairOrder
<1>8. PairDetailMatches(q)
  BY Zenon DEF PairGood, PairFit, PairDetailMatches
<1>9. PairCount(q, 1)
  <2>1. IsFiniteSet(p.loads) /\ IsFiniteSet(p.discoveries) /\ p.active = UnderWay(p) + 0
    BY DEF PairGood, PairCount
  <2>2. /\ IsFiniteSet(q.discoveries)
        /\ Cardinality(q.discoveries) = Cardinality(p.discoveries) - 1
    BY <2>1, FS_RemoveElement
  <2>3. /\ Cardinality(p.discoveries) \in Nat /\ Cardinality(p.loads) \in Nat
        /\ Cardinality(Nested(p.loads)) \in Nat
    BY <2>1, UnderWayTyped
  <2> QED
    BY <2>1, <2>2, <2>3 DEF PairCount, UnderWay
<1> QED
  BY <1>2, <1>5, <1>7, <1>8, <1>9 DEF PairFit

-----------------------------------------------------------------------------
(* The actions of the comparison *)

\* What an action of the page is to show.
PairStep(v) == PairGood(pair', v) /\ PairNotOlder(pair, pair')

\* A step that keeps what is compared, or drops it, replaces nothing.
LEMMA SameComparisonNotOlder ==
    ASSUME NEW p \in PairPages, NEW q, q.comparison \in {None, p.comparison}
    PROVE  PairNotOlder(p, q)
<1>1. p.comparison # None => \A side \in Sides : p.comparison.versions[side] \in Nat
  BY BrowserAssumption DEF PairPages, Comparisons, Versions
<1> QED
  BY <1>1 DEF PairNotOlder

\* A good page is of its type.
LEMMA GoodPairTyped ==
    ASSUME NEW p, NEW v, PairGood(p, v)
    PROVE  p \in PairPages
  BY DEF PairGood, PairFit

\* A select or the swap button: the pair is another one.
LEMMA WithPairKeepsGood ==
    ASSUME NEW p, NEW v, PairGood(p, v), NEW sources \in [Sides -> Sources]
    PROVE  PairGood(WithPair(p, sources), v)
             /\ WithPair(p, sources).comparison \in {None, p.comparison}
<1> DEFINE q == [p EXCEPT !.discovery = Invalidated(@), !.generation = Invalidated(@),
                          !.sources = sources]
<1>0. /\ p \in PairPages /\ p.loads \in SUBSET PairLoads
      /\ p.discoveries \in SUBSET Discoveries
      /\ p.generation \in Nat /\ p.generation + 1 \in Nat
      /\ p.discovery \in Nat /\ p.discovery + 1 \in Nat
  BY DEF PairGood, PairFit, PairPages
<1>1. sources \in Choices
  BY DEF Choices
<1>2. q = [p EXCEPT !.discovery = p.discovery + 1, !.generation = p.generation + 1,
                    !.sources = sources]
  BY <1>0, Zenon DEF Invalidated, PairPages
<1> HIDE DEF q
<1>3. q \in PairPages
  BY <1>0, <1>1, <1>2, Zenon DEF PairPages
<1>4. /\ q.sources = sources /\ q.generation = p.generation + 1
      /\ q.discovery = p.discovery + 1
      /\ q.loads = p.loads /\ q.discoveries = p.discoveries /\ q.active = p.active
      /\ q.comparison = p.comparison /\ q.panel = p.panel /\ q.chosen = p.chosen
  BY <1>0, <1>2, Zenon DEF PairPages
<1>5. \A l \in p.loads : l.ticket \in Nat /\ l.ticket <= p.generation
  BY <1>0 DEF PairGood, PairFit, PairTickets, PairLoads
<1>6. \A d \in p.discoveries : d.ticket \in Nat /\ d.ticket <= p.discovery
  BY <1>0 DEF PairGood, PairFit, PairTickets, Discoveries
<1>7. /\ \A l \in q.loads : l.ticket <= q.generation
      /\ \A d \in q.discoveries : d.ticket <= q.discovery
  BY <1>0, <1>4, <1>5, <1>6
<1>8. PairTickets(q)
  BY <1>4, <1>7 DEF PairGood, PairFit, PairTickets
<1>9. \A l \in q.loads : ~ IsCurrent(q.generation, l.ticket)
  BY <1>0, <1>4, <1>5 DEF IsCurrent
<1>10. PairOrder(q, v)
  BY <1>4, <1>9, Zenon DEF PairGood, PairFit, PairOrder
<1>11. PairDetailMatches(q)
  BY <1>4, Zenon DEF PairGood, PairFit, PairDetailMatches
<1>12. PairFit(q, v)
  BY <1>3, <1>8, <1>10, <1>11 DEF PairFit
<1>13. PairCount(q, 0)
  BY <1>4 DEF PairGood, PairCount, UnderWay
<1>14. WithPair(p, sources) = LoadComparison(q, TRUE, None, FALSE)
  BY DEF WithPair, q
<1>15. /\ PairGood(LoadComparison(q, TRUE, None, FALSE), v)
       /\ LoadComparison(q, TRUE, None, FALSE).comparison \in {None, q.comparison}
  BY <1>4, <1>12, <1>13, LoadComparisonKeepsGood
<1> QED
  BY <1>4, <1>14, <1>15

\* selectionChanged.
LEMMA SelectionChangedKeepsGood ==
    ASSUME PairGood(pair, server), SelectionChanged
    PROVE  PairStep(server)
<1>0. pair \in PairPages
  BY GoodPairTyped
<1>1. PICK side \in Sides, s \in pair.known :
          /\ Complete([pair.sources EXCEPT ![side] = s])
          /\ pair' = WithPair(pair, [pair.sources EXCEPT ![side] = s])
  BY DEF SelectionChanged
<1> DEFINE sources == [pair.sources EXCEPT ![side] = s]
<1>2. s \in Sources /\ pair.sources \in Choices
  BY <1>0 DEF PairPages
<1>3. sources \in Choices
  BY <1>2 DEF Choices
<1> HIDE DEF sources
<1>4. sources \in [Sides -> Sources]
  BY <1>1, <1>3 DEF Complete, Choices, sources
<1> QED
  BY <1>0, <1>1, <1>4, WithPairKeepsGood, SameComparisonNotOlder DEF PairStep, sources

\* The swap button.
LEMMA SwapKeepsGood ==
    ASSUME PairGood(pair, server), SwapSources
    PROVE  PairStep(server)
<1>0. pair \in PairPages /\ pair.sources \in Choices
  BY GoodPairTyped DEF PairPages
<1> DEFINE sources == [side \in Sides |-> pair.sources[CHOOSE other \in Sides : other # side]]
<1>1. pair.sources \in [Sides -> Sources]
  BY <1>0 DEF SwapSources, Complete, Choices
<1>2. \A side \in Sides : \E other \in Sides : other # side
  BY DEF Sides
<1>3. \A side \in Sides : (CHOOSE other \in Sides : other # side) \in Sides
  BY <1>2
<1>4. sources \in [Sides -> Sources]
  BY <1>1, <1>3
<1>5. pair' = WithPair(pair, sources)
  BY DEF SwapSources
<1> HIDE DEF sources
<1> QED
  BY <1>0, <1>4, <1>5, WithPairKeepsGood, SameComparisonNotOlder DEF PairStep

\* The refresh button.
LEMMA RefreshComparisonKeepsGood ==
    ASSUME PairGood(pair, server), RefreshComparison
    PROVE  PairStep(server)
<1>1. pair' = DiscoverSources(pair)
  BY DEF RefreshComparison
<1> QED
  BY <1>1, GoodPairTyped, DiscoverKeepsGood, SameComparisonNotOlder DEF PairStep

\* transitionComparisonView.
LEMMA TransitionKeepsGood ==
    ASSUME PairGood(pair, server), TransitionView
    PROVE  PairStep(server)
<1>0. pair \in PairPages
  BY GoodPairTyped
<1>1. PICK txid \in Txids \cup {None} :
          pair' = IF pair.comparison = None THEN PreparePendingView(pair, txid)
                  ELSE ApplyLoadedView(pair, txid)
  BY DEF TransitionView
<1>2. PairReset(pair, pair') /\ pair'.comparison = pair.comparison
  <2>1. CASE pair.comparison = None
    BY <1>0, <1>1, <2>1, PrepareResets
  <2>2. CASE pair.comparison # None
    <3>1. pair.comparison \in Comparisons
      BY <1>0, <2>2 DEF PairPages
    <3> QED
      BY <1>0, <1>1, <2>2, <3>1, ApplyResets
  <2> QED
    BY <2>1, <2>2
<1> QED
  BY <1>0, <1>2, PairResetKeepsGood, SameComparisonNotOlder DEF PairStep

\* The requests under way change, but not in number, and nothing else does.
LEMMA ServedKeepsGood ==
    ASSUME NEW p, NEW v, PairGood(p, v), NEW q \in PairPages,
           q.sources = p.sources, q.generation = p.generation, q.discovery = p.discovery,
           q.active = p.active, q.refresh = p.refresh, q.comparison = p.comparison,
           q.panel = p.panel, q.chosen = p.chosen,
           PairTickets(q), PairOrder(q, v),
           IsFiniteSet(q.loads), IsFiniteSet(q.discoveries), UnderWay(q) = UnderWay(p)
    PROVE  PairGood(q, v) /\ PairNotOlder(p, q)
<1>1. PairDetailMatches(q) /\ PairSelection(q)
  BY Zenon DEF PairGood, PairFit, PairDetailMatches, PairSelection
<1>2. PairCount(q, 0)
  BY DEF PairGood, PairCount
<1>3. PairButton(q)
  BY Zenon DEF PairGood, PairButton
<1> QED
  BY <1>1, <1>2, <1>3, GoodPairTyped, SameComparisonNotOlder DEF PairGood, PairFit

\* A discovery is served.
LEMMA DiscoveryServedKeepsGood ==
    ASSUME PairGood(pair, server), DiscoveryServed
    PROVE  PairStep(server)
<1>0. pair \in PairPages /\ pair.discoveries \in SUBSET Discoveries
  BY GoodPairTyped DEF PairPages
<1>1. PICK d \in pair.discoveries :
          pair' = [pair EXCEPT !.discoveries = (@ \ {d}) \cup
                {[d EXCEPT !.answer = {s \in Sources : Loaded(s, server)}]}]
  BY DEF DiscoveryServed
<1> DEFINE available == {s \in Sources : Loaded(s, server)}
           c == [d EXCEPT !.answer = available]
           others == pair.discoveries \ {d}
<1>2. available \in SUBSET Sources
  OBVIOUS
<1> HIDE DEF available
<1>3. c \in Discoveries /\ c.ticket = d.ticket
  BY <1>0, <1>2 DEF Discoveries
<1>4. pair' = [pair EXCEPT !.discoveries = others \cup {c}]
  BY <1>0, <1>1, Zenon DEF available, PairPages
<1> HIDE DEF c
<1>5. others \cup {c} \in SUBSET Discoveries
  BY <1>0, <1>3
<1>6. pair' \in PairPages
  BY <1>0, <1>4, <1>5, Zenon DEF PairPages
<1>7. /\ pair'.sources = pair.sources /\ pair'.generation = pair.generation
      /\ pair'.discovery = pair.discovery
      /\ pair'.loads = pair.loads /\ pair'.discoveries = others \cup {c}
      /\ pair'.active = pair.active /\ pair'.refresh = pair.refresh
      /\ pair'.comparison = pair.comparison /\ pair'.panel = pair.panel
      /\ pair'.chosen = pair.chosen
  BY <1>0, <1>4, Zenon DEF PairPages
<1>8. PairTickets(pair')
  <2>1. PairTickets(pair)
    BY DEF PairGood, PairFit
  <2>2. \A a, b \in pair'.discoveries : a.ticket = b.ticket => a = b
    BY <1>3, <1>7, <2>1 DEF PairTickets
  <2>3. \A a \in pair'.discoveries : a.ticket <= pair'.discovery
    BY <1>3, <1>7, <2>1, Zenon DEF PairTickets
  <2> QED
    BY <1>7, <2>1, <2>2, <2>3, Zenon DEF PairTickets
<1>9. PairOrder(pair', server)
  BY <1>7, Zenon DEF PairGood, PairFit, PairOrder
<1>10. c \notin others
  BY <1>3 DEF PairGood, PairFit, PairTickets
<1>11. IsFiniteSet(pair.discoveries) /\ IsFiniteSet(pair.loads)
  BY DEF PairGood, PairCount
<1>12. IsFiniteSet(others) /\ Cardinality(others) = Cardinality(pair.discoveries) - 1
  BY <1>11, FS_RemoveElement
<1>13. /\ IsFiniteSet(others \cup {c})
       /\ Cardinality(others \cup {c}) = Cardinality(others) + 1
  BY <1>10, <1>12, FS_AddElement
<1>14. Cardinality(others \cup {c}) = Cardinality(pair.discoveries)
  BY <1>11, <1>12, <1>13, FS_CardinalityType
<1>15. UnderWay(pair') = UnderWay(pair)
  BY <1>7, <1>14 DEF UnderWay
<1> QED
  BY <1>6, <1>7, <1>8, <1>9, <1>11, <1>13, <1>15, ServedKeepsGood DEF PairStep

\* One of the two snapshots of a load is served.
LEMMA SnapshotServedKeepsGood ==
    ASSUME server \in Versions, PairGood(pair, server), SnapshotServed
    PROVE  PairStep(server)
<1>0. pair \in PairPages /\ pair.loads \in SUBSET PairLoads
  BY GoodPairTyped DEF PairPages
<1>1. PICK l \in pair.loads, side \in Sides :
          pair' = [pair EXCEPT !.loads = (@ \ {l}) \cup {[l EXCEPT !.answers[side] = server]}]
  BY DEF SnapshotServed
<1> DEFINE answers == [l.answers EXCEPT ![side] = server]
           k == [l EXCEPT !.answers = answers]
           others == pair.loads \ {l}
<1>2. l \in PairLoads /\ l.answers \in [Sides -> Versions \cup {None}]
  BY <1>0 DEF PairLoads
<1>3. /\ answers \in [Sides -> Versions \cup {None}]
      /\ answers[side] = server
      /\ \A other \in Sides : other # side => answers[other] = l.answers[other]
  BY <1>2
<1>4. pair' = [pair EXCEPT !.loads = others \cup {k}]
  BY <1>0, <1>1, Zenon DEF PairPages
<1> HIDE DEF answers
<1>5. k \in PairLoads /\ k.ticket = l.ticket /\ k.answers = answers /\ k.nested = l.nested
  BY <1>2, <1>3, Zenon DEF PairLoads
<1> HIDE DEF k
<1>6. others \cup {k} \in SUBSET PairLoads
  BY <1>0, <1>5
<1>7. pair' \in PairPages
  BY <1>0, <1>4, <1>6, Zenon DEF PairPages
<1>8. /\ pair'.sources = pair.sources /\ pair'.generation = pair.generation
      /\ pair'.discovery = pair.discovery
      /\ pair'.discoveries = pair.discoveries /\ pair'.loads = others \cup {k}
      /\ pair'.active = pair.active /\ pair'.refresh = pair.refresh
      /\ pair'.comparison = pair.comparison /\ pair'.panel = pair.panel
      /\ pair'.chosen = pair.chosen
  BY <1>0, <1>4, Zenon DEF PairPages
<1>9. PairTickets(pair')
  <2>1. PairTickets(pair)
    BY DEF PairGood, PairFit
  <2>2. \A a, b \in pair'.loads : a.ticket = b.ticket => a = b
    BY <1>5, <1>8, <2>1 DEF PairTickets
  <2>3. \A a \in pair'.loads : a.ticket <= pair'.generation
    BY <1>5, <1>8, <2>1, Zenon DEF PairTickets
  <2> QED
    BY <1>8, <2>1, <2>2, <2>3, Zenon DEF PairTickets
<1>10. PairOrder(pair', server)
  <2>1. server <= server
    BY BrowserAssumption DEF Versions
  <2>2. PairOrder(pair, server)
    BY DEF PairGood, PairFit
  <2>3. \A other \in Sides : k.answers[other] \in {server, l.answers[other]}
    BY <1>3, <1>5
  <2>4. \A other \in Sides :
          /\ k.answers[other] # None => k.answers[other] <= server
          /\ IsCurrent(pair.generation, k.ticket) /\ k.answers[other] # None
             /\ pair.comparison # None
             => pair.comparison.versions[other] <= k.answers[other]
    BY <1>5, <2>1, <2>2, <2>3 DEF PairOrder
  <2> QED
    BY <1>8, <2>2, <2>4, Zenon DEF PairOrder
<1>11. k \notin others
  BY <1>5 DEF PairGood, PairFit, PairTickets
<1>12. IsFiniteSet(pair.discoveries) /\ IsFiniteSet(pair.loads)
  BY DEF PairGood, PairCount
<1>13. /\ IsFiniteSet(others)
       /\ Cardinality(others) + Cardinality(Nested(others))
            = Cardinality(pair.loads) + Cardinality(Nested(pair.loads)) - LoadCounts(l)
  BY <1>0, <1>12, NestedRemoves
<1>14. /\ IsFiniteSet(others \cup {k})
       /\ Cardinality(others \cup {k}) + Cardinality(Nested(others \cup {k}))
            = Cardinality(others) + Cardinality(Nested(others)) + LoadCounts(k)
  BY <1>5, <1>11, <1>13, NestedAdds
<1>15. LoadCounts(k) = LoadCounts(l) /\ LoadCounts(l) \in Nat
  BY <1>5 DEF LoadCounts
<1> HIDE DEF others
<1>16. /\ Cardinality(pair.discoveries) \in Nat /\ Cardinality(pair.loads) \in Nat
       /\ Cardinality(Nested(pair.loads)) \in Nat
  BY <1>12, UnderWayTyped
<1>17. /\ Cardinality(pair'.loads) \in Nat /\ Cardinality(Nested(pair'.loads)) \in Nat
       /\ Cardinality(others) \in Nat /\ Cardinality(Nested(others)) \in Nat
  <2>1. IsFiniteSet(Nested(others)) /\ IsFiniteSet(Nested(others \cup {k}))
    BY <1>13, <1>14, FS_Subset DEF Nested
  <2> QED
    BY <1>8, <1>13, <1>14, <2>1, FS_CardinalityType
<1>18. Cardinality(pair'.loads) + Cardinality(Nested(pair'.loads))
         = Cardinality(pair.loads) + Cardinality(Nested(pair.loads))
  BY <1>8, <1>13, <1>14, <1>15, <1>16, <1>17
<1>19. UnderWay(pair') = UnderWay(pair)
  BY <1>8, <1>16, <1>17, <1>18 DEF UnderWay
<1> QED
  BY <1>7, <1>8, <1>9, <1>10, <1>12, <1>14, <1>19, ServedKeepsGood DEF PairStep

\* The pair is chosen after a discovery that is still counted.
LEMMA PairDiscoveredKeepsGood ==
    ASSUME NEW p, NEW v, PairFit(p, v), PairSelection(p), PairCount(p, 1), ~ p.refresh,
           NEW sources \in Choices
    PROVE  PairGood(PairDiscovered(p, sources), v)
             /\ PairDiscovered(p, sources).comparison \in {None, p.comparison}
<1>0. /\ p \in PairPages /\ p.generation \in Nat /\ p.generation + 1 \in Nat
      /\ p.loads \in SUBSET PairLoads
  BY DEF PairFit, PairPages
<1>1. NoPair \in Choices
  BY DEF NoPair, Choices
<1>2. CASE Complete(sources)
  <2> DEFINE q == [p EXCEPT !.sources = sources, !.requested = NoPair]
             changed == p.comparison = None \/ p.comparison.sources # sources
             txid == IF Complete(p.sources) /\ p.sources # sources THEN None ELSE p.chosen
  <2>1. PairDiscovered(p, sources) = LoadComparison(q, changed, txid, TRUE)
    BY <1>2 DEF PairDiscovered
  <2>2. q \in PairPages
    BY <1>0, <1>1, Zenon DEF PairPages
  <2>3. /\ q.sources = sources /\ q.generation = p.generation
        /\ q.discovery = p.discovery
        /\ q.loads = p.loads /\ q.discoveries = p.discoveries /\ q.active = p.active
        /\ q.comparison = p.comparison /\ q.panel = p.panel /\ q.chosen = p.chosen
    BY <1>0, Zenon DEF PairPages
  <2> HIDE DEF q
  <2>4. PairTickets(q) /\ PairOrder(q, v)
    BY <2>3, Zenon DEF PairFit, PairTickets, PairOrder
  <2>5. PairDetailMatches(q)
    BY <2>3, Zenon DEF PairFit, PairDetailMatches
  <2>6. PairFit(q, v)
    BY <2>2, <2>4, <2>5 DEF PairFit
  <2>7. PairCount(q, IF TRUE THEN 1 ELSE 0)
    BY <2>3 DEF PairCount, UnderWay
  <2>8. q.sources \in [Sides -> Sources]
    BY <1>2, <2>3 DEF Complete, Choices
  <2>9. changed \in BOOLEAN /\ txid \in Txids \cup {None}
    BY <1>0, Zenon DEF PairPages
  <2>10. ~ changed => PairSelection(q)
    BY <2>3 DEF PairSelection
  <2> HIDE DEF changed, txid
  <2>11. /\ PairGood(LoadComparison(q, changed, txid, TRUE), v)
         /\ LoadComparison(q, changed, txid, TRUE).comparison \in {None, q.comparison}
    BY <2>6, <2>7, <2>8, <2>9, <2>10, LoadComparisonKeepsGood
  <2> QED
    BY <2>1, <2>3, <2>11
<1>3. CASE ~ Complete(sources)
  <2> DEFINE q == [p EXCEPT !.sources = sources, !.requested = NoPair,
                            !.generation = Invalidated(@)]
             r == ResetComparisonView(q)
  <2>1. PairDiscovered(p, sources) = Ended(r, 1)
    BY <1>3 DEF PairDiscovered
  <2>2. q = [p EXCEPT !.sources = sources, !.requested = NoPair,
                      !.generation = p.generation + 1]
    BY <1>0, Zenon DEF Invalidated, PairPages
  <2> HIDE DEF q
  <2>3. q \in PairPages
    BY <1>0, <1>1, <2>2, Zenon DEF PairPages
  <2>4. /\ q.sources = sources /\ q.generation = p.generation + 1
        /\ q.discovery = p.discovery
        /\ q.loads = p.loads /\ q.discoveries = p.discoveries
        /\ q.active = p.active /\ q.refresh = p.refresh
        /\ q.comparison = p.comparison /\ q.panel = p.panel /\ q.chosen = p.chosen
    BY <1>0, <2>2, Zenon DEF PairPages
  <2>5. \A l \in p.loads : l.ticket \in Nat /\ l.ticket <= p.generation
    BY <1>0 DEF PairFit, PairTickets, PairLoads
  <2>6. /\ \A l \in q.loads : l.ticket <= q.generation
        /\ \A l \in q.loads : ~ IsCurrent(q.generation, l.ticket)
    BY <1>0, <2>4, <2>5 DEF IsCurrent
  <2>7. PairTickets(q)
    BY <2>4, <2>6 DEF PairFit, PairTickets
  <2>8. PairOrder(q, v)
    BY <2>4, <2>6, Zenon DEF PairFit, PairOrder
  <2>9. PairDetailMatches(q)
    BY <2>4, Zenon DEF PairFit, PairDetailMatches
  <2>10. PairFit(q, v) /\ PairCount(q, 1) /\ ~ q.refresh
    BY <2>3, <2>4, <2>7, <2>8, <2>9 DEF PairFit, PairCount, UnderWay
  <2>11. PairReset(q, r) /\ r.comparison = None
    BY <2>3, ResetViewResets
  <2> HIDE DEF r
  <2>12. PairFit(r, v) /\ PairCount(r, 1)
    BY <2>10, <2>11, PairResetKeepsFit, PairResetKeepsCount DEF PairReset
  <2>13. ~ r.refresh /\ PairSelection(r)
    BY <2>10, <2>11, Zenon DEF PairReset, PairSame, PairSelection
  <2>14. PairGood(Ended(r, 1), v) /\ Ended(r, 1).comparison = r.comparison
    BY <2>12, <2>13, EndedKeepsGood
  <2> QED
    BY <2>1, <2>11, <2>14
<1> QED
  BY <1>2, <1>3

\* A discovery ends: only the latest one chooses a pair.
LEMMA DiscoveryEndsKeepsGood ==
    ASSUME PairGood(pair, server), DiscoveryEnds
    PROVE  PairStep(server)
<1>0. /\ pair \in PairPages /\ pair.discoveries \in SUBSET Discoveries
      /\ pair.generation \in Nat /\ pair.generation + 1 \in Nat
  BY GoodPairTyped DEF PairPages
<1>1. PICK d \in pair.discoveries :
          \/ d.answer # None /\ pair' = DiscoveryArrives(pair, d)
          \/ pair' = DiscoveryFails(pair, d)
  BY DEF DiscoveryEnds, Unanswered
<1>2. pair.discoveries \ {d} \in SUBSET Discoveries
  BY <1>0
<1> DEFINE left(g) == [pair EXCEPT !.discoveries = @ \ {d}, !.generation = g]
<1>3. ASSUME NEW g \in Nat, g = pair.generation \/ g = pair.generation + 1
      PROVE  /\ PairFit(left(g), server) /\ PairCount(left(g), 1) /\ ~ left(g).refresh
             /\ PairSelection(left(g)) /\ left(g).comparison = pair.comparison
  <2> DEFINE q == left(g)
  <2>1. q \in PairPages
    BY <1>0, <1>2, <1>3, Zenon DEF PairPages
  <2>2. /\ q.sources = pair.sources /\ q.generation = g
        /\ q.discovery = pair.discovery
        /\ q.loads = pair.loads /\ q.discoveries = pair.discoveries \ {d}
        /\ q.active = pair.active /\ q.refresh = pair.refresh
        /\ q.comparison = pair.comparison /\ q.panel = pair.panel /\ q.chosen = pair.chosen
    BY <1>0, Zenon DEF PairPages
  <2> HIDE DEF q
  <2>3. PairFit(q, server) /\ PairCount(q, 1) /\ ~ q.refresh
    BY <1>3, <2>1, <2>2, DiscoveryLeaves
  <2>4. PairSelection(q)
    BY <2>2 DEF PairGood, PairSelection
  <2> QED
    BY <2>2, <2>3, <2>4 DEF q
<1>4. CASE pair' = DiscoveryFails(pair, d)
  <2> DEFINE g == IF IsCurrent(pair.discovery, d.ticket)
                  THEN pair.generation + 1 ELSE pair.generation
  <2>1. g \in Nat /\ (g = pair.generation \/ g = pair.generation + 1)
    BY <1>0
  <2>2. pair' = Ended(left(g), 1)
    BY <1>0, <1>4, Zenon DEF DiscoveryFails, Invalidated, PairPages
  <2> HIDE DEF g
  <2>3. /\ PairFit(left(g), server) /\ PairCount(left(g), 1) /\ ~ left(g).refresh
        /\ PairSelection(left(g)) /\ left(g).comparison = pair.comparison
    BY <1>3, <2>1
  <2> DEFINE q == left(g)
  <2> HIDE DEF q
  <2>4. PairGood(Ended(q, 1), server) /\ Ended(q, 1).comparison = q.comparison
    BY <2>3, EndedKeepsGood DEF q
  <2> QED
    BY <1>0, <2>2, <2>3, <2>4, SameComparisonNotOlder DEF PairStep, q
<1>5. CASE d.answer # None /\ pair' = DiscoveryArrives(pair, d)
  <2> DEFINE rest == [pair EXCEPT !.discoveries = @ \ {d}]
  <2>1. rest = left(pair.generation)
    BY <1>0, Zenon DEF PairPages
  <2>2. /\ PairFit(rest, server) /\ PairCount(rest, 1) /\ ~ rest.refresh
        /\ PairSelection(rest) /\ rest.comparison = pair.comparison
    <3> DEFINE g == pair.generation
    <3> HIDE DEF g
    <3>1. /\ PairFit(left(g), server) /\ PairCount(left(g), 1) /\ ~ left(g).refresh
          /\ PairSelection(left(g)) /\ left(g).comparison = pair.comparison
      BY <1>0, <1>3 DEF g
    <3>2. rest = left(g)
      BY <2>1 DEF g
    <3> HIDE DEF rest, left
    <3> QED
      BY <3>1, <3>2, Zenon
  <2>3. CASE ~ IsCurrent(pair.discovery, d.ticket)
    <3>1. pair' = Ended(rest, 1)
      BY <1>5, <2>3 DEF DiscoveryArrives
    <3> HIDE DEF rest
    <3>2. PairGood(Ended(rest, 1), server) /\ Ended(rest, 1).comparison = rest.comparison
      BY <2>2, EndedKeepsGood
    <3> QED
      BY <1>0, <2>2, <3>1, <3>2, SameComparisonNotOlder DEF PairStep
  <2>4. CASE IsCurrent(pair.discovery, d.ticket)
    <3> DEFINE q == [rest EXCEPT !.known = d.answer]
               sources == ChooseInitialSources(pair, d.answer)
    <3>1. pair' = PairDiscovered(q, sources)
      BY <1>5, <2>4 DEF DiscoveryArrives
    <3>2. d.answer \in SUBSET Sources
      BY <1>0, <1>5 DEF Discoveries
    <3>3. sources \in Choices
      BY <1>0, <3>2, ChosenTyped
    <3> HIDE DEF rest, sources
    <3>4. rest \in PairPages
      BY <2>2 DEF PairFit
    <3>5. q \in PairPages
      BY <3>2, <3>4, Zenon DEF PairPages
    <3>6. /\ q.sources = rest.sources /\ q.generation = rest.generation
          /\ q.discovery = rest.discovery
          /\ q.loads = rest.loads /\ q.discoveries = rest.discoveries
          /\ q.active = rest.active /\ q.refresh = rest.refresh
          /\ q.comparison = rest.comparison /\ q.panel = rest.panel
          /\ q.chosen = rest.chosen
      BY <3>4, Zenon DEF PairPages
    <3> HIDE DEF q
    <3>7. PairTickets(q) /\ PairOrder(q, server)
      BY <2>2, <3>6, Zenon DEF PairFit, PairTickets, PairOrder
    <3>8. PairDetailMatches(q) /\ PairSelection(q)
      BY <2>2, <3>6, Zenon DEF PairFit, PairDetailMatches, PairSelection
    <3>9. PairFit(q, server)
      BY <3>5, <3>7, <3>8 DEF PairFit
    <3>10. PairCount(q, 1)
      BY <2>2, <3>6 DEF PairCount, UnderWay
    <3>11. ~ q.refresh
      BY <2>2, <3>6, Zenon
    <3>12. /\ PairGood(PairDiscovered(q, sources), server)
           /\ PairDiscovered(q, sources).comparison \in {None, q.comparison}
      BY <3>3, <3>8, <3>9, <3>10, <3>11, PairDiscoveredKeepsGood
    <3> QED
      BY <1>0, <2>2, <3>1, <3>6, <3>12, SameComparisonNotOlder DEF PairStep
  <2> QED
    BY <2>3, <2>4
<1> QED
  BY <1>1, <1>4, <1>5

\* A load fails: the previous comparison of the pair stays, if there is one.
LEMMA ComparisonFailsKeepsGood ==
    ASSUME NEW p, NEW v, PairGood(p, v), NEW l \in p.loads
    PROVE  PairGood(ComparisonFails(p, l), v)
             /\ ComparisonFails(p, l).comparison \in {None, p.comparison}
<1> DEFINE q == PreparePendingView(ResetComparisonView(p), p.chosen)
<1>0. p \in PairPages /\ p.chosen \in Txids \cup {None}
  BY GoodPairTyped DEF PairPages
<1>1. PairReset(p, q) /\ q.comparison = None
  BY <1>0, ResetAndPrepareResets
<1>2. ComparisonFails(p, l) \in {LoadEnded(p, l), LoadEnded(q, l)}
  BY DEF ComparisonFails
<1> HIDE DEF q
<1>3. PairGood(q, v) /\ l \in q.loads
  BY <1>1, PairResetKeepsGood DEF PairReset, PairSame
<1>4. PairGood(LoadEnded(q, l), v) /\ LoadEnded(q, l).comparison = q.comparison
  BY <1>3, LoadEndedKeepsGood
<1>5. PairGood(LoadEnded(p, l), v) /\ LoadEnded(p, l).comparison = p.comparison
  BY LoadEndedKeepsGood
<1> QED
  BY <1>1, <1>2, <1>4, <1>5

\* A load ends: only the current one of the pair chosen is compared, and neither
\* of its snapshots is older than the one compared before.
LEMMA ComparisonEndsKeepsGood ==
    ASSUME server \in Versions, PairGood(pair, server), ComparisonEnds
    PROVE  PairStep(server)
<1>0. /\ pair \in PairPages /\ pair.loads \in SUBSET PairLoads
      /\ pair.chosen \in Txids \cup {None}
  BY GoodPairTyped DEF PairPages
<1>1. PICK l \in pair.loads :
          \/ /\ \A side \in Sides : l.answers[side] # None
             /\ pair' = ComparisonArrives(pair, l)
          \/ pair' = ComparisonFails(pair, l)
  BY DEF ComparisonEnds, Unanswered
<1>2. CASE pair' = ComparisonFails(pair, l)
  BY <1>0, <1>2, ComparisonFailsKeepsGood, SameComparisonNotOlder DEF PairStep
<1>3. CASE (\A side \in Sides : l.answers[side] # None) /\ pair' = ComparisonArrives(pair, l)
  <2> DEFINE next == [id |-> l.ticket, sources |-> l.sources, versions |-> l.answers]
             b == [pair EXCEPT !.comparison = next]
             q == ApplyLoadedView(b, pair.chosen)
  <2>1. CASE ~ SelectionMatches(pair, l)
    <3>1. pair' = LoadEnded(pair, l)
      BY <1>3, <2>1 DEF ComparisonArrives
    <3> QED
      BY <1>0, <3>1, LoadEndedKeepsGood, SameComparisonNotOlder DEF PairStep
  <2>2. CASE SelectionMatches(pair, l)
             /\ ~ \A side \in Sides : Loaded(l.sources[side], l.answers[side])
    <3>1. pair' = ComparisonFails(pair, l)
      BY <1>3, <2>2 DEF ComparisonArrives
    <3> QED
      BY <1>2, <3>1
  <2>3. CASE SelectionMatches(pair, l)
             /\ \A side \in Sides : Loaded(l.sources[side], l.answers[side])
    <3>1. pair' = LoadEnded(q, l)
      BY <1>3, <2>3 DEF ComparisonArrives
    <3>2. /\ l.ticket \in Nat /\ l.sources \in [Sides -> Sources]
          /\ l.answers \in [Sides -> Versions \cup {None}]
      BY <1>0 DEF PairLoads
    <3>3. l.answers \in [Sides -> Versions]
      BY <1>3, <3>2
    <3>4. /\ next \in Comparisons /\ next.sources = l.sources
          /\ next.versions = l.answers
      BY <3>2, <3>3 DEF Comparisons
    <3> HIDE DEF next
    <3>5. PairSame(pair, b) /\ b.comparison = next
      BY <1>0, <3>4, WithComparison
    <3> HIDE DEF b
    <3>6. b \in PairPages
      BY <3>5 DEF PairSame
    <3>7. PairReset(b, q) /\ q.comparison = next
      BY <1>0, <3>4, <3>5, <3>6, ApplyResets
    <3> HIDE DEF q
    <3>8. PairReset(pair, q)
      BY <3>5, <3>7, ResetsAddUp
    <3>9. /\ q \in PairPages /\ q.sources = pair.sources
          /\ q.generation = pair.generation /\ q.discovery = pair.discovery
          /\ q.loads = pair.loads /\ q.discoveries = pair.discoveries
          /\ q.panel.says # "shown"
      BY <3>8 DEF PairReset, PairSame
    <3>10. PairTickets(q)
      BY <3>9, Zenon DEF PairGood, PairFit, PairTickets
    <3>11. \A k \in q.loads : IsCurrent(q.generation, k.ticket) => k = l
      BY <2>3, <3>9 DEF SelectionMatches, IsCurrent, PairGood, PairFit, PairTickets
    <3>12. \A side \in Sides : l.answers[side] <= server /\ l.answers[side] <= l.answers[side]
      <4>1. \A side \in Sides : l.answers[side] <= server
        BY <1>3 DEF PairGood, PairFit, PairOrder
      <4>2. \A side \in Sides : l.answers[side] \in Nat
        BY <3>3, BrowserAssumption DEF Versions
      <4> QED
        BY <4>1, <4>2
    <3>13. PairOrder(q, server)
      <4>1. \A side \in Sides : \A k \in q.loads :
              k.answers[side] # None => k.answers[side] <= server
        BY <3>9 DEF PairGood, PairFit, PairOrder
      <4>2. \A side \in Sides : q.comparison.versions[side] = l.answers[side]
        BY <3>4, <3>7
      <4> QED
        BY <3>11, <3>12, <4>1, <4>2 DEF PairOrder
    <3>14. PairFit(q, server)
      BY <3>9, <3>10, <3>13 DEF PairFit, PairDetailMatches
    <3>15. PairCount(q, 0) /\ PairButton(q)
      BY <3>8, PairResetKeepsCount DEF PairGood, PairReset
    <3>16. PairSelection(q)
      BY <2>3, <3>4, <3>7, <3>9 DEF PairSelection, SelectionMatches
    <3>17. PairGood(q, server)
      BY <3>14, <3>15, <3>16 DEF PairGood
    <3>18. PairGood(LoadEnded(q, l), server) /\ LoadEnded(q, l).comparison = q.comparison
      BY <3>9, <3>17, LoadEndedKeepsGood
    <3>19. pair.comparison # None =>
             \A side \in Sides : pair.comparison.versions[side] <= l.answers[side]
      BY <1>3, <2>3 DEF SelectionMatches, PairGood, PairFit, PairOrder
    <3>20. /\ \A side \in Sides : l.answers[side] \in Nat
           /\ pair.comparison # None =>
                \A side \in Sides : pair.comparison.versions[side] \in Nat
      BY <1>0, <3>3, BrowserAssumption DEF PairPages, Comparisons, Versions
    <3>21. PairNotOlder(pair, pair')
      BY <3>1, <3>4, <3>7, <3>18, <3>19, <3>20 DEF PairNotOlder
    <3> QED
      BY <3>1, <3>18, <3>21 DEF PairStep
  <2> QED
    BY <2>1, <2>2, <2>3
<1> QED
  BY <1>1, <1>2, <1>3

\* A step of the detail requests: the section may come to show details.
LEMMA DetailsStep ==
    ASSUME NEW v, PairGood(pair, v), NEW details \in SUBSET PairDetails,
           NEW panel \in PairPanels,
           pair' = [pair EXCEPT !.details = details, !.panel = panel],
           panel.says = "shown" =>
               \/ panel = pair.panel
               \/ /\ pair.comparison # None /\ pair.chosen = panel.txid
                  /\ \A side \in DOMAIN panel.detail :
                        panel.detail[side] # Failure =>
                          StateOf(Snapshot(pair.comparison.sources[side],
                                           panel.detail[side])).results[pair.chosen]
                            = Results(Side(pair.comparison, side))[pair.chosen]
    PROVE  PairStep(v)
<1>0. pair \in PairPages
  BY GoodPairTyped
<1>1. pair' \in PairPages
  BY <1>0, Zenon DEF PairPages
<1>2. /\ pair'.sources = pair.sources /\ pair'.generation = pair.generation
      /\ pair'.discovery = pair.discovery
      /\ pair'.loads = pair.loads /\ pair'.discoveries = pair.discoveries
      /\ pair'.active = pair.active /\ pair'.refresh = pair.refresh
      /\ pair'.comparison = pair.comparison /\ pair'.chosen = pair.chosen
      /\ pair'.panel = panel
  BY <1>0, Zenon DEF PairPages
<1>3. PairTickets(pair') /\ PairOrder(pair', v)
  BY <1>2, Zenon DEF PairGood, PairFit, PairTickets, PairOrder
<1>4. PairDetailMatches(pair')
  <2>1. CASE panel.says # "shown"
    BY <1>2, <2>1, Zenon DEF PairDetailMatches
  <2>2. CASE panel.says = "shown" /\ panel = pair.panel
    <3>1. PairDetailMatches(pair)
      BY DEF PairGood, PairFit
    <3>2. pair'.panel = pair.panel
      BY <1>2, <2>2
    <3> QED
      BY <1>2, <3>1, <3>2, Zenon DEF PairDetailMatches
  <2>3. CASE panel.says = "shown" /\ panel # pair.panel
    <3>1. /\ pair.comparison # None /\ pair.chosen = panel.txid
          /\ \A side \in DOMAIN panel.detail :
                panel.detail[side] # Failure =>
                  StateOf(Snapshot(pair.comparison.sources[side],
                                   panel.detail[side])).results[pair.chosen]
                    = Results(Side(pair.comparison, side))[pair.chosen]
      BY <2>3, Zenon
    <3> QED
      BY <1>2, <3>1, Zenon DEF PairDetailMatches
  <2> QED
    BY <2>1, <2>2, <2>3
<1>5. PairSelection(pair')
  BY <1>2 DEF PairGood, PairSelection
<1>6. PairSame(pair, pair')
  BY <1>1, <1>2, Zenon DEF PairSame
<1>7. PairCount(pair', 0) /\ PairButton(pair')
  BY <1>6, PairResetKeepsCount DEF PairGood
<1>8. PairGood(pair', v)
  BY <1>1, <1>3, <1>4, <1>5, <1>7 DEF PairGood, PairFit
<1>9. pair.comparison # None => \A side \in Sides :
          pair.comparison.versions[side] >= pair.comparison.versions[side]
  BY <1>0, BrowserAssumption DEF PairPages, Comparisons, Versions
<1>10. PairNotOlder(pair, pair')
  BY <1>2, <1>9, Zenon DEF PairNotOlder
<1> QED
  BY <1>8, <1>10 DEF PairStep

\* The details of one side are served, or that side fails.
LEMMA SideServedKeepsGood ==
    ASSUME server \in Versions, PairGood(pair, server), SideServed
    PROVE  PairStep(server)
<1>0. pair \in PairPages /\ pair.details \in SUBSET PairDetails /\ pair.panel \in PairPanels
  BY GoodPairTyped DEF PairPages
<1>1. PICK d \in pair.details : \E side \in DOMAIN d.answers :
          \E v \in {Failure, DetailAnswer(d.comparison.sources[side], server, d.txid)} :
            pair' = [pair EXCEPT !.details = (@ \ {d}) \cup {[d EXCEPT !.answers[side] = v]}]
  BY DEF SideServed
<1>a. PICK side \in DOMAIN d.answers :
          \E v \in {Failure, DetailAnswer(d.comparison.sources[side], server, d.txid)} :
            pair' = [pair EXCEPT !.details = (@ \ {d}) \cup {[d EXCEPT !.answers[side] = v]}]
  BY <1>1
<1>b. PICK v \in {Failure, DetailAnswer(d.comparison.sources[side], server, d.txid)} :
          pair' = [pair EXCEPT !.details = (@ \ {d}) \cup {[d EXCEPT !.answers[side] = v]}]
  BY <1>a
<1>2. v \in Versions \cup {Failure, None}
  BY DEF DetailAnswer
<1>3. d \in PairDetails /\ d.answers \in SideAnswers
  BY <1>0 DEF PairDetails
<1> DEFINE answers == [d.answers EXCEPT ![side] = v]
           e == [d EXCEPT !.answers = answers]
           details == (pair.details \ {d}) \cup {e}
<1>4. answers \in SideAnswers
  <2>1. PICK asked \in SUBSET Sides :
            d.answers \in [asked -> Versions \cup {Failure, None}]
    BY <1>3 DEF SideAnswers
  <2>2. answers \in [asked -> Versions \cup {Failure, None}]
    BY <1>2, <2>1
  <2> HIDE DEF answers
  <2> QED
    BY <2>2, Zenon DEF SideAnswers
<1>5. pair' = [pair EXCEPT !.details = details]
  BY <1>0, <1>b, Zenon DEF PairPages
<1> HIDE DEF answers
<1>6. e \in PairDetails
  BY <1>3, <1>4, Zenon DEF PairDetails
<1> HIDE DEF e
<1>7. details \in SUBSET PairDetails
  BY <1>0, <1>6
<1> HIDE DEF details
<1>8. [pair EXCEPT !.details = details]
        = [pair EXCEPT !.details = details, !.panel = pair.panel]
  BY <1>0 DEF PairPages
<1> QED
  BY <1>0, <1>5, <1>7, <1>8, DetailsStep

\* The details of both sides are known: each is shown only if its result is the
\* one its snapshot shows.
LEMMA DetailsEndKeepsGood ==
    ASSUME server \in Versions, PairGood(pair, server), DetailsEnd
    PROVE  PairStep(server)
<1>0. pair \in PairPages /\ pair.details \in SUBSET PairDetails /\ pair.panel \in PairPanels
  BY GoodPairTyped DEF PairPages
<1>1. PICK d \in pair.details :
          \/ /\ \A side \in DOMAIN d.answers : d.answers[side] # None
             /\ pair' = DetailsArrive(pair, d)
          \/ pair' = [pair EXCEPT !.details = @ \ {d}]
  BY DEF DetailsEnd, Unanswered
<1> DEFINE details == pair.details \ {d}
<1>2. details \in SUBSET PairDetails
  BY <1>0
<1>3. CASE pair' = [pair EXCEPT !.details = details]
  <2> HIDE DEF details
  <2>1. [pair EXCEPT !.details = details]
          = [pair EXCEPT !.details = details, !.panel = pair.panel]
    BY <1>0 DEF PairPages
  <2> QED
    BY <1>0, <1>2, <1>3, <2>1, DetailsStep
<1>4. CASE /\ \A side \in DOMAIN d.answers : d.answers[side] # None
           /\ pair' = DetailsArrive(pair, d)
  <2> DEFINE rest == [pair EXCEPT !.details = details]
             shown == [side \in DOMAIN d.answers |->
                         Outcome(d.comparison, side, d.txid, d.answers[side])]
             panel == Panel("shown", d.txid, shown)
  <2>1. CASE ~ (d.sequence = pair.sequence /\ pair.comparison = d.comparison
                /\ pair.chosen = d.txid)
    <3>1. pair' = rest
      BY <1>4, <2>1 DEF DetailsArrive
    <3> QED
      BY <1>3, <3>1
  <2>2. CASE d.sequence = pair.sequence /\ pair.comparison = d.comparison
             /\ pair.chosen = d.txid
    <3>1. pair' = [rest EXCEPT !.panel = panel]
      BY <1>4, <2>2 DEF DetailsArrive
    <3>2. pair' = [pair EXCEPT !.details = details, !.panel = panel]
      BY <3>1, Zenon
    <3>3. d.comparison \in Comparisons /\ d.txid \in Txids /\ d.answers \in SideAnswers
      BY <1>0 DEF PairDetails
    <3>4. PICK asked \in SUBSET Sides :
              d.answers \in [asked -> Versions \cup {Failure, None}]
      BY <3>3 DEF SideAnswers
    <3>5. \A side \in asked : d.answers[side] \in Versions \cup {Failure}
      BY <1>4, <3>4
    <3>6. /\ DOMAIN shown = asked
          /\ \A side \in asked :
                shown[side] = Outcome(d.comparison, side, d.txid, d.answers[side])
      BY <3>4
    <3>7. shown \in [asked -> Versions \cup {Failure, None}]
      BY <3>4, <3>5 DEF Outcome
    <3>8. shown \in SideAnswers
      BY <3>7, Zenon DEF SideAnswers
    <3> HIDE DEF shown
    <3>9. panel \in PairPanels
      BY <3>3, <3>8, PairPanelTyped DEF PairSays
    <3>10. panel.txid = d.txid /\ panel.detail = shown
      BY DEF Panel
    <3>11. ASSUME NEW side \in asked, shown[side] # Failure
           PROVE  StateOf(Snapshot(d.comparison.sources[side], shown[side])).results[d.txid]
                    = Results(Side(d.comparison, side))[d.txid]
      <4>1. /\ shown[side] = d.answers[side] /\ d.answers[side] # Failure
            /\ MatchesSnapshot(Side(d.comparison, side), d.txid, d.answers[side])
        BY <3>6, <3>11 DEF Outcome
      <4>2. d.answers[side] \in Versions
        BY <3>5, <4>1
      <4>3. /\ Side(d.comparison, side) \in Snapshots
            /\ Side(d.comparison, side).source = d.comparison.sources[side]
        BY <3>3, SideTyped
      <4>4. StateOf(Snapshot(Side(d.comparison, side).source, d.answers[side])).results[d.txid]
              = Results(Side(d.comparison, side))[d.txid]
        BY <3>3, <4>1, <4>2, <4>3, MatchGivesResult
      <4> QED
        BY <4>1, <4>3, <4>4
    <3>12. d.comparison # None
      BY <3>3, ComparisonAssumption
    <3>13. pair.comparison # None /\ pair.chosen = panel.txid
      BY <2>2, <3>10, <3>12
    <3>14. \A side \in DOMAIN panel.detail :
             panel.detail[side] # Failure =>
               StateOf(Snapshot(pair.comparison.sources[side],
                                panel.detail[side])).results[pair.chosen]
                 = Results(Side(pair.comparison, side))[pair.chosen]
      BY <2>2, <3>6, <3>10, <3>11
    <3> HIDE DEF panel, details
    <3> QED
      BY <1>2, <3>2, <3>9, <3>13, <3>14, DetailsStep
  <2> QED
    BY <2>1, <2>2
<1> QED
  BY <1>1, <1>3, <1>4

\* Every step of the comparison.
LEMMA PairKeepsGood ==
    ASSUME server \in Versions, PairGood(pair, server), PairUser \/ PairNetwork
    PROVE  PairStep(server)
  BY SelectionChangedKeepsGood, SwapKeepsGood, RefreshComparisonKeepsGood,
     TransitionKeepsGood, DiscoveryServedKeepsGood, DiscoveryEndsKeepsGood,
     SnapshotServedKeepsGood, ComparisonEndsKeepsGood, SideServedKeepsGood,
     DetailsEndKeepsGood DEF PairUser, PairNetwork

-----------------------------------------------------------------------------
(* The tab *)

\* The inductive invariant of BrowserTab.
TabInv ==
    /\ server \in Versions
    /\ Shown => NodeGood(node, server)
    /\ PairShown => PairGood(pair, server)

\* The page of a node as it is opened.
LEMMA NodeOpenedGood ==
    ASSUME NEW txid \in Txids \cup {None}, NEW v \in Versions
    PROVE  NodeGood(NodeOpened(txid), v)
<1> DEFINE p == NodeOpened(txid)
<1>1. Panel("choose", None, None) \in NodePanels
  BY NodePanelTyped DEF NodeSays
<1>2. p \in NodePages
  BY <1>1 DEF NodeOpened, NodePages
<1>3. /\ p.selected = None /\ p.loads = {} /\ p.snapshot = None /\ p.details = {}
      /\ p.panel.says = "choose"
  BY DEF NodeOpened, Panel
<1>4. ~ p.refresh
  BY Zenon DEF NodeOpened
<1> HIDE DEF p
<1>5. NodeSelection(p) /\ NodeTickets(p) /\ NodeButton(p) /\ NodeOrder(p, v)
  BY <1>3, <1>4 DEF NodeSelection, NodeTickets, NodeButton, NodeOrder
<1>6. NodeSequenced(p) /\ NodeCurrentDetails(p) /\ NodeDetailMatches(p)
  BY <1>3 DEF NodeSequenced, NodeCurrentDetails, NodeDetailMatches
<1> QED
  BY <1>2, <1>5, <1>6 DEF NodeGood, p

\* The comparison as it is opened.
LEMMA PairOpenedGood ==
    ASSUME NEW requested \in Choices, NEW txid \in Txids \cup {None}, NEW v \in Versions
    PROVE  PairGood(PairOpened(requested, txid), v)
<1> DEFINE p == [sources |-> NoPair, requested |-> requested, known |-> {},
                 comparison |-> None, generation |-> 0, discovery |-> 0,
                 loads |-> {}, discoveries |-> {}, active |-> 0, refresh |-> FALSE,
                 chosen |-> None, sequence |-> 0, details |-> {},
                 panel |-> Panel("choose", None, None)]
<1>1. Panel("choose", None, None) \in PairPanels
  BY PairPanelTyped DEF PairSays
<1>2. NoPair \in Choices
  BY DEF NoPair, Choices
<1>3. p \in PairPages
  BY <1>1, <1>2 DEF PairPages
<1>4. /\ p.loads = {} /\ p.discoveries = {} /\ p.comparison = None /\ p.active = 0
      /\ p.panel.says = "choose"
  BY DEF Panel
<1>5. PairOpened(requested, txid) = DiscoverSources(PreparePendingView(p, txid))
  BY DEF PairOpened
<1> HIDE DEF p
<1>6. PairTickets(p) /\ PairOrder(p, v) /\ PairDetailMatches(p)
  BY <1>4 DEF PairTickets, PairOrder, PairDetailMatches
<1>7. PairSelection(p) /\ PairButton(p)
  BY <1>4 DEF PairSelection, PairButton
<1>8. Nested({}) = {}
  BY DEF Nested
<1>9. PairCount(p, 0)
  BY <1>4, <1>8, FS_EmptySet DEF PairCount, UnderWay
<1>10. PairGood(p, v)
  BY <1>3, <1>6, <1>7, <1>9 DEF PairGood, PairFit
<1> DEFINE q == PreparePendingView(p, txid)
<1>11. PairReset(p, q) /\ q.comparison = p.comparison
  BY <1>3, PrepareResets
<1> HIDE DEF q
<1>12. PairGood(q, v)
  BY <1>10, <1>11, PairResetKeepsGood
<1>13. PairGood(DiscoverSources(q), v)
  BY <1>12, DiscoverKeepsGood
<1> QED
  BY <1>5, <1>13 DEF q

\* The invariant holds at the start.
LEMMA TabInit == Init => TabInv
<1> SUFFICES ASSUME Init PROVE TabInv
  OBVIOUS
<1>1. server = 1 /\ 1 \in Versions
  BY BrowserAssumption DEF Init, Versions
<1>2. PICK a \in Addresses :
          \/ node = NodeOpened(a.txid) /\ pair = None
          \/ node = None /\ pair = PairOpened(a.pair, a.txid)
  BY DEF Init
<1>3. a.txid \in Txids \cup {None} /\ a.pair \in Choices
  BY AddressAssumption DEF Pairs, NoPair, Choices
<1>4. CASE node = NodeOpened(a.txid) /\ pair = None
  BY <1>1, <1>3, <1>4, NodeOpenedGood DEF TabInv, PairShown
<1>5. CASE node = None /\ pair = PairOpened(a.pair, a.txid)
  BY <1>1, <1>3, <1>5, PairOpenedGood DEF TabInv, Shown
<1> QED
  BY <1>2, <1>4, <1>5

\* A page stays good while the server publishes.
LEMMA PublishKeepsGood ==
    ASSUME NEW v \in Versions, NEW w \in Versions, v <= w
    PROVE  /\ \A p : NodeGood(p, v) => NodeGood(p, w)
           /\ \A p : PairGood(p, v) => PairGood(p, w)
<1>0. Versions \subseteq Nat
  BY BrowserAssumption DEF Versions
<1>1. ASSUME NEW p, NodeGood(p, v)
      PROVE  NodeGood(p, w)
  <2>1. /\ p \in NodePages /\ NodeOrder(p, v)
    BY <1>1 DEF NodeGood
  <2>2. /\ p.snapshot # None => p.snapshot.version \in Nat
        /\ \A l \in p.loads : l.answer # None => l.answer \in Nat
    BY <1>0, <2>1 DEF NodePages, Snapshots, NodeLoads
  <2>3. /\ p.snapshot # None => p.snapshot.version <= w
        /\ \A l \in p.loads : l.answer # None => l.answer <= w
    BY <1>0, <2>1, <2>2 DEF NodeOrder
  <2>4. NodeOrder(p, w)
    BY <2>1, <2>3, Zenon DEF NodeOrder
  <2> QED
    BY <1>1, <2>4 DEF NodeGood
<1>2. ASSUME NEW p, PairGood(p, v)
      PROVE  PairGood(p, w)
  <2>1. p \in PairPages /\ PairOrder(p, v)
    BY <1>2 DEF PairGood, PairFit
  <2>2. \A side \in Sides :
          /\ p.comparison # None => p.comparison.versions[side] \in Nat
          /\ \A l \in p.loads : l.answers[side] # None => l.answers[side] \in Nat
    BY <1>0, <2>1 DEF PairPages, Comparisons, PairLoads
  <2>3. \A side \in Sides :
          /\ p.comparison # None => p.comparison.versions[side] <= w
          /\ \A l \in p.loads : l.answers[side] # None => l.answers[side] <= w
    BY <1>0, <2>1, <2>2 DEF PairOrder
  <2>4. PairOrder(p, w)
    BY <2>1, <2>3, Zenon DEF PairOrder
  <2> QED
    BY <1>2, <2>4 DEF PairGood, PairFit
<1> QED
  BY <1>1, <1>2

\* What NeverOlder says of a step.
NotOlderStep ==
    /\ Shown => NodeNotOlder(node, node')
    /\ PairShown => PairNotOlder(pair, pair')

\* A page that does not change is not older.
LEMMA UnchangedNotOlder ==
    /\ Shown /\ NodeGood(node, server) /\ node' = node => NodeNotOlder(node, node')
    /\ PairShown /\ PairGood(pair, server) /\ pair' = pair => PairNotOlder(pair, pair')
<1>1. ASSUME NodeGood(node, server), node' = node
      PROVE  NodeNotOlder(node, node')
  BY <1>1, SameSnapshotNotOlder DEF NodeGood
<1>2. ASSUME PairGood(pair, server), pair' = pair
      PROVE  PairNotOlder(pair, pair')
  BY <1>2, GoodPairTyped, SameComparisonNotOlder
<1> QED
  BY <1>1, <1>2

\* Every step keeps the invariant, and replaces no snapshot by an older one.
LEMMA TabStep ==
    ASSUME TabInv, [Next]_vars
    PROVE  TabInv' /\ NotOlderStep
<1>0. server \in Versions
  BY DEF TabInv
<1>1. CASE (NodeUser \/ NodeNetwork) /\ UNCHANGED pair
  <2>1. Shown /\ server' = server /\ pair' = pair
    BY <1>1 DEF NodeUser, NodeNetwork, SelectSource, Refresh, SearchForTransaction,
                SelectView, SourcesDiscovered, LoadServed, LoadEnds, DetailServed,
                DetailEnds, Click, Network
  <2>2. NodeStep(server)
    BY <1>0, <1>1, <2>1, NodeKeepsGood DEF TabInv
  <2>3. TabInv'
    BY <2>1, <2>2 DEF TabInv, NodeStep, PairShown
  <2> QED
    BY <2>1, <2>2, <2>3, UnchangedNotOlder DEF TabInv, NotOlderStep, NodeStep
<1>2. CASE (PairUser \/ PairNetwork) /\ UNCHANGED node
  <2>1. PairShown /\ server' = server /\ node' = node
    BY <1>2 DEF PairUser, PairNetwork, SelectionChanged, SwapSources, RefreshComparison,
                TransitionView, DiscoveryServed, DiscoveryEnds, SnapshotServed,
                ComparisonEnds, SideServed, DetailsEnd, Click, Network
  <2>2. PairStep(server)
    BY <1>0, <1>2, <2>1, PairKeepsGood DEF TabInv
  <2>3. TabInv'
    BY <2>1, <2>2 DEF TabInv, PairStep, Shown
  <2> QED
    BY <2>1, <2>2, <2>3, UnchangedNotOlder DEF TabInv, NotOlderStep, PairStep
<1>3. CASE ServerSteps
  <2>1. node' = node /\ pair' = pair /\ server' = server + 1 /\ server < Len(Published)
    BY <1>3 DEF ServerSteps, Publish
  <2>2. server' \in Versions /\ server <= server'
    BY <1>0, <2>1, BrowserAssumption DEF Versions
  <2>3. TabInv'
    BY <1>0, <2>1, <2>2, PublishKeepsGood DEF TabInv, Shown, PairShown
  <2> QED
    BY <2>1, <2>3, UnchangedNotOlder DEF TabInv, NotOlderStep
<1>4. CASE UNCHANGED vars
  <2>1. node' = node /\ pair' = pair /\ server' = server
    BY <1>4 DEF vars
  <2>2. TabInv'
    BY <2>1 DEF TabInv, Shown, PairShown
  <2> QED
    BY <2>1, <2>2, UnchangedNotOlder DEF TabInv, NotOlderStep
<1> QED
  BY <1>1, <1>2, <1>3, <1>4 DEF Next, UserSteps, NetworkSteps

\* The invariant says what the properties say.
LEMMA TabInvImplies == TabInv => ViewIsCoherent /\ RefreshMeansIdle
<1> SUFFICES ASSUME TabInv PROVE ViewIsCoherent /\ RefreshMeansIdle
  OBVIOUS
<1>1. ViewIsCoherent
  <2>1. Shown => NodeSelection(node) /\ NodeDetailMatches(node)
    BY DEF TabInv, NodeGood
  <2>2. PairShown => PairSelection(pair) /\ PairDetailMatches(pair)
    BY DEF TabInv, PairGood, PairFit
  <2> QED
    BY <2>1, <2>2, Zenon
       DEF ViewIsCoherent, NodeSelection, NodeDetailMatches, PairSelection, PairDetailMatches
<1>2. RefreshMeansIdle
  <2>1. Shown => NodeButton(node)
    BY DEF TabInv, NodeGood
  <2>2. ASSUME PairShown, pair.refresh
        PROVE  pair.loads = {} /\ pair.discoveries = {}
    <3>1. PairGood(pair, server)
      BY <2>2 DEF TabInv
    <3> QED
      BY <2>2, <3>1, BusyButton
  <2> QED
    BY <2>1, <2>2, Zenon DEF RefreshMeansIdle, NodeButton
<1> QED
  BY <1>1, <1>2

\* The inductive invariant holds in every state of every behaviour.
THEOREM TabInvariant == Spec => []TabInv
<1>1. Init => TabInv
  BY TabInit
<1>2. TabInv /\ [Next]_vars => TabInv'
  BY TabStep
<1> QED
  BY <1>1, <1>2, PTL DEF Spec

\* What main.ts and comparison-main.ts show is of the sources their selects
\* show, and a detail on the screen has the result of the snapshot beside it.
THEOREM TabViewIsCoherent == Spec => []ViewIsCoherent
<1>1. TabInv => ViewIsCoherent
  BY TabInvImplies
<1> QED
  BY <1>1, TabInvariant, PTL

\* The refresh button is enabled only while nothing is under way: activeLoads
\* is 0 just when every load and discovery has ended.
THEOREM TabRefreshMeansIdle == Spec => []RefreshMeansIdle
<1>1. TabInv => RefreshMeansIdle
  BY TabInvImplies
<1> QED
  BY <1>1, TabInvariant, PTL

\* No answer, however late, replaces a snapshot by an older one of its source.
THEOREM TabNeverOlder == Spec => NeverOlder
<1>1. TabInv /\ [Next]_vars =>
        [ /\ Shown /\ node.snapshot # None /\ node'.snapshot # None
               /\ node'.snapshot.source = node.snapshot.source
            => node'.snapshot.version >= node.snapshot.version
          /\ \A side \in Sides :
               PairShown /\ pair.comparison # None /\ pair'.comparison # None
                 /\ pair'.comparison.sources[side] = pair.comparison.sources[side]
               => pair'.comparison.versions[side] >= pair.comparison.versions[side] ]_vars
  BY TabStep DEF NotOlderStep, NodeNotOlder, PairNotOlder
<1> QED
  BY <1>1, TabInvariant, PTL DEF Spec, NeverOlder
=============================================================================
