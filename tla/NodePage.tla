------------------------------ MODULE NodePage ------------------------------
(***************************************************************************)
(* The page of one node, src/web/src/main.ts: which snapshot it shows and  *)
(* which transaction detail, while requests for both overlap with the      *)
(* user's choices.  A handler runs to its await without interruption, so   *)
(* it is a function on the page, a record of the variables of main.ts.     *)
(***************************************************************************)
EXTENDS BrowserRequests

VARIABLE node    \* the page, None while it is not open

\* addressed is nodeViewState.txid, chosen selectedTransactionId.
NodeOpened(txid) ==
    [selected   |-> None,
     snapshot   |-> None,
     generation |-> 0,              \* of snapshotLifecycle
     loads      |-> {},             \* snapshot requests under way
     addressed  |-> txid,
     chosen     |-> None,
     sequence   |-> 0,              \* detailSequence
     details    |-> {},             \* detail requests under way
     panel      |-> Panel("choose", None, None),
     discovering |-> TRUE,
     refresh    |-> FALSE]          \* refreshButton is enabled

-----------------------------------------------------------------------------
(* The detail section *)

ClearDetail(p, says) ==
    [p EXCEPT !.sequence = @ + 1, !.chosen = None, !.panel = Panel(says, None, None)]

ClearAddressed(p) == ClearDetail([p EXCEPT !.addressed = None], "choose")

ShowAbsentTransaction(p, txid) ==
    [p EXCEPT !.sequence = @ + 1, !.addressed = txid, !.chosen = None,
              !.panel = Panel("absent", txid, None)]

LoadTransactionDetail(p, txid) ==
    [p EXCEPT !.sequence = @ + 1, !.chosen = txid, !.addressed = txid,
              !.panel = Panel("loading", txid, None),
              !.details = @ \cup {[sequence |-> p.sequence + 1, txid |-> txid,
                                   snapshot |-> p.snapshot, answer |-> Unanswered]}]

\* Mutant: only the snapshot is compared.
AnswersShownSnapshot(p, d) == p.snapshot = d.snapshot

DetailIsCurrent(p, d) ==
    /\ d.sequence = p.sequence
    /\ p.snapshot # None
    /\ StateOf(p.snapshot).observed = StateOf(d.snapshot).observed
    /\ StateOf(p.snapshot).revision = StateOf(d.snapshot).revision

\* The code after the await of fetchTransactionDetail, and its catch.
DetailArrives(p, d) ==
    LET rest == [p EXCEPT !.details = @ \ {d}]
    IN  IF ~ DetailIsCurrent(p, d) THEN rest
        ELSE [rest EXCEPT !.panel = IF MatchesSnapshot(d.snapshot, d.txid, d.answer)
                                    THEN Panel("shown", d.txid, d.answer)
                                    ELSE Panel("unavailable", d.txid, None)]

DetailFails(p, d) ==
    [p EXCEPT !.details = @ \ {d},
              !.panel = IF d.sequence = p.sequence THEN Panel("unavailable", d.txid, None)
                                                   ELSE @]

-----------------------------------------------------------------------------
(* Snapshots *)

\* Mutant: the detail section is left alone unless a transaction is addressed.
RenderKeepingDetail(p, s, v) ==
    LET shown == [p EXCEPT !.snapshot = Snapshot(s, v)]
    IN  IF ~ Loaded(s, v) THEN [p EXCEPT !.snapshot = None]
        ELSE IF p.addressed = None \/ p.chosen # None THEN shown
        ELSE IF Holds(shown.snapshot, p.addressed)
        THEN LoadTransactionDetail(shown, p.addressed)
        ELSE ShowAbsentTransaction(shown, p.addressed)

RenderResponse(p, s, v) ==
    LET shown == ClearDetail([p EXCEPT !.snapshot = Snapshot(s, v)], "choose")
    IN  IF ~ Loaded(s, v)
        THEN ClearDetail([p EXCEPT !.snapshot = None],
                         IF p.addressed = None THEN "choose" ELSE "no snapshot")
        ELSE IF p.addressed = None THEN shown
        ELSE IF Holds(shown.snapshot, p.addressed)
        THEN LoadTransactionDetail(shown, p.addressed)
        ELSE ShowAbsentTransaction(shown, p.addressed)

LoadSnapshot(p) ==
    [p EXCEPT !.generation = Invalidated(@), !.refresh = FALSE,
              !.loads = @ \cup {[ticket |-> Invalidated(p.generation),
                                 source |-> p.selected, answer |-> Unanswered]}]

\* Mutant: whatever load ends enables the button.
FinishAnyLoad(p, l) == [p EXCEPT !.loads = @ \ {l}, !.refresh = TRUE]

\* The finally of loadSnapshot.
FinishLoad(p, l) ==
    [p EXCEPT !.loads = @ \ {l},
              !.refresh = @ \/ IsCurrent(p.generation, l.ticket)]

LoadArrives(p, l) ==
    FinishLoad(IF IsCurrent(p.generation, l.ticket) /\ p.selected = l.source
               THEN RenderResponse(p, l.source, l.answer) ELSE p, l)

\* The snapshot shown stays; only the status says that the load failed.
LoadFails(p, l) == FinishLoad(p, l)

\* Mutant: the snapshot stays until that of the new source comes.
PrepareKeepingSnapshot(p) == ClearAddressed(p)

PrepareForSourceLoad(p) == ClearAddressed([p EXCEPT !.snapshot = None])

-----------------------------------------------------------------------------
(* What the user does *)

Shown == node # None

\* sourceSelect "change"
SelectSource ==
    /\ Shown /\ Click
    /\ node.selected # None
    /\ \E s \in Sources \ {node.selected} :
          node' = LoadSnapshot(PrepareForSourceLoad(
                    [node EXCEPT !.selected = s, !.generation = Invalidated(@)]))

\* refreshButton "click", possible while the button is enabled.
Refresh ==
    /\ Shown /\ Click
    /\ node.refresh
    /\ node' = IF node.selected = None
               THEN [node EXCEPT !.discovering = TRUE, !.refresh = FALSE]
               ELSE LoadSnapshot(node)

\* transactionSearch "submit", or a transaction chosen in a table or drawing.
SearchForTransaction ==
    /\ Shown /\ Click
    /\ \E txid \in Txids :
          node' = IF node.snapshot = None
                  THEN [ClearDetail(node, "no snapshot") EXCEPT !.addressed = txid]
                  ELSE IF Holds(node.snapshot, txid) THEN LoadTransactionDetail(node, txid)
                  ELSE ShowAbsentTransaction(node, txid)

\* Another lens, label, bucket or rule, which clears the detail.
SelectView ==
    /\ Shown /\ Click
    /\ node.snapshot # None
    /\ node' = ClearAddressed(node)

-----------------------------------------------------------------------------
(* What becomes of the requests *)

\* initialize: the source is the one the address names, or the first.
SourcesDiscovered ==
    /\ Shown /\ Network
    /\ node.discovering
    /\ \/ \E s \in Sources :
             node' = LoadSnapshot([node EXCEPT !.discovering = FALSE, !.selected = s])
       \/ node' = [node EXCEPT !.discovering = FALSE, !.refresh = TRUE]

LoadServed ==
    /\ Shown /\ Network
    /\ \E l \in node.loads :
          /\ l.answer = Unanswered
          /\ node' = [node EXCEPT !.loads = (@ \ {l}) \cup
                        {[l EXCEPT !.answer = server]}]

LoadEnds ==
    /\ Shown /\ Network
    /\ \E l \in node.loads :
          \/ l.answer # Unanswered /\ node' = LoadArrives(node, l)
          \/ node' = LoadFails(node, l)

DetailServed ==
    /\ Shown /\ Network
    /\ \E d \in node.details :
          /\ d.answer = Unanswered
          /\ node' = [node EXCEPT !.details = (@ \ {d}) \cup
                        {[d EXCEPT !.answer = DetailAnswer(d.snapshot.source, server, d.txid)]}]

DetailEnds ==
    /\ Shown /\ Network
    /\ \E d \in node.details :
          \/ d.answer \notin {Unanswered, Failure} /\ node' = DetailArrives(node, d)
          \/ node' = DetailFails(node, d)

NodeUser == SelectSource \/ Refresh \/ SearchForTransaction \/ SelectView
NodeNetwork ==
    SourcesDiscovered \/ LoadServed \/ LoadEnds \/ DetailServed \/ DetailEnds
=============================================================================
