---------------------- MODULE MCClassificationPipeline ----------------------
(***************************************************************************)
(* One instance of ClassificationPipeline with histories of a source.      *)
(* They share the limits and have their own transactions and outpoints.    *)
(***************************************************************************)
EXTENDS ClassificationPipeline

MCVariants == 1 .. 14
MCOutpoints == 1 .. 14

\* 8 and 9 are witness variants of one transaction.
MCTxidOf == [v \in MCVariants |-> IF v = 9 THEN 8 ELSE v]

\* 1-3: 2 shares an input with 1 and spends an output of it, as 3 does.
\* 4-7: all spend one large confirmed output, and only 6, which needs nothing
\*      else, fits the budget; 5 and 7 also spend an output of 6, and 7 is
\*      wider than the window.
\* 8-11: 10 spends an output of 8 and 9, 11 one they have not.
\* 12-14: 13 spends an output that 12 has not, and 14 fills the budget.
MCInputs ==
    << <<1>>, <<1, 2>>, <<2, 3, 4>>,
       <<5, 7>>, <<5, 6, 7>>, <<7>>, <<5, 6, 7, 8>>,
       <<9>>, <<9>>, <<10>>, <<11>>,
       <<12>>, <<13>>, <<7, 14>> >>
MCParentOf == <<0, 1, 0, 0, 0, 6, 0, 0, 0, 8, 8, 0, 12, 0>>
MCScriptBytes == [o \in MCOutpoints |-> IF o \in {3, 7, 9, 10, 11} THEN 2 ELSE 1]
MCRawBytes == [v \in MCVariants |-> IF v \in {2, 3} THEN 2 ELSE 1]

\* Single generations, and two generations that change a witness variant.
MCCollections ==
    { <<{1, 2, 3}>>, <<{2, 3}>>, <<{4, 5, 6}>>, <<{6, 7}>>, <<{12, 13, 14}>> }
    \cup {<<m, n>> : m, n \in {{8, 10}, {8, 11}, {9, 10}}}
=============================================================================
