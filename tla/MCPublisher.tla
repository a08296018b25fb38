---------------------------- MODULE MCPublisher ----------------------------
(* Publisher on small sets: two transactions, one of which has a second    *)
(* witness variant.                                                        *)
EXTENDS Publisher

CONSTANTS t1, t2, w1, w2, w3

Classified(w) == [wtxid |-> w, result |-> "matched"]

MCTxids == {t1, t2}
MCWtxids == {w1, w2, w3}
MCResults == {"matched"}
MCErrors == {"rpc failed"}

Mempool(a, b) == [t \in MCTxids |-> IF t = t1 THEN a ELSE b]

\* The whole mempool, one with t1 replaced by another variant and t2 gone,
\* and an empty one.
MCVariants == {Mempool(w1, w2), Mempool(w3, None), Mempool(None, None)}

\* No result, and one that fits the first membership, is about another
\* variant than the second one holds, and exceeds the third.
MCClassificationInputs ==
    {Mempool(None, None), Mempool(Classified(w1), None)}
=============================================================================
