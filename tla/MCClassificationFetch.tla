------------------------ MODULE MCClassificationFetch ------------------------
EXTENDS ClassificationFetch, TLC

CONSTANTS a, b, c, d

\* Three batches for two lanes: a and b together, c and d alone.
MCWaves ==
    {[method |-> "getrawtransaction", keys |-> <<a, b, c, d>>],
     [method |-> "gettxout", keys |-> <<a, b, c, d>>]}
MCLanes == [m \in Methods |-> 2]
MCBatchSize == [m \in Methods |-> 2]
MCEstimatedBytes == (a :> 1) @@ (b :> 1) @@ (c :> 2) @@ (d :> 2)
=============================================================================
