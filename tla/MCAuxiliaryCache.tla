-------------------------- MODULE MCAuxiliaryCache --------------------------
(* AuxiliaryCache with scripts and outputs of two sizes, and one variant    *)
(* whose outputs exceed the budget.                                         *)
EXTENDS AuxiliaryCache

MCScripts == {"short", "long"}
MCScriptBytes == [s \in MCScripts |-> IF s = "short" THEN 1 ELSE 3]

MCWtxids == {"small", "large", "huge"}
MCOutputBytes ==
    [w \in MCWtxids |-> CASE w = "small" -> 1
                          [] w = "large" -> 3
                          [] OTHER -> MaximumBytes + 1]
=============================================================================
