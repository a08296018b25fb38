---------------------------- MODULE RecencyCache ----------------------------
(***************************************************************************)
(* What the auxiliary caches of a classification pipeline promise: of the  *)
(* confirmed scripts those used last are kept, the oldest go first, and    *)
(* together with the outputs retained for the current generation they stay *)
(* within one budget.  No stamps and no running totals: the order of use   *)
(* is a relation and sizes are added up from what is there.                *)
(***************************************************************************)
EXTENDS Naturals, Totals

CONSTANTS Outpoints, Scripts, Txids, Wtxids, ScriptBytes, OutputBytes,
          MaximumBytes

VARIABLES
    script,     \* cached outpoint -> its script
    older,      \* <<o, p>>: cached o was last used before p
    present,    \* txid -> variant in the current membership
    outputs     \* txid -> variant whose outputs are retained

vars == <<script, older, present, outputs>>

Cached == DOMAIN script

OutputTotal(f) == Total([t \in DOMAIN f |-> OutputBytes[f[t]]])

Weight(S) == Total([o \in S |-> ScriptBytes[script[o]]])

\* With an outpoint, what was used after it is kept too.
LatestOf(K, S) ==
    K \subseteq S /\ \A o \in K, p \in S : <<o, p>> \in older => p \in K

\* The most of the outpoints used last that fits the budget.
Kept(S, budget) ==
    CHOOSE K \in SUBSET S :
        /\ LatestOf(K, S) /\ Weight(K) <= budget
        /\ \A L \in SUBSET S : LatestOf(L, S) /\ Weight(L) <= budget => L \subseteq K

Among(K) == older \cap (K \X K)

Init ==
    /\ script = <<>>
    /\ older = {}
    /\ present = <<>>
    /\ outputs = <<>>

Keep(K) ==
    /\ script' = [o \in K |-> script[o]]
    /\ older' = Among(K)

Use(o) ==
    /\ o \in Cached
    /\ older' = Among(Cached \ {o}) \cup ((Cached \ {o}) \X {o})
    /\ UNCHANGED <<script, present, outputs>>

\* Two scripts for one outpoint: neither is trusted.
Conflict(o, s) ==
    /\ o \in Cached /\ script[o] # s
    /\ Keep(Cached \ {o})
    /\ UNCHANGED <<present, outputs>>

Store(o, s) ==
    LET budget == MaximumBytes - OutputTotal(outputs)
        kept == Kept(Cached \ {o}, budget - ScriptBytes[s])
    IN  /\ o \in Cached => script[o] = s
        /\ ScriptBytes[s] <= budget
        /\ script' = [p \in kept \cup {o} |-> IF p = o THEN s ELSE script[p]]
        /\ older' = Among(kept) \cup (kept \X {o})
        /\ UNCHANGED <<present, outputs>>

\* Outputs take precedence over confirmed scripts.
RetainOutputs(t) ==
    LET new == [u \in DOMAIN outputs \cup {t} |->
                  IF u = t THEN present[t] ELSE outputs[u]]
    IN  /\ OutputTotal(new) <= MaximumBytes
        /\ outputs' = new
        /\ Keep(Kept(Cached, MaximumBytes - OutputTotal(new)))
        /\ UNCHANGED present

\* A new membership keeps exactly the outputs of variants it still contains,
\* and costs no confirmed script.
NewMembership ==
    /\ outputs' = [t \in {u \in DOMAIN outputs \cap DOMAIN present' :
                            outputs[u] = present'[u]} |-> outputs[t]]
    /\ UNCHANGED <<script, older>>

Next ==
    \/ \E o \in Outpoints : Use(o)
    \/ \E o \in Outpoints, s \in Scripts : Conflict(o, s) \/ Store(o, s)
    \/ \E t \in DOMAIN present : RetainOutputs(t)
    \/ NewMembership

Spec == Init /\ [][Next]_vars
=============================================================================
