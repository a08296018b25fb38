----------------------------- MODULE Bip110Rules -----------------------------
(***************************************************************************)
(* The seven BIP-110 rules of src/src/bip110, as the deployed mempool      *)
(* policy applies them to one transaction, whose spent scripts are known   *)
(* for some of its inputs only.                                            *)
(*                                                                         *)
(* A coinbase is never in a mempool, and the consensus mode is compiled    *)
(* for tests only: both are left out.                                      *)
(***************************************************************************)
EXTENDS TransactionScripts

MAX_OUTPUT_SCRIPT_SIZE == 34
MAX_OUTPUT_DATA_SIZE == 83
MAX_SCRIPT_ELEMENT_SIZE_REDUCED == 256
TAPROOT_CONTROL_MAX_SIZE_REDUCED == 257

INPUT_SCOPED == <<"element_size", "undefined_version", "taproot_annex",
                  "control_block_size", "op_success", "tapscript_op_if">>

RuleIds == <<"output_size">> \o INPUT_SCOPED

\* A proven violation, as the evidence that tells it from the others: the place
\* and the position there (an opcode, a witness element or an output).
Match(rule, input, place, pos) ==
    [rule |-> rule, input |-> input, place |-> place, pos |-> pos]

\* One match for each of the positions, in their order.
MatchesAt(positions, rule, input, place) ==
    LET order == SetToSortSeq(positions, <)
    IN  [k \in DOMAIN order |-> Match(rule, input, place, order[k])]

-----------------------------------------------------------------------------
(* Rule 1 *)

OutputLimit(script) ==
    IF IsOpReturn(script) THEN MAX_OUTPUT_DATA_SIZE ELSE MAX_OUTPUT_SCRIPT_SIZE

OutputSizeViolations(tx) ==
    MatchesAt({v \in DOMAIN tx.outputs :
                 tx.outputs[v].script # <<>>
                 /\ Size(tx.outputs[v].script) > OutputLimit(tx.outputs[v].script)},
              "output_size", 0, "outputs")

-----------------------------------------------------------------------------
(* Rules 2 to 7 on one input *)

TooLong(data) == data.len > MAX_SCRIPT_ELEMENT_SIZE_REDUCED

PushesOver(script) ==
    {k \in Positions(Decoded(script), "push") : TooLong(script[k].data)}

PushViolations(input, place, script) ==
    MatchesAt(PushesOver(script), "element_size", input, place)

WitnessItemViolations(input, items) ==
    MatchesAt({k \in DOMAIN items : TooLong(items[k])}, "element_size", input, "items")

EvaluateLegacySpend(input, txin, spk) ==
    PushViolations(input, "script_sig", txin.scriptSig)
        \o PushViolations(input, "script_pubkey", spk)

\* The last element is the script.
EvaluateP2wsh(input, items) ==
    IF items = <<>> THEN <<>>
    ELSE WitnessItemViolations(input, Front(items))
            \o PushViolations(input, "witness_script", Last(items).script)

OpSuccesses(script) == Positions(Decoded(script), "success")

\* The position of the first OP_IF or OP_NOTIF, in a set.
FirstOpIf(script) ==
    LET ifs == Positions(Decoded(script), "if") \cup Positions(Decoded(script), "notif")
    IN  IF ifs = {} THEN {} ELSE {Min(ifs)}

\* Mutant: long pushes are listed before the OP_IF, wherever it is.
ScriptMatchesUnsorted(input, script) ==
    PushViolations(input, "tapscript", script)
        \o MatchesAt(IF OpSuccesses(script) = {} THEN FirstOpIf(script) ELSE {},
                     "tapscript_op_if", input, "tapscript")

\* Long pushes and the first OP_IF, in the order of their positions; an
\* OP_SUCCESS ends the script before any of it is executed.
ScriptMatches(input, script) ==
    LET ifs == IF OpSuccesses(script) = {} THEN FirstOpIf(script) ELSE {}
        order == SetToSortSeq(PushesOver(script) \cup ifs, <)
    IN  [k \in DOMAIN order |->
            Match(IF order[k] \in ifs THEN "tapscript_op_if" ELSE "element_size",
                  input, "tapscript", order[k])]

\* The leaf version, then every OP_SUCCESS, the arguments and the script.
EvaluateLeaf(input, args, script, control) ==
    IF ~ IsTapscript(control)
    THEN <<Match("undefined_version", input, "tapleaf", 0)>>
    ELSE MatchesAt(OpSuccesses(script), "op_success", input, "tapscript")
            \o WitnessItemViolations(input, args)
            \o ScriptMatches(input, script)

EvaluateTaprootScriptPath(input, args, script, control) ==
    IF ~ Aligned(control) THEN <<>>
    ELSE (IF control.len > TAPROOT_CONTROL_MAX_SIZE_REDUCED
          THEN <<Match("control_block_size", input, "control", 0)>> ELSE <<>>)
            \o EvaluateLeaf(input, args, script, control)

\* decompose_taproot: one element is a key path; of more, the last is the
\* control block and the one before it the script.
EvaluateStack(input, stack, n) ==
    IF n < 2 THEN <<>>
    ELSE EvaluateTaprootScriptPath(input, SubSeq(stack, 1, n - 2),
                                   stack[n - 1].script, stack[n])

EvaluateTaproot(input, items) ==
    (IF HasAnnex(items) THEN <<Match("taproot_annex", input, "annex", 0)>> ELSE <<>>)
        \o EvaluateStack(input, Stack(items), Len(Stack(items)))

\* P2A is defined for an empty witness only, and neither it nor Taproot is
\* recognized inside P2SH.
EvaluateWitnessSpend(input, program, items, isP2sh) ==
    CASE Version(program) = 0 /\ program[2].data.len = 32 -> EvaluateP2wsh(input, items)
      [] Version(program) = 0 /\ program[2].data.len = 20 ->
            WitnessItemViolations(input, items)
      [] Version(program) = 0 /\ program[2].data.len \notin {20, 32} -> <<>>
      [] IsP2tr(program) /\ ~ isP2sh -> EvaluateTaproot(input, items)
      [] IsP2a(program) /\ ~ isP2sh /\ items = <<>> -> <<>>
      [] OTHER -> <<Match("undefined_version", input, "program", 0)>>

IsPushOnly(i) == i.op \in {"push", "number", "1negate"}

\* The last push of the scriptSig is the redeemScript; a witness program in it
\* is reached only from a scriptSig that is the canonical push of it.
EvaluateP2shSpend(input, txin) ==
    LET sig == txin.scriptSig
        redeem == Last(sig).data.script
    IN  IF sig = <<>> \/ \E k \in DOMAIN sig : ~ IsPushOnly(sig[k]) THEN <<>>
        ELSE PushViolations(input, "script_sig", Front(sig))
             \o (IF Last(sig).op # "push" THEN <<>>
                 ELSE PushViolations(input, "redeem_script", redeem))
             \o (IF Len(sig) = 1 /\ sig[1].minimal /\ IsWitnessProgram(redeem)
                 THEN EvaluateWitnessSpend(input, redeem, txin.witness, TRUE)
                 ELSE <<>>)

EvaluateInput(input, txin, spk) ==
    IF IsP2sh(spk) THEN EvaluateP2shSpend(input, txin)
    ELSE IF IsWitnessProgram(spk)
    THEN EvaluateWitnessSpend(input, spk, txin.witness, FALSE)
    ELSE EvaluateLegacySpend(input, txin, spk)

-----------------------------------------------------------------------------
(* The transaction *)

OfRule(matches, rule) == SelectSeq(matches, LAMBDA m : m.rule = rule)

\* Mutant: a later input is named although an earlier one is unknown.
RecordUnblocked(state, matches) ==
    [state EXCEPT !.matches = @ \o matches,
                  !.primary = IF @ = <<>> THEN First(matches) ELSE @]

\* record_matches; the primary violation is a sequence of at most one match.
RecordMatches(state, matches) ==
    [state EXCEPT !.matches = @ \o matches,
                  !.primary = IF @ = <<>> /\ ~ state.blocked
                              THEN First(matches) ELSE @]

\* An input without facts: push_unknown_all, and the first rejection is open.
RecordUnknown(state, input) ==
    [state EXCEPT !.unknowns = Append(@, input),
                  !.blocked = @ \/ state.primary = <<>>]

OutputsEvaluated(outputs) ==
    [matches |-> outputs, unknowns |-> <<>>, primary |-> First(outputs),
     blocked |-> FALSE]

\* evaluate_applied: the matches of the transaction in the order they are found.
Evaluated(tx, known) ==
    FoldLeftDomain(
        LAMBDA state, i :
            IF i \in known
            THEN RecordMatches(state, EvaluateInput(i, tx.inputs[i], tx.inputs[i].spk))
            ELSE RecordUnknown(state, i),
        OutputsEvaluated(OutputSizeViolations(tx)), tx.inputs)

\* The verdict on one rule.
RuleOutcome(rule, evidence, missing) ==
    [rule |-> rule,
     verdict |-> IF evidence # <<>> THEN "violate"
                 ELSE IF missing # <<>> THEN "unknown" ELSE "pass",
     evidence |-> evidence, missing |-> missing]

Evidence(state) ==
    [primary |-> state.primary,
     rules |-> [k \in DOMAIN RuleIds |->
        RuleOutcome(RuleIds[k], OfRule(state.matches, RuleIds[k]),
                    IF RuleIds[k] = "output_size" THEN <<>> ELSE state.unknowns)]]

TxEvidence(tx, known) == Evidence(Evaluated(tx, known))
=============================================================================
