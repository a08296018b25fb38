--------------------------- MODULE ClassifierLenses ---------------------------
(***************************************************************************)
(* The classifier lenses of src/src/classifiers.rs: exact properties,      *)
(* heuristic shape and data-protocol fingerprints of one transaction, of   *)
(* which some spent scripts may be unknown.                                *)
(*                                                                         *)
(* Text is a sequence of tokens [text, at].  A token with at = 0 is in the *)
(* clear; one with at = k was obfuscated with ARC4 as the k-th token of a  *)
(* stream, under the key of this transaction.                              *)
(***************************************************************************)
EXTENDS TransactionScripts, FiniteSets

COINJOIN_MIN_INPUTS == 5
COINJOIN_MIN_OUTPUTS == 5
COINJOIN_MIN_EQUAL_OUTPUTS == 3
SHAPE_RATIO == 5

PROPERTY_LABEL_ORDER ==
    <<"version_1", "version_2", "version_3", "version_other", "signals_rbf",
      "has_witness", "has_taproot_annex", "p2pk", "bare_multisig", "p2pkh", "p2sh",
      "p2wpkh", "p2wsh", "p2tr", "p2a", "unknown_witness_program", "op_return",
      "unknown_script">>

SHAPE_LABEL_ORDER == <<"possible_coinjoin", "consolidation", "batch_payout",
                       "other_shape">>

DATA_LABEL_ORDER == <<"inscription", "brc20", "runes", "stamps", "counterparty",
                      "omni", "other_op_return", "no_detected_protocol">>

OrderedLabels(found, order) == SelectSeq(order, LAMBDA label : label \in found)

\* A primary label is a sequence of at most one label.
Result(id, complete, primary, labels, missing) ==
    [id |-> id, state |-> IF complete THEN "complete" ELSE "partial",
     primary |-> primary, labels |-> labels,
     missing |-> IF complete THEN <<>> ELSE <<missing>>]

AllKnown(tx, known) == DOMAIN tx.inputs \subseteq known

-----------------------------------------------------------------------------
(* transaction_properties *)

\* parse_bare_multisig: OP_m, the keys, OP_n, OP_CHECKMULTISIG.
IsBareMultisig(script) ==
    LET n == Len(script)
    IN  /\ Decodes(script) /\ n >= 3
        /\ script[1].op = "number" /\ script[n - 1].op = "number"
        /\ script[n].op = "checkmultisig"
        /\ \A k \in 2..(n - 2) : script[k].op = "push"
        /\ script[n - 1].n = n - 3 /\ script[1].n <= n - 3

ScriptFamily(script) ==
    CASE \E len \in {33, 65} :
            HasShape(script, <<<<"push", len>>, <<"checksig", 0>>>>) -> "p2pk"
      [] IsBareMultisig(script) -> "bare_multisig"
      [] HasShape(script, <<<<"dup", 0>>, <<"hash160", 0>>, <<"push", 20>>,
                            <<"equalverify", 0>>, <<"checksig", 0>>>>) -> "p2pkh"
      [] IsP2sh(script) -> "p2sh"
      [] IsProgram(script, 0, 20) -> "p2wpkh"
      [] IsProgram(script, 0, 32) -> "p2wsh"
      [] IsP2tr(script) -> "p2tr"
      [] IsP2a(script) -> "p2a"
      [] IsWitnessProgram(script) /\ ~ IsP2a(script)
            /\ \A v \in {<<0, 20>>, <<0, 32>>, <<1, 32>>} :
                  ~ IsProgram(script, v[1], v[2]) -> "unknown_witness_program"
      [] IsOpReturn(script) -> "op_return"
      [] OTHER -> "unknown_script"

VersionLabel(version) ==
    CASE version = 1 -> "version_1" [] version = 2 -> "version_2"
      [] version = 3 -> "version_3" [] OTHER -> "version_other"

Scripts(tx, known) ==
    {tx.outputs[v].script : v \in DOMAIN tx.outputs}
        \cup {tx.inputs[i].spk : i \in DOMAIN tx.inputs \cap known}

If(condition, label) == IF condition THEN {label} ELSE {}

PropertyLabels(tx, known) ==
    {VersionLabel(tx.version)} \cup {ScriptFamily(s) : s \in Scripts(tx, known)}
    \cup If(\E i \in DOMAIN tx.inputs : tx.inputs[i].rbf, "signals_rbf")
    \cup If(\E i \in DOMAIN tx.inputs : tx.inputs[i].witness # <<>>, "has_witness")
    \cup If(\E i \in DOMAIN tx.inputs \cap known :
                IsP2tr(tx.inputs[i].spk) /\ HasAnnex(tx.inputs[i].witness),
            "has_taproot_annex")

TransactionProperties(tx, known) ==
    Result("transaction_properties", AllKnown(tx, known), <<>>,
           OrderedLabels(PropertyLabels(tx, known), PROPERTY_LABEL_ORDER),
           "input_script_pubkeys")

-----------------------------------------------------------------------------
(* transaction_shape *)

\* How often an output amount other than 0 occurs at most.
MostRepeatedNonzeroOutput(tx) ==
    Max({0} \cup
        {Cardinality({w \in DOMAIN tx.outputs : tx.outputs[w].value = tx.outputs[v].value}) :
            v \in {v \in DOMAIN tx.outputs : tx.outputs[v].value > 0}})

UniqueOutputs(tx) ==
    \A v, w \in DOMAIN tx.outputs :
        v # w => tx.outputs[v].script # tx.outputs[w].script

UniqueInputs(tx) ==
    \A i, j \in DOMAIN tx.inputs : i # j => tx.inputs[i].spk # tx.inputs[j].spk

\* Mutant: what is not known is not the shape.
OtherShapeAlways(tx, known, found) == found = {}

\* other_shape is a negative claim, made once every rule is decided.
OtherShape(tx, known, found) == found = {} /\ AllKnown(tx, known)

PossibleCoinjoin(tx, known, data) ==
    /\ Len(tx.inputs) >= COINJOIN_MIN_INPUTS /\ Len(tx.outputs) >= COINJOIN_MIN_OUTPUTS
    /\ MostRepeatedNonzeroOutput(tx) >= COINJOIN_MIN_EQUAL_OUTPUTS
    /\ UniqueOutputs(tx) /\ AllKnown(tx, known) /\ UniqueInputs(tx)
    /\ ToSet(data.labels) \subseteq {"no_detected_protocol"}

\* At least five, and five times as many.
ManyTo(many, few) == many >= SHAPE_RATIO /\ few > 0 /\ many >= few * SHAPE_RATIO

ShapeLabels(tx, known, data) ==
    If(ManyTo(Len(tx.inputs), Len(tx.outputs)), "consolidation")
    \cup If(ManyTo(Len(tx.outputs), Len(tx.inputs)), "batch_payout")
    \cup If(PossibleCoinjoin(tx, known, data), "possible_coinjoin")

ShapeResult(tx, known, found) ==
    Result("transaction_shape", AllKnown(tx, known),
           First(OrderedLabels(found, SHAPE_LABEL_ORDER)),
           OrderedLabels(found, SHAPE_LABEL_ORDER), "input_script_pubkeys")

WithOtherShape(tx, known, found) ==
    found \cup If(OtherShape(tx, known, found), "other_shape")

TransactionShape(tx, known, data) ==
    ShapeResult(tx, known, WithOtherShape(tx, known, ShapeLabels(tx, known, data)))

-----------------------------------------------------------------------------
(* Inscriptions *)

Has(text, token) == \E k \in DOMAIN text : text[k].text = token

IsOrd(i) == i.op = "push" /\ i.data.text = <<[text |-> "ord", at |-> 0]>>

\* The positions of OP_FALSE OP_IF <push "ord">.
Envelopes(script) ==
    {k \in 1..(Len(script) - 2) :
        /\ script[k].op = "push" /\ script[k].data.len = 0
        /\ script[k + 1].op = "if" /\ IsOrd(script[k + 2])}

\* Mutant: an empty value begins the body.
EnvelopeStepAnyEmpty(state, i) ==
    CASE state.in = "end" \/ i.op # "push" -> [state EXCEPT !.in = "end"]
      [] state.in = "body" /\ i.op = "push" -> [state EXCEPT !.body = @ \o i.data.text]
      [] state.in \in {"field", "value"} /\ i.op = "push" ->
            [state EXCEPT !.in = IF i.data.len = 0 THEN "body"
                                 ELSE IF @ = "field" THEN "value" ELSE "field"]

\* parse_ord_envelope on one instruction: pairs of a field and its value, then
\* after an empty push the body, up to OP_ENDIF or any other opcode.
EnvelopeStep(state, i) ==
    CASE state.in = "end" \/ i.op # "push" -> [state EXCEPT !.in = "end"]
      [] state.in = "body" /\ i.op = "push" -> [state EXCEPT !.body = @ \o i.data.text]
      [] state.in = "field" /\ i.op = "push" ->
            [state EXCEPT !.in = IF i.data.len = 0 THEN "body" ELSE "value"]
      [] state.in = "value" /\ i.op = "push" -> [state EXCEPT !.in = "field"]

\* The text of the body of the first envelope, without white space.
EnvelopeBody(script) ==
    SelectSeq(FoldLeft(EnvelopeStep, [in |-> "field", body |-> <<>>],
                       SubSeq(script, Min(Envelopes(script)) + 3, Len(script))).body,
              LAMBDA t : t.text # "space")

\* The marker, whichever pushes its two halves are in.
IsBrc20(body) ==
    \E k \in 1..(Len(body) - 1) : body[k].text = "p_brc" /\ body[k + 1].text = "20"

\* The six bytes of the opening, found as instructions or inside other data.
HasEnvelopeBytes(element) ==
    \/ element.tag = "ord_bytes"
    \/ \E k \in Envelopes(element.script) :
          element.script[k].minimal /\ element.script[k + 2].minimal

\* The inferred leaf script, in a sequence of at most one.
LeafScript(stack, n) ==
    IF n >= 2 /\ Aligned(stack[n]) /\ IsTapscript(stack[n])
    THEN <<stack[n - 1].script>> ELSE <<>>

DecodedEnvelope(scripts) ==
    SelectSeq(scripts, LAMBDA s : Decodes(s) /\ Envelopes(s) # {})

InscriptionLabels(envelope, witness) ==
    IF envelope # <<>>
    THEN {"inscription"} \cup If(IsBrc20(EnvelopeBody(envelope[1])), "brc20")
    ELSE If(\E k \in DOMAIN witness : HasEnvelopeBytes(witness[k]), "inscription")

AnalyzeWitness(witness) ==
    InscriptionLabels(
        DecodedEnvelope(LeafScript(Stack(witness), Len(Stack(witness)))), witness)

-----------------------------------------------------------------------------
(* Obfuscated payloads *)

Noise == [text |-> "noise", at |-> 0]

\* arc4::apply: the stream cipher gives back what was written at this position
\* of its stream, and nothing of anything else.
Arc4(text) ==
    [k \in DOMAIN text |-> IF text[k].at = k THEN [text[k] EXCEPT !.at = 0] ELSE Noise]

\* What is readable of a text.
Clear(text) ==
    [k \in DOMAIN text |-> IF text[k].at = 0 THEN text[k] ELSE Noise]

\* cntrprty_offset: at 0, or after the length of the chunk.
HasCntrprty(text, prefixed) ==
    /\ text # <<>>
    /\ text[1].text \in {"cntrprty"} \cup (IF prefixed THEN {"len_cntrprty"} ELSE {})

-----------------------------------------------------------------------------
(* OP_RETURN *)

Concat(texts) == FlattenSeq(texts)

\* op_return_payload: the pushes, or the undecoded bytes when there is more.
OpReturnPayload(script) ==
    LET rest == Tail(script)
    IN  IF \A k \in DOMAIN rest : rest[k].op = "push"
        THEN Concat([k \in DOMAIN rest |-> rest[k].data.text])
        ELSE <<Noise>>

PayloadLabel(payload) ==
    IF HasCntrprty(Arc4(payload), FALSE) THEN "counterparty"
    ELSE IF payload # <<>> /\ Clear(payload)[1].text = "omni" THEN "omni"
    ELSE "other_op_return"

\* OP_RETURN OP_13 comes first.
AnalyzeOpReturn(script) ==
    IF ~ IsOpReturn(script) THEN {}
    ELSE IF Len(script) > 1 /\ script[2].op = "number" /\ script[2].n = 13
    THEN {"runes"} ELSE {PayloadLabel(OpReturnPayload(script))}

-----------------------------------------------------------------------------
(* Bare multisig *)

Keys(script) == SubSeq(script, 2, Len(script) - 2)

\* The payload of a key slot of 33 bytes.
Compressed(i) == i.data.len = 33

\* An ordinary key is noise; so no chunk is empty, and <<>> stands for None.
KeyText(i) == IF i.data.text = <<>> THEN <<Noise>> ELSE i.data.text

PairChunk(keys) ==
    IF Compressed(keys[1]) /\ Compressed(keys[2])
    THEN KeyText(keys[1]) \o KeyText(keys[2]) ELSE <<>>

StampsChunk(script) ==
    IF script[1].n = 1 /\ Len(Keys(script)) = 3 /\ Keys(script)[3].data.tag = "burn"
    THEN PairChunk(Keys(script)) ELSE <<>>

\* The second of two keys begins with the length of its run.
CounterpartyChunk(script) ==
    CASE Len(Keys(script)) = 3 -> PairChunk(Keys(script))
      [] Len(Keys(script)) = 2 -> KeyText(Keys(script)[2])
      [] OTHER -> <<>>

MultisigCarriers(tx) ==
    SelectSeq([v \in DOMAIN tx.outputs |-> tx.outputs[v].script], IsBareMultisig)

StampsChunks(tx) ==
    SelectSeq([k \in DOMAIN MultisigCarriers(tx) |-> StampsChunk(MultisigCarriers(tx)[k])],
              LAMBDA c : c # <<>>)

CounterpartyChunks(tx) ==
    SelectSeq([k \in DOMAIN MultisigCarriers(tx) |->
                  CounterpartyChunk(MultisigCarriers(tx)[k])], LAMBDA c : c # <<>>)

\* Mutant: every output is a stream of its own.
DetectStampsByOutput(tx) ==
    If(\E k \in DOMAIN StampsChunks(tx) : Has(Arc4(StampsChunks(tx)[k]), "stamp"), "stamps")

\* The chunks of the burn-key outputs are one stream.
DetectStamps(tx) ==
    If(Has(Arc4(Concat(StampsChunks(tx))), "stamp"), "stamps")

\* The streams that may hold an envelope: all chunks joined, then each chunk.
Candidates(chunks) ==
    (IF Len(chunks) > 1 THEN <<Concat(chunks)>> ELSE <<>>) \o chunks

Envelope(data) == IF HasCntrprty(Clear(data), FALSE) THEN Clear(data) ELSE Arc4(data)

Proven(data) == HasCntrprty(Clear(data), FALSE) \/ HasCntrprty(Arc4(data), TRUE)

\* The first stream that holds one is taken, and searched for the stamps marker.
EnvelopeLabels(proven) ==
    IF proven = <<>> THEN {}
    ELSE {"counterparty"} \cup If(Has(Envelope(proven[1]), "stamp"), "stamps")

DetectMultisigCounterparty(tx) ==
    EnvelopeLabels(SelectSeq(Candidates(CounterpartyChunks(tx)), Proven))

-----------------------------------------------------------------------------

\* data_protocols needs no spent script, so it is always complete.
DataLabels(tx) ==
    UNION {AnalyzeWitness(tx.inputs[i].witness) : i \in DOMAIN tx.inputs}
    \cup UNION {AnalyzeOpReturn(tx.outputs[v].script) : v \in DOMAIN tx.outputs}
    \cup DetectStamps(tx) \cup DetectMultisigCounterparty(tx)

DataResult(labels) == Result("data_protocols", TRUE, First(labels), labels, "none")

OrNoProtocol(found) == IF found = {} THEN {"no_detected_protocol"} ELSE found

DataProtocols(tx) ==
    DataResult(OrderedLabels(OrNoProtocol(DataLabels(tx)), DATA_LABEL_ORDER))

\* bip110_result.
Bip110Result(assessment) ==
    Result("knots_bip110", assessment.unknown = <<>>, <<assessment.status>>,
           <<assessment.status>>, "policy_facts")

Lenses(tx, known, data, assessment) ==
    <<TransactionProperties(tx, known), TransactionShape(tx, known, data), data,
      Bip110Result(assessment)>>

ClassifyTransaction(tx, known, assessment) ==
    Lenses(tx, known, DataProtocols(tx), assessment)
=============================================================================
