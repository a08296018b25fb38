-------------------------- MODULE TransactionScripts --------------------------
(***************************************************************************)
(* Bitcoin scripts as src/src/bip110 and src/src/classifiers.rs read them: *)
(* sequences of decoded instructions.  The data of a push or of a witness  *)
(* element has a length, a tag for what its first bytes are, the script    *)
(* its bytes decode to, and the tokens of the text it carries.             *)
(***************************************************************************)
EXTENDS Naturals, SequencesExt

\* What first() returns: a sequence of at most one element.
First(s) == IF s = <<>> THEN <<>> ELSE <<s[1]>>

NoData == [len |-> 0, tag |-> "none", script |-> <<>>, text |-> <<>>]

Data(n) == [NoData EXCEPT !.len = n]

\* A data push with the shortest header, or (minimal FALSE) with a longer one.
\* OP_0 is the push of no data.
Push(data) == [op |-> "push", n |-> 0, data |-> data, minimal |-> TRUE]

\* OP_1 to OP_16.
Number(n) == [op |-> "number", n |-> n, data |-> NoData, minimal |-> TRUE]

\* Any other opcode.  "success" is any opcode of is_op_success, "bad" is a push
\* whose data is cut short, at which decoding ends.
Op(name) == [op |-> name, n |-> 0, data |-> NoData, minimal |-> TRUE]

-----------------------------------------------------------------------------
(* Decoding *)

Positions(script, op) == {k \in DOMAIN script : script[k].op = op}

\* What instruction_indices yields before the first error.
Decoded(script) ==
    LET bad == Positions(script, "bad")
    IN  IF bad = {} THEN script ELSE SubSeq(script, 1, Min(bad) - 1)

\* decoded_instructions returns None otherwise.
Decodes(script) == Positions(script, "bad") = {}

\* Bytes in front of the data: the opcode and its length.
HeaderLen(i) ==
    (IF i.data.len < 76 THEN 1 ELSE IF i.data.len <= 255 THEN 2 ELSE 3)
    + (IF i.minimal THEN 0 ELSE 1)

Size(script) == FoldSeq(LAMBDA i, n : n + HeaderLen(i) + i.data.len, 0, script)

-----------------------------------------------------------------------------
(* Templates *)

Zero(i) == i.op = "push" /\ i.data.len = 0 /\ i.minimal

\* parse_witness_program: a version and one direct push of 2 to 40 bytes.
IsWitnessProgram(script) ==
    /\ Len(script) = 2
    /\ Zero(script[1]) \/ script[1].op = "number"
    /\ script[2].op = "push" /\ script[2].minimal /\ script[2].data.len \in 2..40

\* The witness version; OP_0 has n = 0.
Version(program) == program[1].n

IsProgram(script, version, len) ==
    IsWitnessProgram(script) /\ Version(script) = version
                             /\ script[2].data.len = len

\* The script has these opcodes, with data of these lengths.
HasShape(script, shape) ==
    /\ shape = [k \in DOMAIN script |-> <<script[k].op, script[k].data.len>>]
    /\ \A k \in DOMAIN script : script[k].minimal

IsP2sh(script) ==
    HasShape(script, <<<<"hash160", 0>>, <<"push", 20>>, <<"equal", 0>>>>)

IsOpReturn(script) == script # <<>> /\ script[1].op = "return"

\* The pay-to-anchor program 4e73.
IsP2a(script) == IsProgram(script, 1, 2) /\ script[2].data.tag = "anchor"

IsP2tr(script) == IsProgram(script, 1, 32)

-----------------------------------------------------------------------------
(* Taproot witnesses *)

\* The last of at least two elements begins with 0x50.
HasAnnex(witness) == Len(witness) >= 2 /\ Last(witness).tag = "annex"

Stack(witness) == IF HasAnnex(witness) THEN Front(witness) ELSE witness

\* A control block is 33 bytes and a whole number of 32-byte nodes.
Aligned(control) == control.len >= 33 /\ (control.len - 33) % 32 = 0

\* Its first byte gives the leaf version.
IsTapscript(control) == control.tag = "tapscript"
=============================================================================
