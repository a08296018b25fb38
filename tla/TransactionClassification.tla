---------------------- MODULE TransactionClassification ----------------------
(***************************************************************************)
(* The classification of one witness variant: classify_ready and           *)
(* classification_from_evidence of src/src/classification.rs, the          *)
(* evaluator and the lenses they call, and the validation of the result in *)
(* src/src/model.rs.  A result that lacked facts is retried in later       *)
(* generations, with whatever facts are then available.                    *)
(***************************************************************************)
EXTENDS Bip110Rules, ClassifierLenses

CONSTANTS
    Transactions,   \* the transactions to classify
    SpentScripts(_),\* scripts the outputs a transaction spends may turn out to have
    MaxExemplars,   \* MAX_BIP110_DETAIL_EXEMPLARS_PER_RULE
    MaxGenerations  \* bound: classifications of the variant

ASSUME TransactionClassificationAssumption ==
    MaxExemplars \in Nat \ {0} /\ MaxGenerations \in Nat

VARIABLES
    tx,             \* the variant; it never changes
    known,          \* the inputs whose spent script was available
    cached,         \* its cached classification, a sequence of at most one
    generation      \* generations that classified it

vars == <<tx, known, cached, generation>>

-----------------------------------------------------------------------------
(* classification_from_evidence *)

Firsts(s) == SubSeq(s, 1, IF Len(s) < MaxExemplars THEN Len(s) ELSE MaxExemplars)

RuleDetail(outcome) ==
    [rule |-> outcome.rule, verdict |-> outcome.verdict,
     evidenceCount |-> Len(outcome.evidence), evidence |-> Firsts(outcome.evidence),
     missingCount |-> Len(outcome.missing), missing |-> Firsts(outcome.missing)]

RulesWhere(rules, Test(_)) ==
    LET chosen == SelectSeq(rules, Test) IN [k \in DOMAIN chosen |-> chosen[k].rule]

Violated(rules) == RulesWhere(rules, LAMBDA r : r.verdict = "violate")

\* Mutant: a violated rule is not unknown as well.
UnknownVerdicts(rules) == RulesWhere(rules, LAMBDA r : r.verdict = "unknown")

\* A violated rule of which some input is missing is unknown too.
Unknown(rules) ==
    RulesWhere(rules, LAMBDA r : r.verdict # "pass" /\ r.missing # <<>>)

Status(violated, unknown) ==
    IF violated # <<>> THEN "violating"
    ELSE IF unknown # <<>> THEN "indeterminate" ELSE "compatible"

\* The primary rule is a sequence of at most one rule.
Assessment(primary, violated, unknown) ==
    [status |-> Status(violated, unknown),
     primary |-> [k \in DOMAIN primary |-> primary[k].rule],
     violated |-> violated, unknown |-> unknown]

FromEvidence(evidence) ==
    [assessment |-> Assessment(evidence.primary, Violated(evidence.rules),
                               Unknown(evidence.rules)),
     first |-> evidence.primary,
     rules |-> [k \in DOMAIN evidence.rules |-> RuleDetail(evidence.rules[k])]]

WithResults(t, facts, c) ==
    c @@ [results |-> ClassifyTransaction(t, facts, c.assessment),
          retryable |-> ~ AllKnown(t, facts)]

\* classify_ready for one candidate whose facts are all decided.
Classified(t, facts) == WithResults(t, facts, FromEvidence(TxEvidence(t, facts)))

-----------------------------------------------------------------------------
(* The variant in the generations of its membership *)

Init ==
    /\ tx \in Transactions
    /\ known = {} /\ cached = <<>> /\ generation = 0

\* A variant without a classification, or with one that lacked facts, is
\* eligible; each spent script is found or is explicitly missing.
Classify ==
    /\ generation < MaxGenerations
    /\ \A k \in DOMAIN cached : cached[k].retryable
    /\ known' \in SUBSET DOMAIN tx.inputs
    /\ cached' = <<Classified(tx, known')>>
    /\ generation' = generation + 1
    /\ UNCHANGED tx

Done ==
    /\ generation = MaxGenerations \/ \E k \in DOMAIN cached : ~ cached[k].retryable
    /\ UNCHANGED vars

Next == Classify \/ Done

Spec == Init /\ [][Next]_vars

-----------------------------------------------------------------------------
(* What the publisher accepts *)

Catalog == <<"transaction_properties", "transaction_shape", "data_protocols",
             "knots_bip110">>

Vocabulary ==
    <<ToSet(PROPERTY_LABEL_ORDER), ToSet(SHAPE_LABEL_ORDER), ToSet(DATA_LABEL_ORDER),
      {"compatible", "violating", "indeterminate"}>>

\* validate_classifier_results.
ResultValid(result, k) ==
    /\ result.id = Catalog[k]
    /\ result.labels = <<>> => result.state = "partial"
    /\ result.state = "complete" <=> result.missing = <<>>
    /\ ToSet(result.primary) \subseteq ToSet(result.labels)
    /\ IsInjective(result.labels) /\ IsInjective(result.missing)
    /\ ToSet(result.labels) \subseteq Vocabulary[k]

\* The checks of validate_classification on one rule.
DetailValid(detail, rule) ==
    /\ detail.rule = rule
    /\ Len(detail.evidence) <= MaxExemplars /\ Len(detail.missing) <= MaxExemplars
    /\ detail.evidenceCount >= Len(detail.evidence)
    /\ detail.missingCount >= Len(detail.missing)
    /\ detail.evidenceCount = 0 <=> detail.evidence = <<>>
    /\ detail.missingCount = 0 <=> detail.missing = <<>>
    /\ CASE detail.verdict = "pass" ->
                detail.evidenceCount = 0 /\ detail.missingCount = 0
         [] detail.verdict = "violate" -> detail.evidenceCount > 0
         [] detail.verdict = "unknown" ->
                detail.evidenceCount = 0 /\ detail.missingCount > 0

\* validate_classification.
Valid(c) ==
    LET violated == RulesWhere(c.rules, LAMBDA r : r.verdict = "violate")
        unknown == RulesWhere(c.rules, LAMBDA r : r.missingCount > 0)
        policy == c.results[4]
        partial == c.assessment.unknown # <<>>
    IN  /\ Len(c.results) = Len(Catalog)
        /\ \A k \in DOMAIN Catalog : ResultValid(c.results[k], k)
        /\ policy.primary = <<c.assessment.status>>
        /\ policy.labels = <<c.assessment.status>>
        /\ policy.state = IF partial THEN "partial" ELSE "complete"
        /\ policy.missing = IF partial THEN <<"policy_facts">> ELSE <<>>
        /\ Len(c.rules) = Len(RuleIds)
        /\ \A k \in DOMAIN RuleIds : DetailValid(c.rules[k], RuleIds[k])
        /\ c.assessment.status = Status(violated, unknown)
        /\ c.assessment.violated = violated /\ c.assessment.unknown = unknown
        /\ ToSet(c.assessment.primary) \subseteq ToSet(violated)

-----------------------------------------------------------------------------
(* Properties *)

\* The same transaction, should its unknown spent scripts be these.
Completed(scripts) ==
    [tx EXCEPT !.inputs = [i \in DOMAIN tx.inputs |->
        IF i \in known THEN tx.inputs[i] ELSE [tx.inputs[i] EXCEPT !.spk = scripts[i]]]]

Completions ==
    {Completed(s) : s \in [DOMAIN tx.inputs \ known -> SpentScripts(tx)]}

Whole(t) == Classified(t, DOMAIN t.inputs)

\* What c claims is true if w is the classification with all facts.
ClaimsHold(c, w) ==
    /\ \A k \in DOMAIN c.rules :
          c.rules[k].verdict # "unknown" => w.rules[k].verdict = c.rules[k].verdict
    /\ c.first # <<>> => w.first = c.first
    /\ \A k \in 1..3 : ToSet(c.results[k].labels) \subseteq ToSet(w.results[k].labels)
    /\ \A k \in 1..4 : c.results[k].state = "complete" =>
          c.results[k].labels = w.results[k].labels

\* Whatever the missing spent scripts turn out to be, what a classification
\* claims stays true: a violated or a passed rule, the first rejection, and
\* every label of a lens, of which other_shape and no_detected_protocol are
\* negative; a result marked complete is the one that all facts give
\* (docs/classification.md: no state permits to fabricate a negative result).
ClaimsHoldWhateverIsMissing ==
    \A k \in DOMAIN cached : \A t \in Completions : ClaimsHold(cached[k], Whole(t))

\* The first of some outcomes that is a rejection.
FirstRejection(outcomes) ==
    LET rejected == SelectSeq(outcomes, LAMBDA o : o # <<>>)
    IN  IF rejected = <<>> THEN <<>> ELSE rejected[1]

\* The first instruction at which the client stops executing a script: a push of
\* more than 256 bytes, and in a tapscript OP_IF or OP_NOTIF.
ClientExecutes(input, place, script, tapscript) ==
    LET stops == {k \in DOMAIN script : \/ script[k].data.len > 256
                                        \/ tapscript /\ script[k].op \in {"if", "notif"}}
    IN  IF stops = {} THEN <<>>
        ELSE <<Match(IF script[Min(stops)].op = "push" THEN "element_size"
                     ELSE "tapscript_op_if", input, place, Min(stops))>>

\* The first element the client refuses to put on the stack.
ClientTakes(input, items) ==
    LET long == {k \in DOMAIN items : items[k].len > 256}
    IN  IF long = {} THEN <<>> ELSE <<Match("element_size", input, "items", Min(long))>>

When(condition, match) == IF condition THEN <<match>> ELSE <<>>

\* VerifyWitnessProgram of the client on a native Taproot output: annex, control
\* block, leaf version, the pass over all opcodes, the stack, the script.
ClientTaproot(input, witness) ==
    LET stack == Stack(witness)
        n == Len(stack)
        script == stack[n - 1].script
        success == Positions(script, "success")
        leaf == IF ~ IsTapscript(stack[n])
                THEN <<Match("undefined_version", input, "tapleaf", 0)>>
                ELSE IF success # {}
                THEN <<Match("op_success", input, "tapscript", Min(success))>>
                ELSE FirstRejection(<<ClientTakes(input, SubSeq(stack, 1, n - 2)),
                                      ClientExecutes(input, "tapscript", script, TRUE)>>)
    IN  FirstRejection(
          <<When(HasAnnex(witness), Match("taproot_annex", input, "annex", 0)),
            IF n < 2 THEN <<>>
            ELSE FirstRejection(
                    <<When(stack[n].len > 257,
                           Match("control_block_size", input, "control", 0)), leaf>>)>>)

\* The client on the spends with several checks: Taproot and P2WSH.
ClientInput(input, txin) ==
    IF IsP2tr(txin.spk) THEN ClientTaproot(input, txin.witness)
    ELSE IF txin.witness = <<>> THEN <<>>
    ELSE FirstRejection(<<ClientTakes(input, Front(txin.witness)),
            ClientExecutes(input, "witness_script", Last(txin.witness).script, FALSE)>>)

\* Such spends, valid apart from the rules: the control block is aligned.
Ordered(t) == \A i \in DOMAIN t.inputs :
    LET spk == t.inputs[i].spk
        stack == Stack(t.inputs[i].witness)
    IN  \/ IsProgram(spk, 0, 32)
        \/ IsP2tr(spk) /\ (Len(stack) < 2 \/ Aligned(Last(stack)))

Client(t) ==
    FirstRejection(<<First(OutputSizeViolations(t))>>
                   \o [i \in DOMAIN t.inputs |-> ClientInput(i, t.inputs[i])])

ShowsRejection(shown, rejection) ==
    IF shown # <<>> THEN shown = rejection
    ELSE rejection # <<>> =>
            \E i \in DOMAIN tx.inputs \ known : i <= rejection[1].input

\* The first rejection shown is the one at which a client that stops at its first
\* error would stop: outputs, then the inputs in order, and within an input the
\* client's order of checks.  With missing facts it is that one or none, and none
\* only if an input before it is missing.
PrimaryIsFirstRejection ==
    cached # <<>> /\ Ordered(tx) => ShowsRejection(cached[1].first, Client(tx))

\* Every classification passes the checks of the publisher, which would refuse
\* the whole publication for one that does not.
ClassificationIsPublishable == cached # <<>> => Valid(cached[1])

\* The data lens finds what the writers of the carriers put into the transaction,
\* however they are spread over its outputs and elements, and nothing else.  Other
\* outputs may stand between the pieces; only an envelope without burn keys, which is
\* read from all bare multisig outputs together, has no foreign multisig among them.
CarriersAreFound ==
    cached # <<>> => ToSet(cached[1].results[3].labels) = tx.carries
=============================================================================
