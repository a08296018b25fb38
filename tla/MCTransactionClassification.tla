--------------------- MODULE MCTransactionClassification ---------------------
(***************************************************************************)
(* Transactions for TransactionClassification: spends at the limits of     *)
(* every rule for the policy, and carriers, families and shapes for the    *)
(* lenses.                                                                 *)
(***************************************************************************)
EXTENDS TransactionClassification

Tagged(n, tag) == [Data(n) EXCEPT !.tag = tag]
Scripted(n, script) == [Data(n) EXCEPT !.script = script]

Spend(spk, sig, witness) ==
    [spk |-> spk, scriptSig |-> sig, witness |-> witness, rbf |-> FALSE]

Pays(script, value) == [script |-> script, value |-> value]

Tx(inputs, outputs) ==
    [version |-> 2, inputs |-> inputs, outputs |-> outputs,
     carries |-> {"no_detected_protocol"}]

P2pkh(who) == <<Op("dup"), Op("hash160"), Push(Tagged(20, who)), Op("equalverify"),
                Op("checksig")>>
P2sh(who) == <<Op("hash160"), Push(Tagged(20, who)), Op("equal")>>
Program(version, data) ==
    <<IF version = 0 THEN Push(NoData) ELSE Number(version), Push(data)>>
P2wpkh(who) == Program(0, Tagged(20, who))
P2wsh(who) == Program(0, Tagged(32, who))
P2tr(who) == Program(1, Tagged(32, who))
P2a == Program(1, Tagged(2, "anchor"))

-----------------------------------------------------------------------------
(* Policy *)

Long == Push(Data(257))
Short == Push(Data(256))
Annex == Tagged(8, "annex")

LeafScripts ==
    {<<Op("if"), Long>>, <<Long, Op("notif")>>, <<Op("success"), Op("if"), Long>>,
     <<Short>>, <<Op("success"), Op("bad")>>}

Controls == {Tagged(33, "tapscript"), Tagged(257, "tapscript"),
             Tagged(289, "tapscript"), Tagged(289, "other"), Tagged(34, "tapscript")}

TaprootWitnesses ==
    {args \o <<Scripted(99, s), c>> \o annex :
        args \in {<<>>, <<Data(257)>>}, s \in LeafScripts, c \in Controls,
        annex \in {<<>>, <<Annex>>}}
    \cup {<<>>, <<Data(64)>>, <<Data(64), Annex>>}

Wrapped(program) == Push(Scripted(Size(program), program))

OtherSpends ==
    {Spend(P2pkh("a"), <<Long, Short>>, <<>>),
     Spend(<<Long, Op("drop")>>, <<Short>>, <<>>),
     Spend(P2sh("a"), <<Long, Push(Scripted(300, <<Long>>))>>, <<>>),
     Spend(P2sh("a"), <<Long, Number(1)>>, <<>>),
     Spend(P2sh("a"), <<Op("dup"), Long>>, <<>>),
     Spend(P2sh("a"), <<>>, <<>>),
     Spend(P2sh("a"), <<Wrapped(P2wpkh("a"))>>, <<Data(257)>>),
     Spend(P2sh("a"), <<[Wrapped(P2wpkh("a")) EXCEPT !.minimal = FALSE]>>, <<Data(257)>>),
     Spend(P2sh("a"), <<Wrapped(P2tr("a"))>>, <<Data(64)>>),
     Spend(P2wpkh("a"), <<>>, <<Data(72), Data(33)>>),
     Spend(P2wsh("a"), <<>>, <<Data(257), Scripted(300, <<Op("if"), Long>>)>>),
     Spend(P2wsh("a"), <<>>, <<>>),
     Spend(Program(0, Data(21)), <<>>, <<Data(257)>>),
     Spend(Program(2, Data(32)), <<>>, <<>>),
     Spend(P2a, <<>>, <<>>), Spend(P2a, <<>>, <<Data(1)>>)}

TaprootSpends == {Spend(P2tr("a"), <<>>, w) : w \in TaprootWitnesses}

FewSpends ==
    {Spend(P2pkh("b"), <<Short>>, <<>>),
     Spend(P2wsh("b"), <<>>, <<Data(257), Scripted(300, <<Long>>)>>),
     Spend(P2tr("b"), <<>>, <<Scripted(9, <<Long, Op("if"), Long>>), Tagged(33, "tapscript")>>)}

PolicyOutputs ==
    {<<Pays(P2tr("o"), 1), Pays(<<Op("return"), Push(Data(80))>>, 0)>>,
     <<Pays(<<>>, 0), Pays(<<Op("return"), Push(Data(81))>>, 0),
       Pays(<<Push(Data(33)), Op("checksig")>>, 1)>>}

PolicyTransactions ==
    {[Tx(inputs, outputs) EXCEPT !.carries = {"other_op_return"}] :
        inputs \in UNION {{<<s, f>>, <<f, s>>} : s \in TaprootSpends \cup OtherSpends,
                                                 f \in FewSpends},
        outputs \in PolicyOutputs}

PolicyScripts == {P2pkh("x"), P2sh("x"), P2wsh("x"), P2tr("x"), Program(2, Data(32))}

-----------------------------------------------------------------------------
(* Writers of data carriers *)

Text(n, words) == [Data(n) EXCEPT !.text = [k \in DOMAIN words |->
                                               [text |-> words[k], at |-> 0]]]

\* A word obfuscated at a position of its stream.
Hidden(word, k) == [Data(33) EXCEPT !.text = <<[text |-> word, at |-> k]>>]

Key == Push(Data(33))
Burn == Push(Tagged(33, "burn"))

Multisig(m, keys) ==
    <<Number(m)>> \o keys \o <<Number(Len(keys)), Op("checkmultisig")>>

\* A stream of two words an output, with this third key.
Spread(words, third) ==
    [k \in 1..(Len(words) \div 2) |->
        Multisig(1, <<Push(Hidden(words[2 * k - 1], 2 * k - 1)),
                      Push(Hidden(words[2 * k], 2 * k)), third>>)]

Carrier(scripts, labels) == [scripts |-> scripts, labels |-> labels]

Return(pushes) == <<Op("return")>> \o pushes

Fillers == {P2pkh("f"), Multisig(2, <<Key, Key, Key>>)}

\* Carriers that any other output may stand between.
LooseCarriers ==
    {Carrier(Spread(<<"stamp", "x", "x", "x">>, Burn), {"stamps"}),
     Carrier(Spread(<<"x", "x", "x", "stamp">>, Burn), {"stamps"}),
     Carrier(Spread(<<"x", "x", "x", "x">>, Burn), {}),
     Carrier(Spread(<<"len_cntrprty", "x", "stamp", "x">>, Burn), {"stamps", "counterparty"}),
     Carrier(Spread(<<"len_cntrprty", "x", "x", "x">>, Key), {"counterparty"}),
     Carrier(<<Multisig(1, <<Key, Push(Text(33, <<"cntrprty">>))>>)>>, {"counterparty"}),
     Carrier(<<Multisig(1, <<Push(Text(33, <<"stamp">>)), Key, Burn>>)>>, {}),
     Carrier(<<Return(<<Number(13), Push(Data(9))>>)>>, {"runes"}),
     Carrier(<<Return(<<Push(Hidden("cntrprty", 1))>>)>>, {"counterparty"}),
     Carrier(<<Return(<<Push(Text(9, <<"cntrprty">>))>>)>>, {"other_op_return"}),
     Carrier(<<Return(<<Push(Text(4, <<"omni">>)), Push(Text(9, <<"x">>))>>)>>, {"omni"}),
     Carrier(<<Return(<<Push(Text(9, <<"x", "omni">>))>>),
               Return(<<Number(13)>>)>>, {"other_op_return", "runes"}),
     Carrier(<<Return(<<Number(1), Push(Text(4, <<"omni">>))>>)>>, {"other_op_return"}),
     Carrier(<<Return(<<>>)>>, {"other_op_return"})}

\* An envelope without burn keys is read from all multisig outputs together.
TightCarriers ==
    {Carrier(Spread(<<"len_cntrprty", "x", "x", "stamp">>, Key), {"counterparty", "stamps"}),
     Carrier(Spread(<<"cntrprty", "stamp">>, Key), {"counterparty", "stamps"})}

Opening == <<Push(NoData), Op("if"), Push(Text(3, <<"ord">>))>>
Field(data) == <<Push(Data(1)), Push(data)>>
Body(pushes) == <<Push(NoData)>> \o pushes \o <<Op("endif")>>
Brc20Body == Body(<<Push(Text(9, <<"x", "p_brc">>)), Push(Text(3, <<"space", "20">>))>>)

LongOpening == [Opening EXCEPT ![3].minimal = FALSE]

Reveal(script, control) == <<Data(64), Scripted(99, script), control>>
Leaf == Tagged(33, "tapscript")

WitnessCarriers ==
    {Carrier(Reveal(Opening \o Field(Data(9)) \o Brc20Body, Leaf), {"inscription", "brc20"}),
     Carrier(Reveal(Opening \o Brc20Body, Leaf) \o <<Annex>>, {"inscription", "brc20"}),
     Carrier(Reveal(<<Op("drop")>> \o LongOpening \o Brc20Body, Leaf),
             {"inscription", "brc20"}),
     Carrier(Reveal(Opening \o Field(NoData)
                        \o <<Push(Text(9, <<"p_brc">>)), Push(Text(9, <<"20">>))>>, Leaf),
             {"inscription"}),
     Carrier(Reveal(Opening \o Field(Data(5)) \o <<Push(Data(1)), Op("endif")>>, Leaf),
             {"inscription"}),
     Carrier(Reveal(Opening \o Brc20Body \o <<Op("bad")>>, Leaf), {"inscription"}),
     Carrier(Reveal(Opening \o Brc20Body, Tagged(34, "tapscript")), {"inscription"}),
     Carrier(Reveal([Opening EXCEPT ![2] = Op("notif")] \o Brc20Body, Leaf), {}),
     Carrier(Reveal(LongOpening \o Brc20Body, Tagged(33, "other")), {}),
     Carrier(<<Tagged(50, "ord_bytes")>>, {"inscription"}),
     Carrier(<<>>, {})}

Insert(s, e, k) == SubSeq(s, 1, k) \o <<e>> \o SubSeq(s, k + 1, Len(s))

Carries(witness, carrier, scripts) ==
    [Tx(<<[Spend(P2tr("i"), <<>>, witness.scripts) EXCEPT !.rbf = TRUE]>>,
        [v \in DOMAIN scripts |-> Pays(scripts[v], 1)])
     EXCEPT !.carries = OrNoProtocol(witness.labels \cup carrier.labels)]

DataTransactions ==
    UNION {{Carries(w, c, Insert(c.scripts, f, k)) : k \in 0..Len(c.scripts)} :
              w \in WitnessCarriers, c \in LooseCarriers, f \in Fillers}
    \cup UNION {{Carries(w, c, Insert(c.scripts, P2pkh("f"), k)) : k \in 0..Len(c.scripts)} :
                   w \in WitnessCarriers, c \in TightCarriers}

-----------------------------------------------------------------------------
(* Shapes *)

Names == <<"a", "b", "c", "d", "e">>

SpendsOf(names) == [k \in DOMAIN names |-> Spend(P2pkh(names[k]), <<>>, <<>>)]

PaysTo(names, values) ==
    [k \in DOMAIN names |-> Pays(P2wpkh(names[k]), values[k])]

Note == Pays(Return(<<Push(Data(5))>>), 0)

ShapeTransactions ==
    {Tx(SpendsOf(n), PaysTo(Names, v)) :
        n \in {Names, <<"a", "a", "c", "d", "e">>, SubSeq(Names, 1, 4)},
        v \in {<<7, 7, 7, 2, 3>>, <<7, 7, 1, 2, 3>>, <<0, 0, 0, 2, 3>>}}
    \cup {Tx(SpendsOf(Names), PaysTo(<<"a", "a", "c", "d", "e">>, <<7, 7, 7, 2, 3>>)),
          [Tx(SpendsOf(Names), Append(PaysTo(Names, <<7, 7, 7, 2, 3>>), Note))
              EXCEPT !.carries = {"other_op_return"}],
          Tx(SpendsOf(Names), PaysTo(<<"a">>, <<7>>)),
          Tx(SpendsOf(SubSeq(Names, 1, 4)), PaysTo(<<"a">>, <<7>>)),
          [Tx(SpendsOf(<<"a">>), PaysTo(Names, <<1, 2, 3, 4, 5>>)) EXCEPT !.version = 3]}

LensTransactions == DataTransactions \cup ShapeTransactions

LensScripts == {P2pkh("a"), P2tr("z")}

-----------------------------------------------------------------------------
(* The instance *)

MCTransactions == PolicyTransactions \cup LensTransactions

MCSpentScripts(t) == IF t \in LensTransactions THEN LensScripts ELSE PolicyScripts
=============================================================================
