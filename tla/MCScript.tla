------------------------------ MODULE MCScript ------------------------------
EXTENDS ScriptSpec

\* Hashes are sequences of numbers above 255, one for each element that is hashed.
MCHashOf(op, e) ==
    LET n == 1000 + Iterate(Len(e), LAMBDA sum, i : (7 * sum + e[i]) % 100003, Len(e))
    IN  IF op \in {OP_SHA256, OP_HASH256} THEN <<n, n, n>> ELSE <<n, n>>

Key1 == <<2, 1, 0, 0>>
Key2 == <<3, 2, 0, 0>>
Key3 == <<4, 3, 0, 0, 0, 0>>
BadKey == <<9, 1, 0, 0>>

\* A DER encoding whose R names the key and whose S the hashes it is right for.
Sig(r, s, type) == <<48, 6, 2, 1, r, 2, 1, s, type>>
LooseSig(r, s, type) == <<48, 7, 2, 1, r, 2, 1, s, 0, type>>

\* S = 1: right for every hash; 2: for code without a separator; 3: for data.
MCSigned(sig, key, hash) ==
    /\ Len(sig) >= 8 /\ sig[5] = key[2]
    /\ IF hash = One THEN sig[8] = 1
       ELSE IF "data" \in DOMAIN hash THEN sig[8] = 3
       ELSE IF "code" \in DOMAIN hash /\ sig[8] = 2 THEN ~\E i \in DOMAIN hash.code : hash.code[i] = OP_CODESEPARATOR
       ELSE sig[8] \in {1, 2}

MCHighS == {Sig(r, 1, 2) : r \in 1..3}

MCTx == [version |-> 2, lockTime |-> 9, outputs |-> <<"a">>,
         inputs |-> <<[prevout |-> "p", sequence |-> 3], [prevout |-> "q", sequence |-> 63]>>]
MCSpend == [tx |-> MCTx, index |-> 1, amount |-> 0]

Enabling == {"concat", "split", "and", "or", "xor", "div", "mod", "bin2num", "num2bin", "checkdatasig"}

SeqsUpTo(S, n) == UNION {[1..k -> S] : k \in 0..n}
Joined(ss) == Iterate(Len(ss), LAMBDA a, i : a \o ss[i], <<>>)

\* Conditionals, separators and signature checks; 255 is no opcode.
ControlTokens == {<<OP_0>>, <<OP_1>>, <<OP_IF>>, <<OP_NOTIF>>, <<OP_ELSE>>, <<OP_ENDIF>>, <<OP_DUP>>,
                  <<255>>, <<OP_CODESEPARATOR>>, <<OP_CHECKSIG>>, <<OP_VERIFY>>}
ControlScripts == {a \o b \o c \o d \o e : a, b, c, d, e \in ControlTokens \cup {<<>>}}

\* Every opcode after two or three elements.
Elements == {<<>>, <<0>>, <<1>>, <<2>>, <<129>>, <<128>>, <<255, 0>>, <<1, 0>>, <<0, 0, 1>>}
OpScripts == {PushData(a) \o PushData(b) \o <<op>> : a, b \in Elements, op \in 97..187}
Triples == {PushData(<<2>>) \o PushData(a) \o PushData(b) \o PushData(c) \o <<op>> :
                a, b, c \in {<<>>, <<1>>, <<2>>},
                op \in {OP_WITHIN, OP_PICK, OP_ROLL, OP_ROT, OP_2SWAP, OP_2OVER, OP_TUCK, OP_TOALTSTACK}}
GrowScripts == {PushData(a) \o <<OP_DUP, op, op2, OP_2DUP, OP_CAT>> :
                a \in {<<1>>, <<1, 1>>, <<5>>, <<3, 3, 3>>},
                op, op2 \in {OP_CAT, OP_LEFT, OP_3DUP, OP_2DUP, OP_TOALTSTACK, OP_SIZE}}
AltScripts == {<<OP_1, OP_1, OP_1, OP_1>> \o t \o <<OP_2DUP, OP_2DUP>> :
                t \in {<<>>, <<OP_TOALTSTACK>>, <<OP_TOALTSTACK, OP_TOALTSTACK>>, <<OP_TOALTSTACK, OP_FROMALTSTACK>>}}

MultisigTokens(op) ==
    {<<OP_0>> \o PushData(s1) \o PushData(s2) \o <<OP_1 + (n - 1)>> \o PushData(k1) \o PushData(k2)
        \o <<OP_1 + 1, op>> :
        s1, s2 \in {<<>>, Sig(1, 1, 1), Sig(2, 1, 1), LooseSig(1, 1, 1)}, n \in 1..2, k1, k2 \in {Key1, Key2, BadKey}}

CheckSigs == {PushData(s) \o PushData(k) \o t : s \in {<<>>, Sig(1, 1, 1), Sig(1, 2, 1), Sig(1, 1, 65), Sig(1, 1, 7)},
                k \in {Key1, Key3, BadKey}, t \in {<<OP_CHECKSIG>>, <<OP_CODESEPARATOR, OP_CHECKSIGVERIFY>>}}
DataSigs == {PushData(s) \o <<OP_1>> \o PushData(k) \o <<op>> : s \in {<<>>, Sig(1, 3, 1)}, k \in {Key1, BadKey},
                op \in {OP_CHECKDATASIG, OP_CHECKDATASIGVERIFY}}

Family(scripts, flags, versions) == [scripts |-> scripts, flags |-> flags, versions |-> versions]

MCPrograms ==
    {Family(ControlScripts, {{}}, {"Base"})}
    \cup {Family(s, {Enabling}, {"Base"}) : s \in {OpScripts, Triples, GrowScripts, AltScripts}}
    \cup {Family(s, {Enabling, {"strictenc", "low_s"}}, {"Base", "ForkId"}) :
            s \in {CheckSigs, DataSigs, MultisigTokens(OP_CHECKMULTISIG)}}

-----------------------------------------------------------------------------
\* Spendings: an output of each pattern, with inputs that fit and inputs that do not.

Redeems == {<<OP_1>>, <<OP_DUP>>, <<OP_0>>, PushData(Key1) \o <<OP_CHECKSIG>>,
            <<OP_0, KeyHashSize>> \o MCHashOf(OP_HASH160, Key1)}
Plain == {<<>>, <<OP_1>>, <<OP_NOP, 1, 1, OP_DUP, OP_EQUAL>>, <<OP_DUP>>, <<OP_NOP1>>, <<OP_CHECKLOCKTIMEVERIFY>>, <<OP_CHECKSEQUENCEVERIFY>>,
          PushData(Key1) \o <<OP_CHECKSIG>>, BuildP2PKH(MCHashOf(OP_HASH160, Key1)),
          <<OP_1>> \o PushData(Key1) \o <<OP_1, OP_CHECKMULTISIG>>}
ScriptHashes == {BuildP2SH(MCHashOf(OP_HASH160, r)) : r \in Redeems}
WitnessPrograms == {<<OP_0, KeyHashSize>> \o MCHashOf(OP_HASH160, Key1), <<OP_1, 2, 0, 0>>, <<OP_0, 4, 0, 0, 0, 0>>}
                   \cup {<<OP_0, ScriptHashSize>> \o MCHashOf(OP_SHA256, r) : r \in Redeems}

InputScripts == {<<>>, <<OP_1>>, <<OP_1, OP_1>>, <<1, 1>>, <<OP_0, OP_1>>, <<OP_NOP, OP_1>>,
                 PushData(Sig(1, 1, 1)), PushData(Sig(1, 1, 2)), PushData(Sig(1, 1, 1)) \o PushData(Key1),
                 <<OP_0>> \o PushData(Sig(1, 1, 1)), <<OP_1>> \o PushData(LooseSig(1, 1, 1))}
                \cup {PushData(r) : r \in Redeems}
                \cup {<<OP_1>> \o PushData(r) : r \in Redeems}
                \cup {PushData(Sig(1, 1, 1)) \o PushData(r) : r \in Redeems}
                \cup {<<OP_NOP>> \o PushData(r) : r \in Redeems}
Witnesses == {<<>>, <<Sig(1, 1, 1), Key1>>, <<Key1>>} \cup {<<r>> : r \in Redeems}
             \cup {<<True, r>> : r \in {<<OP_1>>, <<OP_DUP>>}} \cup {<<Sig(1, 1, 1), r>> : r \in Redeems}

MCFlagSets == {{}, {"p2sh"}, {"p2sh", "witness"}, {"strictenc", "nulldummy"},
               {"p2sh", "witness", "cleanstack", "minimaldata", "dersig"},
               {"p2sh", "locktime", "checksequence", "low_s", "sigpushonly"}}

MCSpendings ==
    {[sigs |-> InputScripts, pubkeys |-> Plain \cup ScriptHashes, witnesses |-> {<<>>}, flags |-> MCFlagSets],
     [sigs |-> {<<>>, <<OP_1>>} \cup {PushData(r) : r \in Redeems}, pubkeys |-> WitnessPrograms \cup ScriptHashes,
      witnesses |-> Witnesses, flags |-> {{}, {"p2sh"}, {"p2sh", "witness"}, {"p2sh", "witness", "cleanstack"}}]}

-----------------------------------------------------------------------------
MCNumbers == SeqsUpTo({0, 1, 127, 128, 129, 255}, 4)
MCStacks == {[i \in 1..n |-> <<i>>] : n \in 0..8}

MCMultisigs ==
    {[sigs |-> SubSeq(<<1, 2>>, 1, ns), keys |-> SubSeq(<<1, 2, 3>>, 1, nk), right |-> r] :
        ns \in 0..2, nk \in 0..3, r \in SUBSET ((1..2) \X (1..3))}

TxOf(nIn, nOut) ==
    [version |-> 1, lockTime |-> 0, outputs |-> [i \in 1..nOut |-> "a"],
     inputs |-> [i \in 1..nIn |-> [prevout |-> i, sequence |-> 5]]]

Change(tx, field, at) ==
    CASE field = "version" -> [tx EXCEPT !.version = 2]
      [] field = "lockTime" -> [tx EXCEPT !.lockTime = 7]
      [] field = "amount" -> tx
      [] field = "prevout" -> [tx EXCEPT !.inputs[at].prevout = 9]
      [] field = "sequence" -> [tx EXCEPT !.inputs[at].sequence = 6]
      [] field = "output" -> [tx EXCEPT !.outputs[at] = "b"]

SpendOf(nIn, nOut, index, version, u, field, at) ==
    [tx |-> TxOf(nIn, nOut), changed |-> Change(TxOf(nIn, nOut), field, at), index |-> index, version |-> version,
     type |-> u, field |-> field, at |-> at, code |-> <<OP_1>>]

HashTypes == {0, 1, 2, 3, 129, 130, 131, 65, 67, 195, 194, 193}
MCSpends ==
    UNION {{SpendOf(i, o, n, v, u, f, at) : n \in 1..i, v \in {"Base", "WitnessV0", "ForkId"}, u \in HashTypes,
              f \in {"version", "lockTime", "amount"}, at \in {1}} : i \in 1..2, o \in 0..3}
    \cup UNION {{SpendOf(i, o, n, v, u, f, at) : n \in 1..i, v \in {"Base", "WitnessV0", "ForkId"}, u \in HashTypes,
              f \in {"prevout", "sequence"}, at \in 1..i} : i \in 1..2, o \in 0..2}
    \cup UNION {{SpendOf(i, o, n, v, u, "output", at) : n \in 1..i, v \in {"Base", "WitnessV0", "ForkId"}, u \in HashTypes,
              at \in 1..o} : i \in 1..2, o \in 1..3}

\* u32 is 6 bits: flags 32 and 16, values below 8; heights below 20, times above.
MCLocks ==
    {[tx |-> [version |-> v, lockTime |-> l, outputs |-> <<>>,
              inputs |-> <<[prevout |-> "p", sequence |-> s], [prevout |-> "q", sequence |-> 63]>>],
      index |-> 1, n |-> n, height |-> h, time |-> t] :
        v \in {1, 2}, l \in {0, 3, 19, 20, 22}, s \in {0, 2, 5, 18, 34, 62, 63},
        n \in {0, 2, 3, 4, 18, 19, 20, 21, 34, 64, 67, 84, 150}, h \in {1, 4}, t \in {21, 23}}

MCOutputs ==
    LET Built == Plain \cup ScriptHashes \cup WitnessPrograms \cup
                 {<<OP_1 + (n - 1)>> \o Joined(ks) \o <<OP_1 + (Len(ks) - 1), OP_CHECKMULTISIG>> :
                    n \in 1..3, ks \in SeqsUpTo({PushData(Key1), PushData(Key3), <<OP_NOP>>}, 3)}
                 \cup {<<OP_RETURN>>, <<OP_RETURN, 1, 1>>, <<OP_RETURN, OP_DUP>>, PushData(Key3) \o <<OP_CHECKSIG>>,
                       <<OP_0, OP_1, OP_CHECKMULTISIG>>, <<OP_0, OP_0, OP_CHECKMULTISIG>>}
    IN  Built \cup UNION {{[s EXCEPT ![i] = b] : i \in DOMAIN s, b \in {0, 2, 4, OP_RETURN, OP_CHECKMULTISIG}} : s \in Built}
=============================================================================
