------------------------------- MODULE Script -------------------------------
(***************************************************************************)
(* Scripts of the script crate as sequences of bytes: how they are cut     *)
(* into instructions, what is counted in them and which patterns they      *)
(* match; and the numbers of the stack as byte sequences.                  *)
(*                                                                         *)
(* Positions start at 1.  Hashes are opaque: the bytes of a hash are       *)
(* numbers above 255, and the lengths of the two kinds are constants.      *)
(***************************************************************************)
EXTENDS Integers, SequencesExt

CONSTANTS
    KeyHashSize,        \* 20 in the code
    ScriptHashSize,     \* 32
    PubKeySizes,        \* {33, 65}
    MaxElementSize,     \* MAX_SCRIPT_ELEMENT_SIZE
    MaxPubkeys,         \* MAX_PUBKEYS_PER_MULTISIG
    HashOf(_, _)        \* the hash an opcode computes of an element

OP_0 == 0
OP_PUSHBYTES_75 == 75
OP_PUSHDATA1 == 76
OP_PUSHDATA2 == 77
OP_PUSHDATA4 == 78
OP_1NEGATE == 79
OP_RESERVED == 80
OP_1 == 81
OP_16 == 96
OP_NOP == 97
OP_VER == 98
OP_IF == 99
OP_NOTIF == 100
OP_VERIF == 101
OP_VERNOTIF == 102
OP_ELSE == 103
OP_ENDIF == 104
OP_VERIFY == 105
OP_RETURN == 106
OP_TOALTSTACK == 107
OP_FROMALTSTACK == 108
OP_2DROP == 109
OP_2DUP == 110
OP_3DUP == 111
OP_2OVER == 112
OP_2ROT == 113
OP_2SWAP == 114
OP_IFDUP == 115
OP_DEPTH == 116
OP_DROP == 117
OP_DUP == 118
OP_NIP == 119
OP_OVER == 120
OP_PICK == 121
OP_ROLL == 122
OP_ROT == 123
OP_SWAP == 124
OP_TUCK == 125
OP_CAT == 126
OP_SUBSTR == 127
OP_LEFT == 128
OP_RIGHT == 129
OP_SIZE == 130
OP_INVERT == 131
OP_AND == 132
OP_OR == 133
OP_XOR == 134
OP_EQUAL == 135
OP_EQUALVERIFY == 136
OP_RESERVED1 == 137
OP_RESERVED2 == 138
OP_1ADD == 139
OP_1SUB == 140
OP_2MUL == 141
OP_2DIV == 142
OP_NEGATE == 143
OP_ABS == 144
OP_NOT == 145
OP_0NOTEQUAL == 146
OP_ADD == 147
OP_SUB == 148
OP_MUL == 149
OP_DIV == 150
OP_MOD == 151
OP_LSHIFT == 152
OP_RSHIFT == 153
OP_BOOLAND == 154
OP_BOOLOR == 155
OP_NUMEQUAL == 156
OP_NUMEQUALVERIFY == 157
OP_NUMNOTEQUAL == 158
OP_LESSTHAN == 159
OP_GREATERTHAN == 160
OP_LESSTHANOREQUAL == 161
OP_GREATERTHANOREQUAL == 162
OP_MIN == 163
OP_MAX == 164
OP_WITHIN == 165
OP_RIPEMD160 == 166
OP_SHA1 == 167
OP_SHA256 == 168
OP_HASH160 == 169
OP_HASH256 == 170
OP_CODESEPARATOR == 171
OP_CHECKSIG == 172
OP_CHECKSIGVERIFY == 173
OP_CHECKMULTISIG == 174
OP_CHECKMULTISIGVERIFY == 175
OP_NOP1 == 176
OP_CHECKLOCKTIMEVERIFY == 177
OP_CHECKSEQUENCEVERIFY == 178
OP_NOP10 == 185
OP_CHECKDATASIG == 186
OP_CHECKDATASIGVERIFY == 187

IsOpcode(u) == u \in 0..187
IsCountable(op) == op > OP_16
IsWithinOpN(op) == op \in OP_1..OP_16
DecodeOpN(op) == op - (OP_1 - 1)

\* The flag that turns on an opcode otherwise disabled; those never turned on have none.
EnabledBy(op) ==
    CASE op = OP_CAT -> "concat" [] op = OP_SUBSTR -> "split" [] op = OP_AND -> "and"
      [] op = OP_OR -> "or" [] op = OP_XOR -> "xor" [] op = OP_DIV -> "div" [] op = OP_MOD -> "mod"
      [] op = OP_RIGHT -> "bin2num" [] op = OP_LEFT -> "num2bin" [] OTHER -> "never"

IsDisabled(op, flags) ==
    /\ op \in {OP_CAT, OP_SUBSTR, OP_AND, OP_OR, OP_XOR, OP_DIV, OP_MOD, OP_RIGHT, OP_LEFT,
               OP_INVERT, OP_2MUL, OP_2DIV, OP_MUL, OP_LSHIFT, OP_RSHIFT}
    /\ EnabledBy(op) \notin flags

-----------------------------------------------------------------------------
\* Results.

Ok(v) == [err |-> "none", val |-> v]
Err(e) == [err |-> e]
IsOk(r) == r.err = "none"

\* The operator ? : goes on with a value, or ends with the error.
Then(r, Next(_)) == IF IsOk(r) THEN Next(r.val) ELSE r

\* Step applied for k = 1 to n: a loop of n rounds.
Iterate(n, Step(_, _), base) ==
    LET after[k \in 0..n] == IF k = 0 THEN base ELSE Step(after[k - 1], k) IN after[n]

-----------------------------------------------------------------------------
\* Numbers: little endian, the highest bit of the last byte is the sign.

Abs(n) == IF n < 0 THEN -n ELSE n

FromSlice(data, requireMinimal, maxSize) ==
    LET Digit(i, len) == IF i = len THEN data[i] % 128 ELSE data[i]
        Magnitude(len) == Iterate(len, LAMBDA sum, i : sum + Digit(i, len) * 256^(i - 1), 0)
        Number(len, last) ==
            IF requireMinimal /\ last % 128 = 0 /\ (len = 1 \/ data[len - 1] < 128)
            THEN Err("NumberNotMinimallyEncoded")
            ELSE Ok((IF last >= 128 THEN -1 ELSE 1) * Magnitude(len))
    IN  IF Len(data) > maxSize THEN Err("NumberOverflow")
        ELSE IF data = <<>> THEN Ok(0)
        ELSE Number(Len(data), Last(data))

\* Mutant: no byte is added for the sign.
ToBytesUnsigned(n) ==
    LET size == Cardinality({i \in 0..3 : Abs(n) >= 256^i})
        bytes == [i \in 1..size |-> (Abs(n) \div 256^(i - 1)) % 256]
    IN  IF n < 0 /\ bytes[size] < 128 THEN [bytes EXCEPT ![size] = @ + 128] ELSE bytes

\* Numbers below 2^31.
ToBytes(n) ==
    LET size == Cardinality({i \in 0..3 : Abs(n) >= 256^i})
        bytes == [i \in 1..size |-> (Abs(n) \div 256^(i - 1)) % 256]
        Sign(unsigned, sign) ==
            IF Last(unsigned) >= 128 THEN Append(unsigned, sign)
            ELSE [unsigned EXCEPT ![Len(unsigned)] = @ + sign]
    IN  IF n = 0 THEN <<>> ELSE Sign(bytes, IF n < 0 THEN 128 ELSE 0)

\* The last byte of data is 0 or 128; the zeros before it go, and it joins what is then the last.
Trimmed(data) ==
    LET last == data[Len(data)]
        keep == {i \in 1..(Len(data) - 1) : data[i] # 0}
        rest == SubSeq(data, 1, Max(keep))
    IN  IF keep = {} THEN <<>>
        ELSE IF rest[Len(rest)] >= 128 THEN Append(rest, last)
        ELSE [rest EXCEPT ![Len(rest)] = @ + last]

MinimallyEncode(data, maxSize) ==
    LET len == Len(data)
        minimal == len = 0 \/ data[len] \notin {0, 128} \/ (len > 1 /\ data[len - 1] >= 128)
    IN  FromSlice(IF minimal THEN data ELSE Trimmed(data), TRUE, maxSize)

CastToBool(data) ==
    /\ data # <<>>
    /\ \/ \E i \in 1..(Len(data) - 1) : data[i] # 0
       \/ data[Len(data)] \notin {0, 128}

-----------------------------------------------------------------------------
\* Instructions.

Take(script, offset, len) ==
    IF offset + len - 1 > Len(script) THEN Err("BadOpcode") ELSE Ok(SubSeq(script, offset, offset + len - 1))

LittleEndian(bytes) == Iterate(Len(bytes), LAMBDA sum, i : sum + bytes[i] * 256^(i - 1), 0)

NoData == <<>>
Instruction(op, step, hasData, data) ==
    [err |-> "none", op |-> op, step |-> step, hasData |-> hasData, data |-> data]

GetInstruction(script, pos) ==
    LET op == script[pos]
        lenSize == IF op = OP_PUSHDATA1 THEN 1 ELSE IF op = OP_PUSHDATA2 THEN 2 ELSE 4
        Pushed(data, step) == Then(data, LAMBDA d : Instruction(op, step, TRUE, d))
        Counted(size, n) == Pushed(Take(script, pos + 1 + size, n), size + n + 1)
        Sized(size) ==
            Then(Take(script, pos + 1, size), LAMBDA lenBytes : Counted(size, LittleEndian(lenBytes)))
    IN  IF ~IsOpcode(op) THEN Err("BadOpcode")
        ELSE IF op \in OP_PUSHDATA1..OP_PUSHDATA4 THEN Sized(lenSize)
        ELSE IF op <= OP_PUSHBYTES_75 THEN Pushed(Take(script, pos + 1, op), op + 1)
        ELSE Instruction(op, 1, FALSE, NoData)

\* Visit is applied to the instructions of a script from the first on, and gives the next
\* position with the value it carries.
Walk(script, from, Visit(_, _, _), base) ==
    Iterate(Len(script),
            LAMBDA at, i : IF at.pc = i THEN Visit(at.val, i, GetInstruction(script, i)) ELSE at,
            [pc |-> from, val |-> base]).val

GoTo(pc, val) == [pc |-> pc, val |-> val]
Stop(val) == GoTo(0, val)

IsPushOnlyFrom(script, from) ==
    Walk(script, from,
         LAMBDA ok, pc, ins : IF IsOk(ins) /\ ins.op <= OP_16 THEN GoTo(pc + ins.step, TRUE) ELSE Stop(FALSE),
         TRUE)

IsPushOnly(script) == IsPushOnlyFrom(script, 1)

\* What cannot be parsed is kept byte by byte.
WithoutSeparators(script) ==
    Walk(script, 1,
         LAMBDA out, pc, ins :
            IF ~IsOk(ins) THEN GoTo(pc + 1, Append(out, script[pc]))
            ELSE GoTo(pc + ins.step,
                      IF ins.op = OP_CODESEPARATOR THEN out
                      ELSE out \o SubSeq(script, pc, pc + ins.step - 1)),
         <<>>)

Subscript(script, from) == SubSeq(script, from, Len(script))

\* Occurrences of data are left out, wherever they start; the last position data could start at
\* is not looked at.
FindAndDelete(script, data) ==
    LET len == Len(data)
        Visit(at, i) ==
            IF i # at.current THEN at
            ELSE IF i > Len(script) - len THEN at
            ELSE IF SubSeq(script, i, i + len - 1) = data THEN [at EXCEPT !.current = i + len]
            ELSE [current |-> i + 1, out |-> Append(at.out, script[i])]
        done == Iterate(Len(script), Visit, [current |-> 1, out |-> <<>>])
    IN  IF len > Len(script) \/ len = 0 THEN script
        ELSE done.out \o SubSeq(script, done.current, Len(script))

-----------------------------------------------------------------------------
\* Signature operations.

\* Mutant: OP_CHECKSIGVERIFY is not counted.
SigopsOfSome(op, last, checkdatasig, serialized) ==
    CASE op = OP_CHECKSIG -> 1
      [] op \in {OP_CHECKDATASIG, OP_CHECKDATASIGVERIFY} /\ checkdatasig -> 1
      [] op \in {OP_CHECKMULTISIG, OP_CHECKMULTISIGVERIFY} ->
            IF serialized /\ IsWithinOpN(last) THEN DecodeOpN(last) ELSE MaxPubkeys
      [] OTHER -> 0

SigopsOf(op, last, checkdatasig, serialized) ==
    CASE op \in {OP_CHECKSIG, OP_CHECKSIGVERIFY} -> 1
      [] op \in {OP_CHECKDATASIG, OP_CHECKDATASIGVERIFY} /\ checkdatasig -> 1
      [] op \in {OP_CHECKMULTISIG, OP_CHECKMULTISIGVERIFY} ->
            IF serialized /\ IsWithinOpN(last) THEN DecodeOpN(last) ELSE MaxPubkeys
      [] OTHER -> 0

\* An invalid push ends the count.
SigopsCount(script, checkdatasig, serialized) ==
    Walk(script, 1,
         LAMBDA acc, pc, ins :
            IF ~IsOk(ins) THEN Stop(acc)
            ELSE GoTo(pc + ins.step,
                      [last |-> ins.op, total |-> acc.total + SigopsOf(ins.op, acc.last, checkdatasig, serialized)]),
         [last |-> OP_0, total |-> 0]).total

-----------------------------------------------------------------------------
\* Patterns.

At(script, i, byte) == i \in DOMAIN script /\ script[i] = byte

IsPayToPublicKeyHash(script) ==
    /\ Len(script) = KeyHashSize + 5
    /\ At(script, 1, OP_DUP) /\ At(script, 2, OP_HASH160) /\ At(script, 3, KeyHashSize)
    /\ At(script, KeyHashSize + 4, OP_EQUALVERIFY) /\ At(script, KeyHashSize + 5, OP_CHECKSIG)

IsPayToPublicKey(script) ==
    \E size \in PubKeySizes :
        Len(script) = size + 2 /\ At(script, 1, size) /\ At(script, size + 2, OP_CHECKSIG)

IsPayToScriptHash(script) ==
    /\ Len(script) = KeyHashSize + 3
    /\ At(script, 1, OP_HASH160) /\ At(script, 2, KeyHashSize) /\ At(script, KeyHashSize + 3, OP_EQUAL)

IsPayToWitnessKeyHash(script) ==
    Len(script) = KeyHashSize + 2 /\ At(script, 1, OP_0) /\ At(script, 2, KeyHashSize)

IsPayToWitnessScriptHash(script) ==
    Len(script) = ScriptHashSize + 2 /\ At(script, 1, OP_0) /\ At(script, 2, ScriptHashSize)

\* The version and the program, or an error when the script is no witness program.
ParseWitnessProgram(script) ==
    LET op == script[1]
    IN  IF Len(script) \notin 4..42 \/ Len(script) # script[2] + 2 THEN Err("None")
        ELSE IF op = OP_0 THEN Ok([version |-> 0, program |-> Subscript(script, 3)])
        ELSE IF IsWithinOpN(op) THEN Ok([version |-> DecodeOpN(op), program |-> Subscript(script, 3)])
        ELSE Err("None")

SmallNumber(op) == IF op = OP_0 THEN Ok(0) ELSE IF IsWithinOpN(op) THEN Ok(DecodeOpN(op)) ELSE Err("None")

\* The keys between the two numbers, read until the position of the second or beyond.
MultisigKeys(script) ==
    Walk(script, 2,
         LAMBDA keys, pc, ins :
            IF pc >= Len(script) - 1 THEN Stop(keys)
            ELSE IF IsOk(ins) /\ ins.op \in PubKeySizes THEN GoTo(pc + ins.step, keys + 1)
            ELSE Stop(-1),
         0)

IsMultisigScript(script) ==
    LET len == Len(script)
    IN  /\ len >= 3
        /\ IsOk(SmallNumber(script[1])) /\ IsOk(SmallNumber(script[len - 1]))
        /\ SmallNumber(script[1]).val <= SmallNumber(script[len - 1]).val
        /\ script[len] = OP_CHECKMULTISIG
        /\ MultisigKeys(script) = SmallNumber(script[len - 1]).val

IsNullDataScript(script) == At(script, 1, OP_RETURN) /\ IsPushOnlyFrom(script, 2)

ScriptType(script) ==
    IF IsPayToPublicKey(script) THEN "PubKey"
    ELSE IF IsPayToPublicKeyHash(script) THEN "PubKeyHash"
    ELSE IF IsPayToScriptHash(script) THEN "ScriptHash"
    ELSE IF IsMultisigScript(script) THEN "Multisig"
    ELSE IF IsNullDataScript(script) THEN "NullData"
    ELSE IF IsPayToWitnessKeyHash(script) THEN "WitnessKey"
    ELSE IF IsPayToWitnessScriptHash(script) THEN "WitnessScript"
    ELSE "NonStandard"

Destination(kind, hash) == [kind |-> kind, hash |-> hash]
KeyDestination(key) == Destination("P2PKH", HashOf(OP_HASH160, key))

\* extract_destinations; "panic" is an expect that fails.
ExtractDestinations(script) ==
    LET type == ScriptType(script)
        Next(found, pc, ins) ==
            IF pc >= Len(script) - 1 THEN Stop(found)
            ELSE IF ~IsOk(ins) \/ ~ins.hasData THEN Stop(Err("panic"))
            ELSE IF Len(ins.data) \notin PubKeySizes THEN Stop(Err("InvalidPublic"))
            ELSE GoTo(pc + ins.step, Ok(Append(found.val, KeyDestination(ins.data))))
    IN  CASE type = "PubKey" -> Ok(<<KeyDestination(SubSeq(script, 2, Len(script) - 1))>>)
          [] type = "PubKeyHash" -> Ok(<<Destination("P2PKH", SubSeq(script, 4, KeyHashSize + 3))>>)
          [] type = "ScriptHash" -> Ok(<<Destination("P2SH", SubSeq(script, 3, KeyHashSize + 2))>>)
          [] type = "Multisig" -> Walk(script, 2, Next, Ok(<<>>))
          [] OTHER -> Ok(<<>>)

NumSignaturesRequired(script) == IF IsMultisigScript(script) THEN SmallNumber(script[1]).val ELSE 1

\* pay_to_script_hash_sigops: the last push of the input is the script that is counted.
PayToScriptHashSigops(script, checkdatasig, prevOut) ==
    LET last == Walk(script, 1, LAMBDA l, pc, ins : GoTo(pc + ins.step, ins), Err("None"))
    IN  IF ~IsPayToScriptHash(prevOut) \/ script = <<>> \/ ~IsPushOnly(script) THEN Ok(0)
        ELSE IF ~last.hasData THEN Err("panic")
        ELSE Ok(SigopsCount(last.data, checkdatasig, TRUE))

-----------------------------------------------------------------------------
\* Builder.

PushData(data) ==
    LET len == Len(data)
    IN  (IF len < OP_PUSHDATA1 THEN <<len>>
         ELSE IF len < 256 THEN <<OP_PUSHDATA1, len>>
         ELSE <<OP_PUSHDATA2, len % 256, len \div 256>>) \o data

BuildP2PKH(hash) == <<OP_DUP, OP_HASH160>> \o PushData(hash) \o <<OP_EQUALVERIFY, OP_CHECKSIG>>
BuildP2SH(hash) == <<OP_HASH160>> \o PushData(hash) \o <<OP_EQUAL>>
=============================================================================
