---------------------------- MODULE Interpreter ----------------------------
(***************************************************************************)
(* eval_script and verify_script of the script crate.                      *)
(*                                                                         *)
(* A machine is a record of what eval_script keeps in local variables; one *)
(* instruction takes a machine to the next.  Flags are a set of names.     *)
(* Cryptography is opaque: the hash functions and the signatures that are  *)
(* right are constants.  `checks` counts the signatures that are checked,  *)
(* for the properties only.                                                *)
(***************************************************************************)
EXTENDS Sighash

CONSTANTS
    NumSize,            \* the bytes an operand may have, 4 in the code
    LockTimeSize,       \* 5
    MaxScriptSize, MaxOps, MaxStack,
    Signed(_, _, _),    \* whether a signature is right for a key and a hash
    HighS               \* the signatures whose S is above half of the order

\* What a script is evaluated with: the flags, the signature version, the script itself and the
\* input of the transaction its signatures and lock times are about.
Env(flags, version, script, spend) ==
    [flags |-> flags, version |-> version, script |-> script,
     tx |-> spend.tx, index |-> spend.index, amount |-> spend.amount]

NewMachine(stack) ==
    [stack |-> stack, alt |-> <<>>, exec |-> <<>>, count |-> 0, begin |-> 1, checks |-> 0, err |-> "none"]

Fail(m, e) == [m EXCEPT !.err = e]
Set(m, stack) == [m EXCEPT !.stack = stack]
Push(m, v) == [m EXCEPT !.stack = Append(@, v)]
Pop(s, n) == SubSeq(s, 1, Len(s) - n)
Nth(s, i) == s[Len(s) - i]      \* Stack::top

Executing(m) == \A i \in DOMAIN m.exec : m.exec[i]

True == <<1>>
False == <<>>
Bool(b) == IF b THEN True ELSE False

\* The result of an operation that may lack operands.
With(m, n, result) == IF Len(m.stack) < n THEN Fail(m, "InvalidStackOperation") ELSE result

-----------------------------------------------------------------------------
\* Stack.

Dup(s, i) == Iterate(i, LAMBDA t, k : Append(t, t[Len(t) - i + 1]), s)
Over(s, i) == Iterate(i, LAMBDA t, k : Append(t, t[Len(t) - 2 * i + 1]), s)
Rot(s, i) == LET p == Len(s) - 3 * i + 1 IN Iterate(i, LAMBDA t, k : Append(RemoveAt(t, p), t[p]), s)
Swap(s, i) ==
    LET Exchange(t, a, b) == [t EXCEPT ![a] = t[b], ![b] = t[a]]
    IN  Iterate(i, LAMBDA t, k : Exchange(t, Len(s) - 2 * i + k, Len(s) - i + k), s)
Nip(s) == LET n == Len(s) IN SubSeq([s EXCEPT ![n - 1] = s[n]], 1, n - 1)   \* swap_remove
Tuck(s) == InsertAt(s, Len(s) - 1, s[Len(s)])

StackOp(m, op) ==
    CASE op = OP_2DROP -> With(m, 2, Set(m, Pop(m.stack, 2)))
      [] op = OP_DROP -> With(m, 1, Set(m, Pop(m.stack, 1)))
      [] op = OP_DUP -> With(m, 1, Set(m, Dup(m.stack, 1)))
      [] op = OP_2DUP -> With(m, 2, Set(m, Dup(m.stack, 2)))
      [] op = OP_3DUP -> With(m, 3, Set(m, Dup(m.stack, 3)))
      [] op = OP_OVER -> With(m, 2, Set(m, Over(m.stack, 1)))
      [] op = OP_2OVER -> With(m, 4, Set(m, Over(m.stack, 2)))
      [] op = OP_ROT -> With(m, 3, Set(m, Rot(m.stack, 1)))
      [] op = OP_2ROT -> With(m, 6, Set(m, Rot(m.stack, 2)))
      [] op = OP_SWAP -> With(m, 2, Set(m, Swap(m.stack, 1)))
      [] op = OP_2SWAP -> With(m, 4, Set(m, Swap(m.stack, 2)))
      [] op = OP_NIP -> With(m, 2, Set(m, Nip(m.stack)))
      [] op = OP_TUCK -> With(m, 2, Set(m, Tuck(m.stack)))
      [] op = OP_IFDUP -> With(m, 1, IF CastToBool(Nth(m.stack, 0)) THEN Set(m, Dup(m.stack, 1)) ELSE m)
      [] op = OP_DEPTH -> Push(m, ToBytes(Len(m.stack)))
      [] op = OP_SIZE -> With(m, 1, Push(m, ToBytes(Len(Nth(m.stack, 0)))))
      [] op = OP_TOALTSTACK -> With(m, 1, [Set(m, Pop(m.stack, 1)) EXCEPT !.alt = Append(@, Nth(m.stack, 0))])
      [] op = OP_FROMALTSTACK ->
            IF m.alt = <<>> THEN Fail(m, "InvalidAltstackOperation")
            ELSE [Push(m, Nth(m.alt, 0)) EXCEPT !.alt = Pop(@, 1)]

-----------------------------------------------------------------------------
\* Numbers from the top of the stack: the first that is missing or malformed is the error.

NumAt(m, flags, i, size) ==
    IF Len(m.stack) <= i THEN Err("InvalidStackOperation")
    ELSE FromSlice(Nth(m.stack, i), "minimaldata" \in flags, size)

\* The operator ? in an operation.
Try(m, r, Result(_)) == IF IsOk(r) THEN Result(r.val) ELSE Fail(m, r.err)

WithNumbers(m, flags, n, Result(_)) ==
    LET Checked(v) == IF \A i \in 1..n : IsOk(v[i]) THEN Ok([i \in 1..n |-> v[i].val])
                      ELSE v[Min({i \in 1..n : ~IsOk(v[i])})]
    IN  Try(m, Checked([i \in 1..n |-> NumAt(m, flags, i - 1, NumSize)]), Result)

PickOrRoll(m, flags, op) ==
    WithNumbers(m, flags, 1, LAMBDA v :
        LET s == Pop(m.stack, 1)
        IN  IF v[1] < 0 \/ v[1] >= Len(s) THEN Fail(m, "InvalidStackOperation")
            ELSE Set(m, Append(IF op = OP_PICK THEN s ELSE RemoveAt(s, Len(s) - v[1]), Nth(s, v[1]))))

ToNum(b) == IF b THEN 1 ELSE 0
Quotient(a, b) == IF (a < 0) = (b < 0) THEN Abs(a) \div Abs(b) ELSE -(Abs(a) \div Abs(b))

\* v1 is the top of the stack.
Arithmetic1(op, v1) ==
    CASE op = OP_1ADD -> v1 + 1 [] op = OP_1SUB -> v1 - 1 [] op = OP_NEGATE -> -v1
      [] op = OP_ABS -> Abs(v1) [] op = OP_NOT -> ToNum(v1 = 0) [] op = OP_0NOTEQUAL -> ToNum(v1 # 0)

Arithmetic2(op, v1, v2) ==
    CASE op = OP_ADD -> v1 + v2 [] op = OP_SUB -> v2 - v1
      [] op = OP_DIV -> Quotient(v1, v2) [] op = OP_MOD -> v1 - v2 * Quotient(v1, v2)
      [] op = OP_BOOLAND -> ToNum(v1 # 0 /\ v2 # 0) [] op = OP_BOOLOR -> ToNum(v1 # 0 \/ v2 # 0)
      [] op = OP_NUMEQUAL -> ToNum(v1 = v2) [] op = OP_NUMNOTEQUAL -> ToNum(v1 # v2)
      [] op = OP_LESSTHAN -> ToNum(v1 > v2) [] op = OP_GREATERTHAN -> ToNum(v1 < v2)
      [] op = OP_LESSTHANOREQUAL -> ToNum(v1 >= v2) [] op = OP_GREATERTHANOREQUAL -> ToNum(v1 <= v2)
      [] op = OP_MIN -> IF v1 <= v2 THEN v1 ELSE v2 [] op = OP_MAX -> IF v1 >= v2 THEN v1 ELSE v2

Unary == {OP_1ADD, OP_1SUB, OP_NEGATE, OP_ABS, OP_NOT, OP_0NOTEQUAL}

ArithmeticOp(m, flags, op) ==
    LET n == IF op \in Unary THEN 1 ELSE IF op = OP_WITHIN THEN 3 ELSE 2
        Value(v) == IF op \in Unary THEN Arithmetic1(op, v[1])
                    ELSE IF op = OP_WITHIN THEN ToNum(v[2] <= v[3] /\ v[3] < v[1])
                    ELSE Arithmetic2(op, v[1], v[2])
        Result(v) ==
            IF op = OP_NUMEQUALVERIFY
            THEN IF v[1] # v[2] THEN Fail(m, "NumEqualVerify") ELSE Set(m, Pop(m.stack, n))
            ELSE IF op \in {OP_DIV, OP_MOD} /\ v[2] = 0 THEN Fail(m, "DivisionByZero")
            ELSE Push(Set(m, Pop(m.stack, n)), ToBytes(Value(v)))
    IN  WithNumbers(m, flags, n, Result)

-----------------------------------------------------------------------------
\* Bytes.

BitOp(op, a, b) ==
    LET Bit(n, k) == (n \div 2^k) % 2
        Combine(x, y) == CASE op = OP_AND -> x * y [] op = OP_OR -> x + y - x * y [] op = OP_XOR -> (x + y) % 2
    IN  Iterate(8, LAMBDA sum, i : sum + 2^(i - 1) * Combine(Bit(a, i - 1), Bit(b, i - 1)), 0)

\* NUM2BIN: zeros go between the bytes of the number and its sign.
Extend(num, size) ==
    LET last == num[Len(num)]
        sign == IF num # <<>> /\ last >= 128 THEN 128 ELSE 0
        unsigned == IF num = <<>> THEN num ELSE [num EXCEPT ![Len(num)] = @ % 128]
    IN  IF Len(num) = size THEN num
        ELSE unsigned \o [i \in 1..(size - 1 - Len(num)) |-> 0] \o <<sign>>

NumToBin(m, flags) ==
    LET Sized(size, num) == IF Len(num) > size THEN Fail(m, "ImpossibleEncoding")
                            ELSE Push(Set(m, Pop(m.stack, 2)), Extend(num, size))
    IN  Try(m, NumAt(m, flags, 0, NumSize), LAMBDA size :
            IF size < 0 \/ size > MaxElementSize THEN Fail(m, "PushSize")
            ELSE With(m, 2, Try(m, MinimallyEncode(Nth(m.stack, 1), NumSize),
                                LAMBDA num : Sized(size, ToBytes(num)))))

Split(m, flags) ==
    LET Cut(value, n) ==
            IF n > Len(value) THEN Fail(m, "InvalidSplitRange")
            ELSE Set(m, Pop(m.stack, 2) \o <<SubSeq(value, 1, n), SubSeq(value, n + 1, Len(value))>>)
    IN  Try(m, NumAt(m, flags, 0, NumSize), LAMBDA n :
            IF n < 0 THEN Fail(m, "InvalidStackOperation") ELSE With(m, 2, Cut(Nth(m.stack, 1), n)))

SpliceOp(m, flags, op) ==
    LET a == Nth(m.stack, 0)    \* evaluated only when there are enough operands
        b == Nth(m.stack, 1)
    IN  CASE op = OP_CAT ->
                With(m, 2, IF Len(a) + Len(b) > MaxElementSize THEN Fail(m, "PushSize")
                           ELSE Push(Set(m, Pop(m.stack, 2)), b \o a))
          [] op \in {OP_AND, OP_OR, OP_XOR} ->
                With(m, 2, IF Len(a) # Len(b) THEN Fail(m, "InvalidOperandSize")
                           ELSE Push(Set(m, Pop(m.stack, 2)), [i \in DOMAIN a |-> BitOp(op, b[i], a[i])]))
          [] op = OP_RIGHT ->
                With(m, 1, Try(m, MinimallyEncode(a, NumSize),
                               LAMBDA bin : Push(Set(m, Pop(m.stack, 1)), ToBytes(bin))))
          [] op = OP_LEFT -> NumToBin(m, flags)
          [] op = OP_SUBSTR -> Split(m, flags)

-----------------------------------------------------------------------------
\* Control flow.

FlowOp(m, op) ==
    LET executing == Executing(m)
    IN  CASE op \in {OP_IF, OP_NOTIF} ->
                IF ~executing THEN [m EXCEPT !.exec = Append(@, FALSE)]
                ELSE IF m.stack = <<>> THEN Fail(m, "UnbalancedConditional")
                ELSE [Set(m, Pop(m.stack, 1)) EXCEPT
                        !.exec = Append(@, CastToBool(Nth(m.stack, 0)) = (op = OP_IF))]
          [] op = OP_ELSE ->
                IF m.exec = <<>> THEN Fail(m, "UnbalancedConditional")
                ELSE [m EXCEPT !.exec[Len(m.exec)] = ~@]
          [] op = OP_ENDIF ->
                IF m.exec = <<>> THEN Fail(m, "UnbalancedConditional") ELSE [m EXCEPT !.exec = Pop(@, 1)]
          [] op \in {OP_VERIF, OP_VERNOTIF} -> Fail(m, "DisabledOpcode")

VerifyOp(m, op) ==
    CASE op = OP_VERIFY ->
            With(m, 1, IF CastToBool(Nth(m.stack, 0)) THEN Set(m, Pop(m.stack, 1)) ELSE Fail(m, "Verify"))
      [] op = OP_EQUAL ->
            With(m, 2, Push(Set(m, Pop(m.stack, 2)), Bool(Nth(m.stack, 0) = Nth(m.stack, 1))))
      [] op = OP_EQUALVERIFY ->
            With(m, 2, IF Nth(m.stack, 0) = Nth(m.stack, 1) THEN Set(m, Pop(m.stack, 2)) ELSE Fail(m, "EqualVerify"))
      [] op = OP_RETURN -> Fail(m, "ReturnOpcode")
      [] op \in {OP_RESERVED, OP_VER, OP_RESERVED1, OP_RESERVED2} -> Fail(m, "DisabledOpcode")

\* The operand stays on the stack.
LockOp(m, env, op) ==
    LET flag == IF op = OP_CHECKLOCKTIMEVERIFY THEN "locktime" ELSE "checksequence"
        Satisfied(v) == IF op = OP_CHECKLOCKTIMEVERIFY THEN CheckLockTime(env.tx, env.index, v)
                        ELSE IsSet(v, DisableFlag) \/ CheckSequence(env.tx, env.index, v)
    IN  IF flag \in env.flags
        THEN Try(m, NumAt(m, env.flags, 0, LockTimeSize), LAMBDA n :
                IF n < 0 THEN Fail(m, "NegativeLocktime")
                ELSE IF ~Satisfied(n) THEN Fail(m, "UnsatisfiedLocktime")
                ELSE m)
        ELSE IF "discourage_upgradable_nops" \in env.flags THEN Fail(m, "DiscourageUpgradableNops")
        ELSE m

-----------------------------------------------------------------------------
\* Signatures.

\* 0x30 [total] 0x02 [len R] R 0x02 [len S] S [hash type]
IsValidSignatureEncoding(sig) ==
    LET lenR == sig[4]
        lenS == sig[lenR + 6]
        Integer(at, len) ==     \* len bytes at this position, after their tag and length
            /\ sig[at - 2] = 2 /\ len # 0 /\ sig[at] < 128
            /\ ~(len > 1 /\ sig[at] = 0 /\ sig[at + 1] < 128)
    IN  /\ Len(sig) \in 9..73
        /\ sig[1] = 48 /\ sig[2] = Len(sig) - 3
        /\ lenR + 5 < Len(sig) /\ lenR + lenS + 7 = Len(sig)
        /\ Integer(5, lenR) /\ Integer(lenR + 7, lenS)

HashType(sig) == IF sig = <<>> THEN 0 ELSE sig[Len(sig)]

\* Mutant: strictenc replaces the check of the encoding.
CheckSignatureEncodingOnce(sig, flags, version) ==
    IF sig = <<>> THEN "none"
    ELSE IF "strictenc" \in flags
    THEN IF ~IsDefined(version, HashType(sig)) THEN "SignatureHashtype" ELSE "none"
    ELSE IF flags \cap {"dersig", "low_s"} # {} /\ ~IsValidSignatureEncoding(sig) THEN "SignatureDer"
    ELSE "none"

\* The first rule the flags ask for that the signature breaks.
CheckSignatureEncoding(sig, flags, version) ==
    IF sig = <<>> THEN "none"
    ELSE IF flags \cap {"dersig", "low_s", "strictenc"} # {} /\ ~IsValidSignatureEncoding(sig) THEN "SignatureDer"
    ELSE IF "low_s" \in flags /\ sig \in HighS THEN "SignatureHighS"
    ELSE IF "strictenc" \notin flags THEN "none"
    ELSE IF ~IsDefined(version, HashType(sig)) THEN "SignatureHashtype"
    ELSE IF version = "ForkId" /\ ~FromU32(version, HashType(sig)).forkId THEN "SignatureMustUseForkId"
    ELSE "none"

IsPublicKey(key) ==
    /\ Len(key) \in PubKeySizes
    /\ key[1] \in IF Len(key) = Min(PubKeySizes) THEN {2, 3} ELSE {4}

CheckPubkeyEncoding(key, flags) == IF "strictenc" \in flags /\ ~IsPublicKey(key) THEN "PubkeyType" ELSE "none"

CheckEncoding(sig, key, env) ==
    LET Both(e) == IF e # "none" THEN e ELSE CheckPubkeyEncoding(key, env.flags)
    IN  Both(CheckSignatureEncoding(sig, env.flags, env.version))

\* The script a signature is over: from the last separator that was executed on, without the
\* signatures themselves where their hash is the original one.
ScriptCode(m, env, sigs) ==
    LET InCode(sig) == env.version # "WitnessV0" /\ ~FromU32(env.version, HashType(sig)).forkId
        Delete(code, i) == IF InCode(sigs[i]) THEN FindAndDelete(code, PushData(sigs[i])) ELSE code
    IN  Iterate(Len(sigs), Delete, Subscript(env.script, m.begin))

CheckSignature(sig, key, code, env) ==
    /\ sig # <<>> /\ Len(key) \in PubKeySizes
    /\ Signed(Front(sig), key, SignatureHash(env.tx, env.index, env.amount, code, env.version, HashType(sig)))

VerifySignature(sig, key, message) ==
    sig # <<>> /\ Len(key) \in PubKeySizes /\ Signed(sig, key, [data |-> message])

\* The operands go once their encoding is right (e is "none"); the result is pushed, or verified.
Conclude(m, n, checks, e, success, pushes, failure) ==
    LET popped == [Set(m, Pop(m.stack, n)) EXCEPT !.checks = @ + checks]
    IN  IF e # "none" THEN Fail(m, e)
        ELSE IF pushes THEN Push(popped, Bool(success))
        ELSE IF success THEN popped ELSE Fail(popped, failure)

CheckSig(m, env, op) ==
    LET key == Nth(m.stack, 0)
        sig == Nth(m.stack, 1)
    IN  With(m, 2, Conclude(m, 2, 1, CheckEncoding(sig, key, env),
                            CheckSignature(sig, key, ScriptCode(m, env, <<sig>>), env),
                            op = OP_CHECKSIG, "CheckSigVerify"))

CheckDataSig(m, env, op) ==
    LET key == Nth(m.stack, 0)
        message == Nth(m.stack, 1)
        sig == Nth(m.stack, 2)
    IN  IF "checkdatasig" \notin env.flags THEN Fail(m, "DisabledOpcode")
        ELSE With(m, 3, Conclude(m, 3, 1, CheckEncoding(sig, key, env), VerifySignature(sig, key, message),
                                 op = OP_CHECKDATASIG, "CheckDataSigVerify"))

\* Signatures are matched with keys in order, each key tried once, until the signatures are all
\* matched or outnumber the keys that are left.
MatchSignatures(sigs, keys, Encoding(_, _), Right(_, _)) ==
    LET TryKey(at, i) ==
            IF at.err # "none" \/ at.s = Len(sigs) \/ ~at.success THEN at
            ELSE LET e == Encoding(sigs[at.s + 1], keys[at.k + 1])
                     s == IF Right(sigs[at.s + 1], keys[at.k + 1]) THEN at.s + 1 ELSE at.s
                 IN  IF e # "none" THEN [at EXCEPT !.err = e]
                     ELSE [at EXCEPT !.s = s, !.k = @ + 1,
                                     !.success = Len(sigs) - s <= Len(keys) - (at.k + 1)]
    IN  Iterate(Len(keys), TryKey, [s |-> 0, k |-> 0, success |-> TRUE, err |-> "none"])

MatchOver(code, env, sigs, keys) ==
    MatchSignatures(sigs, keys, LAMBDA sig, key : CheckEncoding(sig, key, env),
                    LAMBDA sig, key : CheckSignature(sig, key, code, env))

FindMatch(m, env, sigs, keys) == MatchOver(ScriptCode(m, env, sigs), env, sigs, keys)

CheckMultisig(m, env, op) ==
    LET Tops(i, n) == [k \in 1..n |-> Nth(m.stack, i + k - 1)]
        Dummy(n, found) ==      \* the element below the operands
            IF found.err # "none" THEN Fail(m, found.err)
            ELSE With(m, n + 1,
              IF Nth(m.stack, n) # <<>> /\ "nulldummy" \in env.flags THEN Fail(m, "SignatureNullDummy")
              ELSE Conclude(m, n + 1, found.k, "none", found.success, op = OP_CHECKMULTISIG, "CheckSigVerify"))
    IN  Try(m, NumAt(m, env.flags, 0, NumSize), LAMBDA keys :
          IF keys < 0 \/ keys > MaxPubkeys THEN Fail(m, "PubkeyCount")
          ELSE Try(m, NumAt(m, env.flags, keys + 1, NumSize), LAMBDA sigs :
                 IF sigs < 0 \/ sigs > keys THEN Fail(m, "SigCount")
                 ELSE With(m, keys + sigs + 2,
                           Dummy(keys + sigs + 2, FindMatch(m, env, Tops(keys + 2, sigs), Tops(1, keys))))))

-----------------------------------------------------------------------------
\* eval_script.

CheckMinimalPush(data, op) ==
    IF data = <<>> THEN op = OP_0
    ELSE IF Len(data) = 1 /\ data[1] \in 1..16 THEN op = OP_1 + (data[1] - 1)
    ELSE IF Len(data) = 1 /\ data[1] = 129 THEN op = OP_1NEGATE
    ELSE IF Len(data) <= 75 THEN op = Len(data)
    ELSE IF Len(data) <= 255 THEN op = OP_PUSHDATA1
    ELSE op = OP_PUSHDATA2

HashOps == {OP_RIPEMD160, OP_SHA1, OP_SHA256, OP_HASH160, OP_HASH256}
StackOps == OP_TOALTSTACK..OP_TUCK \cup {OP_SIZE}
SpliceOps == {OP_CAT, OP_SUBSTR, OP_LEFT, OP_RIGHT, OP_AND, OP_OR, OP_XOR}
FlowOps == {OP_IF, OP_NOTIF, OP_VERIF, OP_VERNOTIF, OP_ELSE, OP_ENDIF}
VerifyOps == {OP_VERIFY, OP_RETURN, OP_EQUAL, OP_EQUALVERIFY, OP_RESERVED, OP_VER, OP_RESERVED1, OP_RESERVED2}
UpgradableNops == OP_NOP1..OP_NOP10 \ {OP_CHECKLOCKTIMEVERIFY, OP_CHECKSEQUENCEVERIFY}

\* An instruction that is executed; `next` is the position after it.
Execute(m, ins, env, next) ==
    LET op == ins.op
        flags == env.flags
    IN  CASE ins.hasData -> Push(m, ins.data)
          [] op \in OP_1..OP_16 \cup {OP_1NEGATE} -> Push(m, ToBytes(DecodeOpN(op)))
          [] op = OP_NOP -> m
          [] op \in UpgradableNops ->
                IF "discourage_upgradable_nops" \in flags THEN Fail(m, "DiscourageUpgradableNops") ELSE m
          [] op \in {OP_CHECKLOCKTIMEVERIFY, OP_CHECKSEQUENCEVERIFY} -> LockOp(m, env, op)
          [] op \in FlowOps -> FlowOp(m, op)
          [] op \in VerifyOps -> VerifyOp(m, op)
          [] op \in {OP_PICK, OP_ROLL} -> PickOrRoll(m, flags, op)
          [] op \in StackOps \ {OP_PICK, OP_ROLL} -> StackOp(m, op)
          [] op \in SpliceOps -> SpliceOp(m, flags, op)
          [] op \in HashOps ->
                With(m, 1, Push(Set(m, Pop(m.stack, 1)), HashOf(op, Nth(m.stack, 0))))
          [] op = OP_CODESEPARATOR -> [m EXCEPT !.begin = next]
          [] op \in {OP_CHECKSIG, OP_CHECKSIGVERIFY} -> CheckSig(m, env, op)
          [] op \in {OP_CHECKMULTISIG, OP_CHECKMULTISIGVERIFY} -> CheckMultisig(m, env, op)
          [] op \in {OP_CHECKDATASIG, OP_CHECKDATASIGVERIFY} -> CheckDataSig(m, env, op)
          [] OTHER -> ArithmeticOp(m, flags, op)

IsConditional(op) == op \in OP_IF..OP_ENDIF

IsFull(s) == Len(s.stack) + Len(s.alt) > MaxStack

\* One round of the loop.  Limits and disabled opcodes count in branches that are not taken too.
Round(m, ins, env, next) ==
    LET executing == Executing(m)
        counted == [m EXCEPT !.count = IF IsCountable(ins.op) THEN @ + 1 ELSE @]
        Limited(done) == IF done.err = "none" /\ IsFull(done) THEN Fail(done, "StackSize") ELSE done
    IN  IF ins.hasData /\ Len(ins.data) > MaxElementSize THEN Fail(m, "PushSize")
        ELSE IF ins.hasData /\ executing /\ "minimaldata" \in env.flags /\ ~CheckMinimalPush(ins.data, ins.op)
        THEN Fail(m, "Minimaldata")
        ELSE IF counted.count > MaxOps THEN Fail(m, "OpCount")
        ELSE IF IsDisabled(ins.op, env.flags) THEN Fail(m, "DisabledOpcode")
        ELSE IF ~(executing \/ IsConditional(ins.op)) THEN counted
        ELSE Limited(Execute(counted, ins, env, next))

\* The machine after the last instruction.
Finish(m) ==
    IF m.err # "none" THEN m
    ELSE IF m.exec # <<>> THEN Fail(m, "UnbalancedConditional")
    ELSE m

Success(m) == m.stack # <<>> /\ CastToBool(Nth(m.stack, 0))

\* What does not parse is stepped over in a branch that is not taken.
Visit(env, m, pc, ins) ==
    IF m.err # "none" THEN Stop(m)
    ELSE IF IsOk(ins) THEN GoTo(pc + ins.step, Round(m, ins, env, pc + ins.step))
    ELSE IF ~Executing(m) THEN GoTo(pc + 1, m)
    ELSE Stop(Fail(m, ins.err))

EvalScript(stack, env) ==
    IF Len(env.script) > MaxScriptSize THEN Fail(NewMachine(stack), "ScriptSize")
    ELSE Finish(Walk(env.script, 1, LAMBDA m, pc, ins : Visit(env, m, pc, ins), NewMachine(stack)))

-----------------------------------------------------------------------------
\* verify_script.

\* Mutant: the script of the witness is taken as it is.
WitnessScriptAny(witness, program) ==
    LET n == Len(witness)
    IN  IF Len(program) = ScriptHashSize
        THEN IF n = 0 THEN Err("WitnessProgramWitnessEmpty")
             ELSE Ok([stack |-> SubSeq(witness, 1, n - 1), script |-> witness[n]])
        ELSE IF n # 2 THEN Err("WitnessProgramMismatch")
        ELSE Ok([stack |-> witness, script |-> BuildP2PKH(program)])

\* The witness script and the stack it starts with.
WitnessScript(witness, program) ==
    LET n == Len(witness)
    IN  IF Len(program) = ScriptHashSize
        THEN IF n = 0 THEN Err("WitnessProgramWitnessEmpty")
             ELSE IF HashOf(OP_SHA256, witness[n]) # program THEN Err("WitnessProgramMismatch")
             ELSE Ok([stack |-> SubSeq(witness, 1, n - 1), script |-> witness[n]])
        ELSE IF Len(program) = KeyHashSize
        THEN IF n # 2 THEN Err("WitnessProgramMismatch") ELSE Ok([stack |-> witness, script |-> BuildP2PKH(program)])
        ELSE Err("WitnessProgramWrongLength")

EvalWitness(start, flags, spend) ==
    LET Verdict(m) == IF m.err # "none" THEN m.err
                      ELSE IF ~Success(m) \/ Len(m.stack) # 1 THEN "EvalFalse"
                      ELSE "none"
    IN  IF ~IsOk(start) THEN start.err
        ELSE IF \E i \in DOMAIN start.val.stack : Len(start.val.stack[i]) > MaxElementSize THEN "PushSize"
        ELSE Verdict(EvalScript(start.val.stack, Env(flags, "WitnessV0", start.val.script, spend)))

VerifyWitnessProgram(witness, parsed, flags, spend) ==
    IF parsed.version # 0
    THEN IF "discourage_upgradable_witness_program" \in flags
         THEN "DiscourageUpgradableWitnessProgram" ELSE "none"
    ELSE EvalWitness(WitnessScript(witness, parsed.program), flags, spend)

\* x is what verify_script is given: the two scripts, the witness, the flags, the signature version
\* and the input that is spent.
Eval(x, stack, script) == EvalScript(stack, Env(x.flags, x.version, script, x.spend))

\* What is left to check of a script that may be a witness program: `expected` says whether the
\* input script is what it must be, `malleated` is the error when it is not.
CheckWitness(x, parsed, expected, malleated) ==
    IF "witness" \notin x.flags \/ ~IsOk(parsed) THEN [err |-> "none", had |-> FALSE]
    ELSE [err |-> IF expected THEN VerifyWitnessProgram(x.witness, parsed.val, x.flags, x.spend) ELSE malleated,
          had |-> TRUE]

\* The end of verify_script.
CheckEnd(x, stack, had) ==
    IF "cleanstack" \in x.flags /\ ~had /\ "p2sh" \notin x.flags THEN "panic"
    ELSE IF "cleanstack" \in x.flags /\ ~had /\ Len(stack) # 1 THEN "Cleanstack"
    ELSE IF "witness" \in x.flags /\ "p2sh" \notin x.flags THEN "panic"
    ELSE IF "witness" \in x.flags /\ ~had /\ x.witness # <<>> THEN "WitnessUnexpected"
    ELSE "none"

\* The script of a script hash has been evaluated.
AfterRedeem(x, redeem, inner, had) ==
    LET End(nested) == IF nested.err # "none" THEN nested.err ELSE CheckEnd(x, inner.stack, had \/ nested.had)
    IN  IF inner.err # "none" THEN inner.err
        ELSE IF ~Success(inner) THEN "EvalFalse"
        ELSE End(CheckWitness(x, ParseWitnessProgram(redeem), x.sig = PushData(redeem), "WitnessMalleatedP2SH"))

\* The output script is fulfilled, and so is its witness program if it is one.
AfterWitness(x, stack, pubStack, outer) ==
    IF outer.err # "none" THEN outer.err
    ELSE IF ~("p2sh" \in x.flags /\ IsPayToScriptHash(x.pubkey)) THEN CheckEnd(x, pubStack, outer.had)
    ELSE IF ~IsPushOnly(x.sig) THEN "SignaturePushOnly"
    ELSE IF stack = <<>> THEN "panic"
    ELSE AfterRedeem(x, Nth(stack, 0), Eval(x, Pop(stack, 1), Nth(stack, 0)), outer.had)

\* The output script has been evaluated on the stack of the input script.
AfterPubkey(x, stack, pub) ==
    IF pub.err # "none" THEN pub.err
    ELSE IF ~Success(pub) THEN "EvalFalse"
    ELSE AfterWitness(x, stack, pub.stack,
                      CheckWitness(x, ParseWitnessProgram(x.pubkey), x.sig = <<>>, "WitnessMalleated"))

AfterSig(x, sig) == IF sig.err # "none" THEN sig.err ELSE AfterPubkey(x, sig.stack, Eval(x, sig.stack, x.pubkey))

VerifyScript(x) ==
    IF "sigpushonly" \in x.flags /\ ~IsPushOnly(x.sig) THEN "SignaturePushOnly"
    ELSE AfterSig(x, Eval(x, <<>>, x.sig))
=============================================================================
