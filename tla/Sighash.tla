------------------------------ MODULE Sighash ------------------------------
(***************************************************************************)
(* What a signature of a transaction input commits to (sign.rs), and the   *)
(* lock times a script may ask for (verify.rs).                            *)
(*                                                                         *)
(* A hash is its preimage: a record of the fields that were serialized.    *)
(* A transaction is a record of a version, inputs (an output spent and a   *)
(* sequence number), outputs and a lock time.  Numbers are scaled: a u32   *)
(* is below Word, and the flags of a sequence number are powers of two.    *)
(***************************************************************************)
EXTENDS Script

CONSTANTS
    Word,               \* 2^32
    LockTimeThreshold,  \* LOCKTIME_THRESHOLD
    DisableFlag,        \* SEQUENCE_LOCKTIME_DISABLE_FLAG, the highest bit of a u32
    TypeFlag,           \* SEQUENCE_LOCKTIME_TYPE_FLAG
    LockTimeRange       \* SEQUENCE_LOCKTIME_MASK + 1, a power of two

SequenceFinal == Word - 1

\* Sighash::from_u32 of a hash type.
FromU32(version, u) ==
    [base |-> IF u % 32 = 2 THEN "None" ELSE IF u % 32 = 3 THEN "Single" ELSE "All",
     anyoneCanPay |-> (u \div 128) % 2 = 1,
     forkId |-> version = "ForkId" /\ (u \div 64) % 2 = 1]

IsDefined(version, u) == (IF version = "ForkId" THEN u % 64 ELSE u % 128) \in 1..3

NoOutput == "default output"
\* A hash: of data, or one of the constants 0 and 1.
Digest(data) == [of |-> data]
Zero == [constant |-> 0]
One == [constant |-> 1]

SignatureHashOriginal(tx, index, code, u, sighash) ==
    LET script == WithoutSeparators(code)
        Cleared(n) == n # index /\ sighash.base \in {"Single", "None"}
        Input(n) == [prevout |-> tx.inputs[n].prevout,
                     script |-> IF n = index THEN script ELSE <<>>,
                     sequence |-> IF Cleared(n) THEN 0 ELSE tx.inputs[n].sequence]
        outputs == CASE sighash.base = "All" -> tx.outputs
                     [] sighash.base = "None" -> <<>>
                     [] sighash.base = "Single" ->
                            [n \in 1..index |-> IF n = index THEN tx.outputs[n] ELSE NoOutput]
    IN  IF index > Len(tx.inputs) \/ (sighash.base = "Single" /\ index > Len(tx.outputs)) THEN One
        ELSE [version |-> tx.version, lockTime |-> tx.lockTime, type |-> u, outputs |-> outputs,
              inputs |-> IF sighash.anyoneCanPay THEN <<Input(index)>> ELSE [n \in DOMAIN tx.inputs |-> Input(n)]]

HashPrevouts(sighash, inputs) ==
    IF sighash.anyoneCanPay THEN Zero ELSE Digest([n \in DOMAIN inputs |-> inputs[n].prevout])

\* Mutant: the sequence numbers of other inputs are covered whatever the base.
HashSequenceAlways(sighash, inputs) ==
    IF ~sighash.anyoneCanPay THEN Digest([n \in DOMAIN inputs |-> inputs[n].sequence]) ELSE Zero

HashSequence(sighash, inputs) ==
    IF sighash.base = "All" /\ ~sighash.anyoneCanPay THEN Digest([n \in DOMAIN inputs |-> inputs[n].sequence])
    ELSE Zero

HashOutputs(sighash, index, outputs) ==
    IF sighash.base = "All" THEN Digest(outputs)
    ELSE IF sighash.base = "Single" /\ index <= Len(outputs) THEN Digest(<<outputs[index]>>)
    ELSE Zero

SignatureHashWitness0(tx, index, amount, code, u, sighash) ==
    [version |-> tx.version, lockTime |-> tx.lockTime, type |-> u, code |-> code, amount |-> amount,
     prevout |-> tx.inputs[index].prevout, sequence |-> tx.inputs[index].sequence,
     hashPrevouts |-> HashPrevouts(sighash, tx.inputs),
     hashSequence |-> HashSequence(sighash, tx.inputs),
     hashOutputs |-> HashOutputs(sighash, index, tx.outputs)]

SignatureHashForkId(tx, index, amount, code, u, sighash) ==
    IF index > Len(tx.inputs) \/ (sighash.base = "Single" /\ index > Len(tx.outputs)) THEN One
    ELSE SignatureHashWitness0(tx, index, amount, code, u, sighash)

SignatureHash(tx, index, amount, code, version, u) ==
    LET sighash == FromU32(version, u)
    IN  IF version = "WitnessV0" THEN SignatureHashWitness0(tx, index, amount, code, u, sighash)
        ELSE IF sighash.forkId THEN SignatureHashForkId(tx, index, amount, code, u, sighash)
        ELSE SignatureHashOriginal(tx, index, code, u, sighash)

-----------------------------------------------------------------------------
\* The operand is an i64; its kind is judged by its lowest 32 bits.
CheckLockTime(tx, index, lockTime) ==
    /\ (tx.lockTime < LockTimeThreshold) = (lockTime % Word < LockTimeThreshold)
    /\ lockTime <= tx.lockTime
    /\ tx.inputs[index].sequence # SequenceFinal

IsSet(n, flag) == (n \div flag) % 2 = 1

\* The bits of a sequence number with a meaning: the type and the value.
MaskedSequence(n) == (IF IsSet(n, TypeFlag) THEN TypeFlag ELSE 0) + (n % LockTimeRange)

\* is_final_in_block.
IsFinalInBlock(tx, height, time) ==
    \/ tx.lockTime = 0
    \/ tx.lockTime < IF tx.lockTime < LockTimeThreshold THEN height ELSE time
    \/ \A n \in DOMAIN tx.inputs : tx.inputs[n].sequence = SequenceFinal

CheckSequence(tx, index, sequence) ==
    LET to == tx.inputs[index].sequence
    IN  /\ tx.version % Word >= 2
        /\ ~IsSet(to, DisableFlag)
        /\ (MaskedSequence(to) < TypeFlag) = (MaskedSequence(sequence) < TypeFlag)
        /\ MaskedSequence(sequence) <= MaskedSequence(to)
=============================================================================
