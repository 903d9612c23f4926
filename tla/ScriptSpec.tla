---------------------------- MODULE ScriptSpec ----------------------------
(***************************************************************************)
(* The behaviour of the script crate: one evaluation, instruction by       *)
(* instruction, of a program of a given set; and what its functions return *)
(* for the inputs of given sets.  A job is one program or one input.       *)
(***************************************************************************)
EXTENDS Interpreter

CONSTANTS
    Spend,          \* the transaction input the scripts are evaluated for
    Programs,       \* families of scripts, flags and signature versions
    Spendings,      \* families of arguments of verify_script
    Numbers,        \* elements read as numbers
    Stacks,
    Multisigs,      \* signatures, keys, and the pairs of them that are right
    Spends,         \* a transaction input that is signed and one with another field changed
    Locks,          \* a transaction input, a lock time and a block
    Outputs         \* scripts of outputs

VARIABLES job, m, pc

vars == <<job, m, pc>>

Idle == NewMachine(<<>>)

Init ==
    \/ \E p \in Programs : \E s \in p.scripts, f \in p.flags, v \in p.versions :
        /\ job = [kind |-> "eval", env |-> Env(f, v, s, Spend)]
        /\ m = NewMachine(<<>>)
        /\ pc = 1
    \/ /\ m = Idle /\ pc = 0
       /\ \/ \E x \in Spendings : \E s \in x.sigs, p \in x.pubkeys, w \in x.witnesses, f \in x.flags :
                job = [kind |-> "verify", x |-> [sig |-> s, pubkey |-> p, witness |-> w, flags |-> f]]
          \/ \E x \in Numbers : job = [kind |-> "number", x |-> x]
          \/ \E x \in Stacks : job = [kind |-> "stack", x |-> x]
          \/ \E x \in Multisigs : job = [kind |-> "multisig", x |-> x]
          \/ \E x \in Spends : job = [kind |-> "sighash", x |-> x]
          \/ \E x \in Locks : job = [kind |-> "lock", x |-> x]
          \/ \E x \in Outputs : job = [kind |-> "output", x |-> x]

Evaluating == job.kind = "eval" /\ m.err = "none" /\ pc \in DOMAIN job.env.script

\* One round of eval_script's loop.
Step ==
    /\ Evaluating
    /\ LET next == Visit(job.env, m, pc, GetInstruction(job.env.script, pc))
       IN  m' = next.val /\ pc' = next.pc
    /\ UNCHANGED job

Next == Step

Spec == Init /\ [][Next]_vars

-----------------------------------------------------------------------------
\* Properties.

Element == Seq(Nat)

TypeOK ==
    /\ m.stack \in Seq(Element) /\ m.alt \in Seq(Element)
    /\ m.exec \in Seq(BOOLEAN)
    /\ m.count \in Nat /\ m.checks \in Nat
    /\ pc \in Nat

\* What an evaluation keeps is bounded whatever the program builds: no element is longer than
\* MAX_SCRIPT_ELEMENT_SIZE, also those OP_CAT and OP_NUM2BIN make, and the two stacks together hold
\* no more than 1000.
StackIsBounded ==
    job.kind = "eval" /\ m.err = "none" =>
        /\ \A s \in {m.stack, m.alt} : \A i \in DOMAIN s : Len(s[i]) <= MaxElementSize
        /\ Len(m.stack) + Len(m.alt) <= MaxStack
        /\ m.count <= MaxOps

\* The conditionals that are open depend on the script alone, not on the branches taken: OP_IF and
\* OP_NOTIF in a branch that is not taken open one too, so that every OP_ENDIF closes its own.
OpenConditionals(script, upto) ==
    Walk(SubSeq(script, 1, upto - 1), 1,
         LAMBDA n, at, ins :
            IF ~IsOk(ins) THEN GoTo(at + 1, n)
            ELSE GoTo(at + ins.step, n + (IF ins.op \in {OP_IF, OP_NOTIF} THEN 1
                                          ELSE IF ins.op = OP_ENDIF THEN -1 ELSE 0)),
         0)

BranchesFollowScript ==
    job.kind = "eval" /\ m.err = "none" /\ pc > 0 =>
        Len(m.exec) = OpenConditionals(job.env.script, pc)

\* No evaluation checks more signatures than sigops_count says of its script, the number by which
\* blocks are limited, if all of the script parses.
Parses(script) ==
    Walk(script, 1, LAMBDA ok, at, ins : IF IsOk(ins) THEN GoTo(at + ins.step, TRUE) ELSE Stop(FALSE), TRUE)

ChecksAreCounted ==
    job.kind = "eval" /\ Parses(job.env.script) =>
        m.checks <= SigopsCount(job.env.script, "checkdatasig" \in job.env.flags, TRUE)

\* The flags that VerificationFlags calls softfork safe, and the others that restrict.
Restricting == {"p2sh", "strictenc", "dersig", "low_s", "nulldummy", "sigpushonly", "minimaldata",
                "cleanstack", "locktime", "checksequence", "witness"}

\* verify_script asserts that these come with p2sh.
Coherent(flags) == flags \cap {"cleanstack", "witness"} # {} => "p2sh" \in flags

Verify(x, flags) ==
    VerifyScript([sig |-> x.sig, pubkey |-> x.pubkey, witness |-> x.witness, flags |-> flags,
                  version |-> "Base", spend |-> Spend])

\* Turning on a flag that is softfork safe never makes a spending valid that was not.
FlagsOnlyRestrict ==
    job.kind = "verify" /\ Coherent(job.x.flags) /\ Verify(job.x, job.x.flags) # "none" =>
        \A f \in Restricting \ job.x.flags :
            Coherent(job.x.flags \cup {f}) => Verify(job.x, job.x.flags \cup {f}) # "none"

\* No assertion of verify_script fails: in particular "stack cannot be empty here", when the script of
\* a script hash is taken from the stack.
VerifyNeverPanics == job.kind = "verify" /\ Coherent(job.x.flags) => Verify(job.x, job.x.flags) # "panic"

\* An output that commits to a script by its hash is spent only with that script: the last push of
\* the input for a script hash, the last element of the witness for a witness script hash.
SpendsWhatItCommitsTo ==
    job.kind = "verify" /\ Coherent(job.x.flags) /\ Verify(job.x, job.x.flags) = "none" =>
        LET pub == job.x.pubkey
            pushed == EvalScript(<<>>, Env({}, "Base", job.x.sig, Spend)).stack
        IN  /\ "p2sh" \in job.x.flags /\ IsPayToScriptHash(pub) =>
                /\ IsPushOnly(job.x.sig)
                /\ HashOf(OP_HASH160, Last(pushed)) = SubSeq(pub, 3, Len(pub) - 1)
            /\ "witness" \in job.x.flags /\ IsPayToWitnessScriptHash(pub) =>
                /\ job.x.sig = <<>> /\ job.x.witness # <<>>
                /\ HashOf(OP_SHA256, Last(job.x.witness)) = Subscript(pub, 3)

\* CHECKMULTISIG succeeds exactly when its signatures are right for some of the keys taken in the
\* same order: trying each key once and giving up early loses nothing.
MultisigIsMatching ==
    job.kind = "multisig" =>
        LET x == job.x
            found == MatchSignatures(x.sigs, x.keys, LAMBDA s, k : "none", LAMBDA s, k : <<s, k>> \in x.right)
            ns == DOMAIN x.sigs
            ks == DOMAIN x.keys
        IN  Len(x.sigs) <= Len(x.keys) =>
              (found.success /\ found.s = Len(x.sigs)) =
                \E f \in [ns -> ks] :
                    /\ \A i, j \in ns : i < j => f[i] < f[j]
                    /\ \A i \in ns : <<x.sigs[i], x.keys[f[i]]>> \in x.right

\* The stack operations, which work element by element, move whole groups as their names say.
StackOpsMoveGroups ==
    job.kind = "stack" =>
        LET s == job.x
            Group(i, k) == SubSeq(s, Len(s) - (k * i) + 1, Len(s) - (k * i) + i)   \* the k-th group of i from the top
            Below(n) == Pop(s, n)
        IN  \A i \in 1..2 :
                /\ Len(s) >= i => Dup(s, i) = s \o Group(i, 1)
                /\ Len(s) >= 2 * i => /\ Over(s, i) = s \o Group(i, 2)
                                      /\ Swap(s, i) = Below(2 * i) \o Group(i, 1) \o Group(i, 2)
                /\ Len(s) >= 3 * i => Rot(s, i) = Below(3 * i) \o Group(i, 2) \o Group(i, 1) \o Group(i, 3)
                /\ Len(s) >= 2 => /\ Nip(s) = Append(Below(2), Last(s))
                                  /\ Tuck(s) = Below(2) \o <<Last(s), s[Len(s) - 1], Last(s)>>

\* Reading and writing numbers agree: what is written is read back, also where only minimal encodings
\* are read; an encoding is accepted as minimal exactly when it is the one that is written; and
\* minimally_encode keeps the value of what it shortens.
NumbersRoundTrip ==
    job.kind = "number" =>
        LET read == FromSlice(job.x, FALSE, NumSize)
            minimal == FromSlice(job.x, TRUE, NumSize)
            shortened == MinimallyEncode(job.x, NumSize)
        IN  /\ IsOk(read) => /\ FromSlice(ToBytes(read.val), TRUE, NumSize) = read
                             /\ IsOk(minimal) = (ToBytes(read.val) = job.x)
                             /\ shortened = read
                             /\ CastToBool(job.x) = (read.val # 0)
            /\ IsOk(shortened) => Len(ToBytes(shortened.val)) <= Len(job.x)

\* The signature of input `index` with hash type `u` covers this field of the transaction.
Covers(x) ==
    LET sighash == FromU32(x.version, x.type)
        own == x.at = x.index
        empty == sighash.base = "Single" /\ x.index > Len(x.tx.outputs)
        segregated == x.version = "WitnessV0" \/ sighash.forkId
    IN  CASE empty /\ x.version # "WitnessV0" -> FALSE
          [] OTHER ->
            CASE x.field \in {"version", "lockTime"} -> TRUE
              [] x.field = "amount" -> segregated
              [] x.field = "prevout" -> own \/ ~sighash.anyoneCanPay
              [] x.field = "sequence" -> own \/ (~sighash.anyoneCanPay /\ sighash.base = "All")
              [] x.field = "output" -> sighash.base = "All" \/ (sighash.base = "Single" /\ own)

\* A change of one field of a transaction changes the hash that is signed exactly when the hash type
\* says the field is covered.  (SIGHASH_SINGLE without an output of its own covers nothing, except
\* with a witness, as in signature_hash_original and signature_hash_witness0.)
SignaturesCoverFields ==
    job.kind = "sighash" =>
        LET x == job.x
            Hash(tx, amount) == SignatureHash(tx, x.index, amount, x.code, x.version, x.type)
        IN  Covers(x) = (Hash(x.tx, 0) # Hash(x.changed, IF x.field = "amount" THEN 1 ELSE 0))

\* OP_CHECKLOCKTIMEVERIFY means what it says: a transaction whose input asked for a lock time is
\* final only in blocks above that height, or after that time; also for operands of more than 32
\* bits, which check_lock_time truncates to tell heights from times.
LockTimeIsEnforced ==
    job.kind = "lock" =>
        LET x == job.x
        IN  CheckLockTime(x.tx, x.index, x.n) /\ IsFinalInBlock(x.tx, x.height, x.time) =>
                x.n < IF x.n < LockTimeThreshold THEN x.height ELSE x.time

\* A relative lock that an input satisfies is also satisfied by the inputs that wait longer, and an
\* input whose sequence number has the disable flag satisfies none.
SequenceIsMonotonic ==
    job.kind = "lock" /\ CheckSequence(job.x.tx, job.x.index, job.x.n) =>
        LET to == job.x.tx.inputs[job.x.index].sequence
            Longer == {s \in to..(Word - 1) : ~IsSet(s, DisableFlag) /\ IsSet(s, TypeFlag) = IsSet(to, TypeFlag)
                                                /\ s % LockTimeRange >= to % LockTimeRange}
        IN  /\ ~IsSet(to, DisableFlag)
            /\ \A s \in Longer : CheckSequence([job.x.tx EXCEPT !.inputs[job.x.index].sequence = s],
                                               job.x.index, job.x.n)

\* The patterns of script_type exclude each other, so that the order it tries them in does not
\* matter; and extract_destinations finds what it "depends on", a destination for each key.
PatternsAreDisjoint ==
    job.kind = "output" =>
        LET s == job.x
            matches == {f \in 1..7 :
                CASE f = 1 -> IsPayToPublicKey(s) [] f = 2 -> IsPayToPublicKeyHash(s)
                  [] f = 3 -> IsPayToScriptHash(s) [] f = 4 -> IsMultisigScript(s)
                  [] f = 5 -> IsNullDataScript(s) [] f = 6 -> IsPayToWitnessKeyHash(s)
                  [] f = 7 -> IsPayToWitnessScriptHash(s)}
            to == ExtractDestinations(s)
        IN  /\ Cardinality(matches) <= 1
            /\ to.err # "panic"
            /\ IsMultisigScript(s) => NumSignaturesRequired(s) <= Len(to.val)

-----------------------------------------------------------------------------
\* An evaluation keeps to its script: whatever eval_script is given, the stacks and the count of
\* operations stay within their limits, the open conditionals are those of the script, and no more
\* signatures are checked than the script is counted for.
EvaluationFollowsScript == TypeOK /\ StackIsBounded /\ BranchesFollowScript /\ ChecksAreCounted

\* verify_script reaches a verdict without a failed assertion, and an output is spent only with what
\* it commits to: a signature covers the fields its hash type names, CHECKMULTISIG finds a matching
\* if there is one, and absolute and relative lock times are kept.
SpendingIsBound ==
    /\ VerifyNeverPanics /\ SpendsWhatItCommitsTo
    /\ SignaturesCoverFields /\ MultisigIsMatching
    /\ LockTimeIsEnforced /\ SequenceIsMonotonic

\* The helpers of the interpreter do what their reference definitions say: the stack operations of
\* stack.rs, the numbers of num.rs, the patterns of script.rs.
HelpersAreExact == StackOpsMoveGroups /\ NumbersRoundTrip /\ PatternsAreDisjoint
=============================================================================
