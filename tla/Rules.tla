-------------------------------- MODULE Rules --------------------------------
(* The consensus rules of the verification crate: what is checked of a block  *)
(* before its place in the chain is known (verify_x), and on a given chain    *)
(* (accept_x), and what is checked of a transaction for the memory pool.      *)
(* A check is a Boolean: which error a failed one reports changes nothing     *)
(* else.                                                                      *)
(*                                                                            *)
(* A block is a header [time, bits, version, hash, root] with the sequence    *)
(* txs of its transactions.  A transaction is [id, ins, outs, lock, script,   *)
(* size, fullSize]: script is what the first input's script holds in a        *)
(* coinbase, lock the lock time.  An input is [prev, sig, redeem, wit,        *)
(* hasWitness, isFinal, breaks]: the signature operations its scripts count   *)
(* for, and the script flags it fails under.  An output is [value, sigops,    *)
(* p2sh, replay, commit].                                                     *)
EXTENDS Work, Merkle

CONSTANTS
    MB,               \* bytes of a million
    MBSigops,         \* signature operations allowed per million bytes (20000)
    MinTxSize,        \* 100
    MinCoinbaseSize,  \* MIN_COINBASE_SIZE (2)
    MaxCoinbaseSize,  \* MAX_COINBASE_SIZE (100)
    ReplayEnd,        \* last height of the replay protection (530000)
    CoinbaseMaturity, \* COINBASE_MATURITY (100)
    MaxFuture,        \* BLOCK_MAX_FUTURE (7200)
    LockTimeThreshold,\* LOCKTIME_THRESHOLD (500000000)
    Money,            \* values of a u64 amount
    RowBits           \* bits of a byte of a stored row (8)

ASSUME RulesAssumption ==
    /\ {MB, MBSigops, MinTxSize, MinCoinbaseSize, MaxCoinbaseSize, ReplayEnd,
        CoinbaseMaturity, MaxFuture, LockTimeThreshold} \subseteq Nat
    /\ {Money, RowBits} \subseteq Nat \ {0}
    /\ MinCoinbaseSize <= MaxCoinbaseSize

ScaleFactor == 4
Null == <<0, 0>>
Last(s) == s[Len(s)]
SumOf(n, f(_)) == LET g[i \in 0 .. n] == IF i = 0 THEN 0 ELSE g[i - 1] + f(i) IN g[n]

-----------------------------------------------------------------------------
(* Limits of the two chains (network/src/consensus.rs). *)

AbsoluteMaximumBlockSize == 32 * MB
AbsoluteMaximumBlockSigops == 8 * MBSigops

MinTransactionSize(p, mtp) == IF p.cash /\ mtp >= p.anomalyTime THEN MinTxSize ELSE 0
MinBlockSize(p, height) == IF p.cash /\ height = p.forkHeight THEN MB + 1 ELSE 0
MaxBlockSize(p, height, mtp) ==
    IF p.cash /\ mtp >= p.monolithTime THEN 32 * MB
    ELSE IF p.cash /\ height >= p.forkHeight THEN 8 * MB ELSE MB
MaxBlockSigops(p, height, size) ==
    IF p.cash /\ height >= p.forkHeight THEN MBSigops * (1 + (size - 1) \div MB) ELSE MBSigops
MaxBlockSigopsCost(p, height, size) ==
    IF p.cash THEN MaxBlockSigops(p, height, size) * ScaleFactor ELSE ScaleFactor * MBSigops
MaxBlockWeight == ScaleFactor * MB
Canonical(p, mtp) == p.cash /\ mtp >= p.anomalyTime

-----------------------------------------------------------------------------
(* Transactions. *)

IsNull(tx) == \E i \in DOMAIN tx.ins : tx.ins[i].prev = Null
IsCoinbase(tx) == Len(tx.ins) = 1 /\ tx.ins[1].prev = Null
HasWitness(tx) == \E i \in DOMAIN tx.ins : tx.ins[i].hasWitness

IsFinalInBlock(tx, height, time) ==
    \/ tx.lock = 0
    \/ tx.lock < (IF tx.lock < LockTimeThreshold THEN height ELSE time)
    \/ \A i \in DOMAIN tx.ins : tx.ins[i].isFinal

(* total_spends: the sum stops at the largest amount. *)
TotalSpends(tx) ==
    LET sum == SumOf(Len(tx.outs), LAMBDA i : tx.outs[i].value)
    IN  IF sum > Money - 1 THEN Money - 1 ELSE sum

-----------------------------------------------------------------------------
(* Where previous outputs are looked up.  A store maps the hash of a stored   *)
(* transaction to [height, coinbase, outs, spent].                            *)
(* DuplexTransactionOutputProvider looks in the store, then among the first   *)
(* `upto` transactions of the block.                                          *)

NoBlock == <<>>
NoOutput == [value |-> 0, sigops |-> [checks |-> 0, data |-> 0], p2sh |-> FALSE,
             replay |-> FALSE, commit |-> "none"]

StoredAt(store, prev) == prev[1] \in DOMAIN store /\ prev[2] \in DOMAIN store[prev[1]].outs

InBlock(txs, prev, upto) ==
    {i \in DOMAIN txs : i <= upto /\ txs[i].id = prev[1] /\ prev[2] \in DOMAIN txs[i].outs}

HasOutput(store, txs, prev, upto) == StoredAt(store, prev) \/ InBlock(txs, prev, upto) # {}

Output(store, txs, prev, upto) ==
    IF StoredAt(store, prev) THEN store[prev[1]].outs[prev[2]]
    ELSE IF InBlock(txs, prev, upto) # {}
         THEN txs[CHOOSE i \in InBlock(txs, prev, upto) : TRUE].outs[prev[2]]
         ELSE NoOutput

(* Spent by the chain, or by two inputs of the block. *)
IsSpent(store, txs, prev) ==
    \/ prev[1] \in DOMAIN store /\ prev[2] \in store[prev[1]].spent
    \/ Cardinality({<<i, j>> \in UNION {{i} \X DOMAIN txs[i].ins : i \in DOMAIN txs} :
                        txs[i].ins[j].prev = prev}) >= 2

(* transaction_index_for_output_check; position i has i - 1 before it. *)
OutputCheckIndex(canonical, txs, i) == IF canonical THEN Len(txs) ELSE i - 1

(* is_fully_spent.  A row read back from the disk has whole bytes of bits,    *)
(* and the padding counts as unspent outputs.                                 *)
IsFullySpent(row, decoded) ==
    /\ DOMAIN row.outs \subseteq row.spent
    /\ decoded => (Len(row.outs) + 1) % RowBits = 0

-----------------------------------------------------------------------------
(* Signature operations. *)

(* A script counts its checks, and its data checks once they are active. *)
Count(script, cds) == script.checks + (IF cds THEN script.data ELSE 0)

TransactionSigops(tx, store, txs, bip16, cds) ==
    LET Out(i) == Count(tx.outs[i].sigops, cds)
        In(i) == Count(tx.ins[i].sig, cds)
        Redeem(i) == IF bip16 /\ Output(store, txs, tx.ins[i].prev, Len(txs)).p2sh
                     THEN Count(tx.ins[i].redeem, cds) ELSE 0
    IN  SumOf(Len(tx.outs), Out)
        + (IF IsCoinbase(tx) THEN 0 ELSE SumOf(Len(tx.ins), In) + SumOf(Len(tx.ins), Redeem))

TransactionSigopsCost(tx, store, txs, sigops) ==
    LET Witness(i) == IF HasOutput(store, txs, tx.ins[i].prev, Len(txs)) THEN tx.ins[i].wit ELSE 0
    IN  sigops * ScaleFactor + SumOf(Len(tx.ins), Witness)

-----------------------------------------------------------------------------
(* Checks that need no chain (verify_x.rs). *)

BlockSize(b) == 1 + SumOf(Len(b.txs), LAMBDA i : b.txs[i].size)
BlockFullSize(b) == 1 + SumOf(Len(b.txs), LAMBDA i : b.txs[i].fullSize)

TxIds(b) == [i \in DOMAIN b.txs |-> Leaf(b.txs[i].id)]

TransactionsUnique(ids) == Cardinality({ids[i] : i \in DOMAIN ids}) = Len(ids)

VerifyBlock(b) ==
    /\ b.txs # <<>>
    /\ IsCoinbase(b.txs[1])
    /\ BlockSize(b) <= AbsoluteMaximumBlockSize
    /\ \A i \in 2 .. Len(b.txs) : ~IsCoinbase(b.txs[i])
    /\ TransactionsUnique(TxIds(b))
    /\ SumOf(Len(b.txs), LAMBDA i : TransactionSigops(b.txs[i], <<>>, NoBlock, FALSE, FALSE))
           <= AbsoluteMaximumBlockSigops
    /\ b.root = MerkleRoot(TxIds(b))

VerifyHeader(p, b, now) ==
    /\ IsValidProofOfWork(MaxBits(p), b.bits, b.hash)
    /\ b.time <= now + MaxFuture

TransactionEmpty(tx) == tx.ins = <<>> \/ tx.outs = <<>>
TransactionNullNonCoinbase(tx) == ~IsCoinbase(tx) /\ IsNull(tx)

VerifyTransaction(tx) ==
    /\ ~TransactionEmpty(tx)
    /\ ~TransactionNullNonCoinbase(tx)
    /\ IsCoinbase(tx) => tx.script.len \in MinCoinbaseSize .. MaxCoinbaseSize

(* ChainVerifier::check. *)
PreVerify(p, b, now) ==
    /\ VerifyBlock(b)
    /\ VerifyHeader(p, b, now)
    /\ \A i \in DOMAIN b.txs : VerifyTransaction(b.txs[i])

-----------------------------------------------------------------------------
(* Checks on a chain (accept_x.rs).  The setting e is [p, chain, rows, csv,   *)
(* segwit, decoded, level]: the parameters, the chain the block is put on and *)
(* its rows, the deployments active for the block, whether a row is read from *)
(* its stored form, and the verification level.                               *)

Mtp(e) == MedianTimestamp(e.chain)

BlockFinality(e, b) ==
    \A i \in DOMAIN b.txs :
        IsFinalInBlock(b.txs[i], Len(e.chain), IF e.csv THEN Mtp(e) ELSE b.time)

BlockSigops(e, b) ==
    LET cds == e.p.cash /\ Mtp(e) >= e.p.anomalyTime
        Ops(i) == TransactionSigops(b.txs[i], e.rows, b.txs, b.time >= e.p.bip16Time, cds)
        Cost(i) == TransactionSigopsCost(b.txs[i], e.rows, b.txs, Ops(i))
    IN  /\ SumOf(Len(b.txs), Ops) <= MaxBlockSigops(e.p, Len(e.chain), BlockSize(b))
        /\ SumOf(Len(b.txs), Cost) <= MaxBlockSigopsCost(e.p, Len(e.chain), BlockSize(b))

BlockSerializedSize(e, b) ==
    /\ BlockSize(b) >= MinBlockSize(e.p, Len(e.chain))
    /\ BlockSize(b) <= MaxBlockSize(e.p, Len(e.chain), Mtp(e))
    /\ e.segwit => BlockSize(b) * (ScaleFactor - 1) + BlockFullSize(b) <= MaxBlockWeight

(* What the inputs of the i-th transaction bring, as the claim counts it. *)
Incoming(e, b, i) ==
    LET tx == b.txs[i]
        upto == OutputCheckIndex(Canonical(e.p, Mtp(e)), b.txs, i)
    IN  SumOf(Len(tx.ins), LAMBDA j : Output(e.rows, b.txs, tx.ins[j].prev, upto).value)

\* Mutant: the coinbase may claim more than fees and reward.
BlockCoinbaseClaimEager(e, b) ==
    LET Fee(i) == IF i = 1 THEN 0 ELSE Incoming(e, b, i) - TotalSpends(b.txs[i])
    IN  /\ \A i \in 2 .. Len(b.txs) : Fee(i) >= 0
        /\ TotalSpends(b.txs[1])
               <= SumOf(Len(b.txs), Fee) + BlockReward(Len(e.chain)) + BlockReward(0)

BlockCoinbaseClaim(e, b) ==
    LET Fee(i) == IF i = 1 THEN 0 ELSE Incoming(e, b, i) - TotalSpends(b.txs[i])
        fees == SumOf(Len(b.txs), Fee)
        reward == fees + BlockReward(Len(e.chain))
    IN  /\ \A i \in 2 .. Len(b.txs) : Incoming(e, b, i) < Money /\ Fee(i) >= 0
        /\ fees < Money
        /\ reward < Money
        /\ TotalSpends(b.txs[1]) <= reward

BlockCoinbaseScript(e, b) ==
    Len(e.chain) >= e.p.bip34Height => b.txs[1].script.height = Len(e.chain)

(* The last output of the coinbase that commits to witnesses decides. *)
BlockWitness(e, b) ==
    LET outs == b.txs[1].outs
        commits == {i \in DOMAIN outs : outs[i].commit # "none"}
        commit == outs[CHOOSE i \in commits : \A j \in commits : j <= i].commit
    IN  e.segwit =>
          IF commits # {} THEN b.txs[1].script.nonce /\ commit = "match"
          ELSE \A i \in DOMAIN b.txs : ~HasWitness(b.txs[i])

BlockTransactionOrdering(e, b) ==
    Canonical(e.p, Mtp(e)) => \A i \in 2 .. Len(b.txs) - 1 : b.txs[i].id < b.txs[i + 1].id

AcceptBlock(e, b) ==
    /\ BlockFinality(e, b)
    /\ BlockSigops(e, b)
    /\ BlockSerializedSize(e, b)
    /\ BlockCoinbaseClaim(e, b)
    /\ BlockCoinbaseScript(e, b)
    /\ BlockWitness(e, b)
    /\ BlockTransactionOrdering(e, b)

HeaderVersion(e, b) ==
    LET Below(n, height) == b.version.number < n /\ Len(e.chain) >= height
    IN  ~Below(2, e.p.bip34Height) /\ ~Below(3, e.p.bip66Height) /\ ~Below(4, e.p.bip65Height)

HeaderMedianTimestamp(e, b) == e.csv => b.time > Mtp(e)

AcceptHeader(e, b) ==
    /\ HeaderVersion(e, b)
    /\ WorkRequired(e.p, e.chain, b.time) = b.bits
    /\ HeaderMedianTimestamp(e, b)

-----------------------------------------------------------------------------
(* A transaction at position i of a block's txs, or, for the memory pool,     *)
(* among the transactions it holds.                                           *)

TransactionSize(e, tx) == tx.size >= MinTransactionSize(e.p, Mtp(e))

TransactionPrematureWitness(e, tx) == HasWitness(tx) => e.segwit

TransactionBip30(e, b, tx) ==
    \/ tx.id \notin DOMAIN e.rows
    \/ IsFullySpent(e.rows[tx.id], e.decoded)
    \/ b.exception

TransactionMissingInputs(e, txs, tx, upto) ==
    \A j \in DOMAIN tx.ins : tx.ins[j].prev # Null => HasOutput(e.rows, txs, tx.ins[j].prev, upto)

TransactionMaturity(e, tx) ==
    \A j \in DOMAIN tx.ins :
        LET prev == tx.ins[j].prev[1]
        IN  prev \in DOMAIN e.rows /\ e.rows[prev].coinbase =>
                Len(e.chain) >= e.rows[prev].height + CoinbaseMaturity

(* The sum of u64 amounts wraps in the release build. *)
TransactionOverspent(e, txs, tx) ==
    LET Value(j) == Output(e.rows, txs, tx.ins[j].prev, Len(txs)).value
    IN  IsCoinbase(tx) \/ TotalSpends(tx) <= SumOf(Len(tx.ins), Value) % Money

TransactionDoubleSpend(e, txs, tx) ==
    IsCoinbase(tx) \/ \A j \in DOMAIN tx.ins : ~IsSpent(e.rows, txs, tx.ins[j].prev)

TransactionReturnReplayProtection(e, tx) ==
    e.p.cash /\ Len(e.chain) \in e.p.forkHeight .. ReplayEnd =>
        \A j \in DOMAIN tx.outs : ~tx.outs[j].replay

(* The script flags TransactionEval sets for a block or a transaction of the  *)
(* given time; ForkId stands for the signature version.                       *)
Flags(e, time) ==
    LET fork == e.p.cash /\ Len(e.chain) >= e.p.forkHeight
    IN  (IF time >= e.p.bip16Time THEN {"P2SH"} ELSE {})
        \cup (IF fork THEN {"STRICTENC", "FORKID"} ELSE {})
        \cup (IF Len(e.chain) >= e.p.bip65Height THEN {"LOCKTIME"} ELSE {})
        \cup (IF Len(e.chain) >= e.p.bip66Height THEN {"DERSIG"} ELSE {})
        \cup (IF e.csv THEN {"CHECKSEQUENCE"} ELSE {})
        \cup (IF e.segwit THEN {"WITNESS", "NULLDUMMY"} ELSE {})
        \cup (IF e.p.cash /\ Mtp(e) >= e.p.monolithTime THEN {"MONOLITH"} ELSE {})
        \cup (IF e.p.cash /\ Mtp(e) >= e.p.anomalyTime
              THEN {"CHECKDATASIG", "SIGPUSHONLY", "CLEANSTACK"} ELSE {})

TransactionEval(e, txs, tx, time) ==
    \/ e.level # "Full"
    \/ IsCoinbase(tx)
    \/ \A j \in DOMAIN tx.ins : /\ HasOutput(e.rows, txs, tx.ins[j].prev, Len(txs))
                               /\ tx.ins[j].breaks \cap Flags(e, time) = {}

AcceptTransaction(e, b, i) ==
    LET tx == b.txs[i]
    IN  /\ TransactionSize(e, tx)
        /\ TransactionPrematureWitness(e, tx)
        /\ TransactionBip30(e, b, tx)
        /\ TransactionMissingInputs(e, b.txs, tx,
                                    OutputCheckIndex(Canonical(e.p, Mtp(e)), b.txs, i))
        /\ TransactionMaturity(e, tx)
        /\ TransactionOverspent(e, b.txs, tx)
        /\ TransactionDoubleSpend(e, b.txs, tx)
        /\ TransactionReturnReplayProtection(e, tx)
        /\ TransactionEval(e, b.txs, tx, b.time)

(* ChainAcceptor::check. *)
Accept(e, b) ==
    /\ AcceptBlock(e, b)
    /\ AcceptHeader(e, b)
    /\ \A i \in DOMAIN b.txs : AcceptTransaction(e, b, i)

-----------------------------------------------------------------------------
(* The memory pool's rules, for a transaction that spends outputs of the      *)
(* chain (what the pool itself provides is in SyncTransactions).              *)

MaxTransactionSize == MB
TransactionAbsoluteSigops(tx) ==
    TransactionSigops(tx, <<>>, NoBlock, FALSE, FALSE) <= AbsoluteMaximumBlockSigops
PoolTransactionPrematureWitness(e, tx) == HasWitness(tx) => e.segwit

VerifyPoolTransaction(e, tx) ==
    /\ ~TransactionEmpty(tx)
    /\ ~TransactionNullNonCoinbase(tx)
    /\ ~IsCoinbase(tx)
    /\ tx.size <= MaxTransactionSize
    /\ PoolTransactionPrematureWitness(e, tx)
    /\ TransactionAbsoluteSigops(tx)

(* The pool's limit is that of the largest block; data checks follow the      *)
(* transaction's time, where a block's follow the median.                     *)
PoolTransactionSigops(e, tx, time) ==
    TransactionSigops(tx, e.rows, NoBlock, time >= e.p.bip16Time,
                      e.p.cash /\ time >= e.p.anomalyTime)
        <= MaxBlockSigops(e.p, Len(e.chain), MaxBlockSize(e.p, Len(e.chain), Mtp(e)))

\* Mutant: maturity, limits and double spends are not checked.
AcceptPoolTransactionLoose(e, tx, time) ==
    /\ TransactionSize(e, tx)
    /\ TransactionMissingInputs(e, NoBlock, tx, 0)
    /\ TransactionOverspent(e, NoBlock, tx)
    /\ TransactionReturnReplayProtection(e, tx)
    /\ TransactionEval(e, NoBlock, tx, time)

AcceptPoolTransaction(e, tx, time) ==
    /\ TransactionSize(e, tx)
    /\ TransactionMissingInputs(e, NoBlock, tx, 0)
    /\ TransactionMaturity(e, tx)
    /\ TransactionOverspent(e, NoBlock, tx)
    /\ PoolTransactionSigops(e, tx, time)
    /\ TransactionDoubleSpend(e, NoBlock, tx)
    /\ TransactionReturnReplayProtection(e, tx)
    /\ TransactionEval(e, NoBlock, tx, time)

(* verify_mempool_transaction. *)
VerifyMempoolTransaction(e, tx, time) ==
    VerifyPoolTransaction(e, tx) /\ AcceptPoolTransaction(e, tx, time)
=============================================================================
