--------------------------- MODULE MCChainVerifier ---------------------------
(* ChainVerifier on small worlds, and, as probes beside it, the pure          *)
(* algorithms on sampled inputs and the ordered queues of ChainQueues.        *)
EXTENDS ChainVerifier

CONSTANTS
    ProbeTargets,  \* values turned into compact form and back
    ProbeTrees,    \* largest number of transactions in a Merkle tree
    ProbeHeight    \* largest number of stored and of queued blocks under a locator

VARIABLE probe
mcvars == <<vars, probe>>

-----------------------------------------------------------------------------
(* Transactions. *)

NoOps == [checks |-> 0, data |-> 0]
In(prev) == [prev |-> prev, sig |-> NoOps, redeem |-> NoOps, wit |-> 0, hasWitness |-> FALSE,
             isFinal |-> TRUE, breaks |-> {}]
Out(v) == [value |-> v, sigops |-> NoOps, p2sh |-> FALSE, replay |-> FALSE, commit |-> "none"]
NoScript == [len |-> 2, height |-> 0, nonce |-> FALSE]
Tx(id, prevs, values) ==
    [id |-> id, ins |-> [i \in DOMAIN prevs |-> In(prevs[i])],
     outs |-> [i \in DOMAIN values |-> Out(values[i])],
     lock |-> 0, script |-> NoScript, size |-> 3, fullSize |-> 3]
Coinbase(id, v) == Tx(id, <<Null>>, <<v>>)

Block(t, bits, txs, edge) ==
    [time |-> t, version |-> [number |-> 4, signals |-> {}], hash |-> 0, txs |-> txs, bits |-> bits,
     root |-> MerkleRoot([i \in DOMAIN txs |-> Leaf(txs[i].id)]), exception |-> FALSE, edge |-> edge]

-----------------------------------------------------------------------------
(* Parameters: numbers that never come up are Never. *)
Never == 1000
Fixed(name, at) == [present |-> TRUE, name |-> name, start |-> 0, timeout |-> 0, activation |-> at]
Voted(name, start, timeout) ==
    [present |-> TRUE, name |-> name, start |-> start, timeout |-> timeout,
     activation |-> NoActivation]
Absent(name) == [Fixed(name, 0) EXCEPT !.present = FALSE]

Core == [network |-> "mainnet", cash |-> FALSE, forkHeight |-> 0, daaHeight |-> 0,
         monolithTime |-> Never, anomalyTime |-> Never, bip16Time |-> 0, bip34Height |-> Never,
         bip65Height |-> 3, bip66Height |-> 2, threshold |-> 2, window |-> 2, maxTarget |-> 255,
         deployments |-> [csv |-> Fixed("csv", 0), segwit |-> Fixed("segwit", Never)]]
Cash == [Core EXCEPT !.cash = TRUE, !.forkHeight = 0, !.daaHeight = Never,
                     !.deployments.segwit = Absent("segwit")]

World(params, longest) ==
    [p |-> params, genesis |-> Block(10, MaxBits(params), <<Coinbase(100, Subsidy)>>, TRUE),
     level |-> "Full", now |-> 40, longest |-> longest, steps |-> {1},
     versions |-> {[number |-> 4, signals |-> {}]},
     bodies |-> [n \in 1 .. longest |-> {<<Coinbase(100 + n, BlockReward(n))>>}],
     bits |-> {"required"}, hashes |-> {0}, edge |-> 0, loose |-> {}, decoded |-> {FALSE},
     forks |-> {}]

-----------------------------------------------------------------------------
(* Money: coinbases that claim the reward, a fee, or too much; the same one   *)
(* again; transactions that split, join, overspend, overflow, conflict,       *)
(* depend on each other and spend what is not there.                          *)
T1 == Tx(5, << <<100, 1>> >>, <<1, 2>>)
T2 == Tx(2, << <<100, 1>> >>, <<4>>)
T3 == Tx(3, << <<5, 1>>, <<5, 2>> >>, <<3>>)
T4 == Tx(7, << <<5, 2>> >>, <<Money - 1, Money - 1>>)
T5 == Tx(8, << <<101, 1>> >>, <<2>>)
T6 == Tx(9, << <<5, 1>>, <<5, 1>> >>, <<1>>)
Coins == {Coinbase(100, Subsidy), Coinbase(101, 4), Coinbase(102, 5), Coinbase(102, 2)}
Spending == {<<>>, <<T1>>, <<T2>>, <<T1, T2>>, <<T1, T3>>, <<T3, T1>>, <<T3>>, <<T4>>, <<T5>>,
             <<T1, T6>>, <<T1, T1>>, <<T3, T2>>}
Money1(params) ==
    [World(params, 5) EXCEPT
        !.bodies = [n \in 1 .. 5 |-> {<<c>> \o s : c \in Coins, s \in Spending}],
        !.decoded = BOOLEAN, !.loose = {T1, T2, T3, T5}]
CashCanonical == [Cash EXCEPT !.monolithTime = 0, !.anomalyTime = 0]

(* Time and work. *)
Clock(params) == [World(params, 9) EXCEPT
                     !.steps = {-2, 1, 11}, !.now = 120, !.genesis.bits = FromU256(16),
                     !.versions = {[number |-> n, signals |-> {}] : n \in {2, 4}}]
TestNet == [Core EXCEPT !.network = "testnet"]
CashDaa == [Cash EXCEPT !.daaHeight = 6]
CashForks == [Cash EXCEPT !.monolithTime = 21, !.anomalyTime = 32]

(* Deployments. *)
Ballot(start, timeout, forks) ==
    [World([Core EXCEPT !.deployments.segwit = Voted("segwit", start, timeout)], 9) EXCEPT
        !.versions = {[number |-> 4, signals |-> s] : s \in {{}, {"segwit"}}}, !.forks = forks,
        !.loose = IF forks = {} THEN {T1} ELSE {}, !.longest = IF forks = {} THEN 9 ELSE 6]

(* Limits: transactions that are large, count many signature operations, wait *)
(* for a height or a time, carry witnesses or fail under a flag; coinbases    *)
(* with and without a commitment and the height.                              *)
Big == [T1 EXCEPT !.size = 19, !.fullSize = 19]
Heavy == [T1 EXCEPT !.size = 9, !.fullSize = 60]
Many == [T1 EXCEPT !.outs[1].sigops = [checks |-> MBSigops + 1, data |-> 1]]
Data == [T1 EXCEPT !.ins[1].sig = [checks |-> MBSigops, data |-> 1]]
Waiting(lock) == [T1 EXCEPT !.lock = lock, !.ins[1].isFinal = FALSE]
Witnessed == [T1 EXCEPT !.ins[1].hasWitness = TRUE, !.ins[1].wit = 2, !.fullSize = 5]
Failing(flag) == [T1 EXCEPT !.ins[1].breaks = {flag}]
Replayed == [T1 EXCEPT !.outs[1].replay = TRUE]
Tiny == [T1 EXCEPT !.size = MinTxSize - 1]
Odd == {Big, Heavy, Many, Data, Waiting(3), Waiting(24), Witnessed, Failing("LOCKTIME"),
        Failing("DERSIG"), Failing("CHECKSEQUENCE"), Failing("WITNESS"), Failing("P2SH"),
        Failing("CLEANSTACK"), Failing("FORKID"), Replayed, Tiny}
Committed(n) == [Coinbase(100 + n, 1) EXCEPT !.script.height = n, !.script.nonce = TRUE,
                                             !.outs[1].commit = "match"]
Marked(n) ==
    {Coinbase(100 + n, 1), [Coinbase(100 + n, 1) EXCEPT !.script.height = n],
     [Committed(n) EXCEPT !.outs[1].commit = "other"],
     [Committed(n) EXCEPT !.script.len = MaxCoinbaseSize + 1]}
Limits(params) ==
    [World([params EXCEPT !.bip34Height = 2, !.bip16Time = 20], 4) EXCEPT
        !.genesis.time = 18, !.steps = {1, 3}, !.loose = Odd,
        !.bodies = [n \in 1 .. 5 |-> {<<c>> : c \in Marked(n)} \cup
                                     {<<Committed(n), tx>> : tx \in Odd}]]
CoreSegwit == [Core EXCEPT !.deployments.segwit = Fixed("segwit", 3),
                           !.deployments.csv = Fixed("csv", 2)]
CashForked == [Cash EXCEPT !.forkHeight = 2, !.monolithTime = 21, !.anomalyTime = 23]

(* The edge: blocks that no rule would let through before it. *)
Edge == [World(Core, 5) EXCEPT
            !.genesis.edge = FALSE, !.edge = 202, !.level = "NoVerification",
            !.bodies = [n \in 1 .. 5 |-> {<<Coinbase(200 + n, v)>> : v \in {1, Money - 1}}],
            !.bits = {"required", "max"}]

MCWorlds ==
    {Money1(Core), Money1(CashCanonical), Clock(Core), Clock(TestNet), Clock(Cash),
     Clock(CashDaa), Clock(CashForks), Ballot(12, Never, {}), Ballot(0, 14, {}),
     Ballot(0, Never, {2, 4}), Limits(CoreSegwit), Limits(CashForked), Edge}

MCTargets == 0 .. 40 \cup {x + d : x \in {Byte ^ k : k \in 3 .. Width - 1}, d \in -2 .. 2}
             \cup {Modulus \div 2 + d : d \in -2 .. 2} \cup {Modulus - 1}

-----------------------------------------------------------------------------
(* Headers for the queues: 1 - 2 - 3 on the genesis block 0, and 4 beside 2. *)
QueueParent == [b \in 0 .. 4 |-> <<-1, 0, 1, 2, 1>>[b + 1]]
QueueHeight == [b \in 0 .. 4 |-> <<0, 1, 2, 3, 2>>[b + 1]]
QueueAncestors == [b \in 0 .. 4 |-> <<{0}, {0, 1}, {0, 1, 2}, {0, 1, 2, 3}, {0, 1, 4}>>[b + 1]]

Queues == INSTANCE ChainQueues
            WITH Blocks <- 0 .. 4, NoHash <- -1, Genesis <- 0, MaxHeight <- 3,
                 Parent <- QueueParent, Height <- QueueHeight, Ancestors <- QueueAncestors

NoProbe == [kind |-> "none"]

Probes ==
    [kind : {"target"}, value : ProbeTargets]
    \cup [kind : {"tree"}, count : 1 .. ProbeTrees]
    \cup [kind : {"locator"}, best : 0 .. ProbeHeight, queued : 0 .. ProbeHeight]
    \cup [kind : {"queues"}, chain : {Queues!NewQueues(0)}]

MCInit ==
    \/ Init /\ probe = NoProbe
    \/ /\ world = Edge /\ chain = <<Edge.genesis>> /\ side = <<>> /\ cache = NoCache
       /\ enforce = FALSE /\ stuck = FALSE
       /\ probe \in Probes

ProbeQueues ==
    /\ probe.kind = "queues"
    /\ \E step \in Queues!ChainSteps(probe.chain) : probe' = [probe EXCEPT !.chain = step.next]
    /\ UNCHANGED vars

MCNext == (probe = NoProbe /\ Next /\ UNCHANGED probe) \/ ProbeQueues
MCSpec == MCInit /\ [][MCNext]_mcvars

(* The compact form of a value reads back as the largest representable value  *)
(* not above it, never as a negative or overflowing one, and a value that was *)
(* read back has the same form.                                               *)
CompactRoundTrips ==
    probe.kind = "target" =>
        LET c == FromU256(probe.value)
            back == ToU256(c)
        IN  /\ back.ok
            /\ back.value <= probe.value
            /\ FromU256(back.value) = c
            /\ \A d \in Compacts : ToU256(d).ok /\ ToU256(d).value <= probe.value
                                       => ToU256(d).value <= back.value

(* ~target / (target + 1) + 1 is 2^256 / (target + 1), as the comment in      *)
(* block_proof claims.                                                        *)
BlockProofIsExact ==
    probe.kind = "target" =>
        BlockProof(FromU256(probe.value)) = Modulus \div (Target(FromU256(probe.value)) + 1)

(* Two lists of transactions that pass the uniqueness check have the same     *)
(* root only if they are the same: the pairing of an odd row's last hash with *)
(* itself hides nothing else.                                                 *)
RootBindsTransactions ==
    LET Lists(n) == [1 .. n -> {Leaf(i) : i \in 1 .. 4}]
    IN  probe.kind = "tree" /\ probe.count <= 4 =>
            \A s \in Lists(probe.count) : \A m \in 1 .. 4 : \A t \in Lists(m) :
                TransactionsUnique(s) /\ TransactionsUnique(t) /\ MerkleRoot(s) = MerkleRoot(t)
                    => s = t

(* The partial tree of any selection of a block's transactions parses to the  *)
(* block's Merkle root and that selection.                                    *)
PartialTreeProves ==
    probe.kind = "tree" =>
        LET txs == [i \in 1 .. probe.count |-> Leaf(i)]
        IN  \A matches \in SUBSET (0 .. probe.count - 1) :
                LET parsed == ParseTree(BuildTree(txs, matches))
                IN  parsed.ok /\ parsed.hash = MerkleRoot(txs) /\ parsed.found = matches

(* The ordered queues and the headers chain do what SyncChain does to their   *)
(* sets, and the numbers they give to blocks are heights.                     *)
QueuesAreExact ==
    probe.kind = "queues" =>
        Queues!ImplementsSyncChain(probe.chain) /\ Queues!NumbersAreHeights(probe.chain)

(* block_locator_hashes reaches from the tip to the genesis block, with gaps  *)
(* no longer than the distance from the tip.                                  *)
LocatorsAreTight ==
    probe.kind = "locator" => Queues!LocatorIsTight(probe.best, probe.queued)

(* The pure algorithms of verification are exact at the limits of their       *)
(* encodings: targets stay between the bounds of the network and of a         *)
(* retarget, their compact form loses no more than it must, a block's proof   *)
(* is the quotient its comment claims, merkle_root binds the transactions of  *)
(* a block, and the partial tree of a merkleblock the root and the selection. *)
(* So are those of the sync chain: its queues are the sets the client is      *)
(* modelled on, and its locators lead to the last block a peer shares.        *)
AlgorithmsAreExact ==
    /\ WorkIsBounded /\ CompactRoundTrips /\ BlockProofIsExact
    /\ RootBindsTransactions /\ PartialTreeProves
    /\ QueuesAreExact /\ LocatorsAreTight
=============================================================================
