---------------------------- MODULE ChainVerifier ----------------------------
(* The chain verifier beside the store it protects.  Blocks are offered on    *)
(* top of the canonical chain or of one side branch; what the rules accept is *)
(* stored and, on the canonical chain, canonized.  The verifier keeps the     *)
(* deployments' cache and whether the verification edge was passed; a restart *)
(* loses both.                                                                *)
(*                                                                            *)
(* A world fixes the consensus parameters p, the genesis block, the level of  *)
(* verification before the edge, the node's clock now, the longest chain, and *)
(* what is offered: time steps, versions, transaction lists, compact targets  *)
(* (beside the required one), hashes, the coinbase of the edge block, loose   *)
(* transactions, and where a side branch may start.                           *)
EXTENDS Rules

CONSTANTS Worlds

VARIABLES
    world,    \* the world the run is in
    chain,    \* the canonical chain
    side,     \* the blocks of the side branch, from the genesis on, or <<>>
    cache,    \* Deployments::cache
    enforce,  \* ChainVerifierWrapper::enforce_full_verification
    stuck     \* a block was accepted that could not be canonized

vars == <<world, chain, side, cache, enforce, stuck>>

p == world.p
NoCache == [name \in {"csv", "segwit"} |-> NoEntry]

-----------------------------------------------------------------------------
(* canonize: rows are written transaction by transaction, an input marks its  *)
(* output in a row of the block so far or of the store; the one that has      *)
(* neither fails the whole step.                                              *)

Row(tx, height, coinbase) ==
    [height |-> height, coinbase |-> coinbase, outs |-> tx.outs, spent |-> {}]

Put(rows, id, row) == [k \in DOMAIN rows \cup {id} |-> IF k = id THEN row ELSE rows[k]]

DenoteUsed(rows, tx) ==
    LET f[j \in 0 .. Len(tx.ins)] ==
            IF j = 0 THEN [ok |-> TRUE, rows |-> rows]
            ELSE LET before == f[j - 1]
                     prev == tx.ins[j].prev
                 IN  IF ~before.ok \/ prev[1] \notin DOMAIN before.rows
                     THEN [before EXCEPT !.ok = FALSE]
                     ELSE [before EXCEPT !.rows[prev[1]].spent = @ \cup {prev[2]}]
    IN  f[Len(tx.ins)]

Canonize(rows, b, height) ==
    LET f[i \in 1 .. Len(b.txs)] ==
            IF i = 1 THEN [ok |-> TRUE, rows |-> Put(rows, b.txs[1].id, Row(b.txs[1], height, TRUE))]
            ELSE IF ~f[i - 1].ok THEN f[i - 1]
            ELSE DenoteUsed(Put(f[i - 1].rows, b.txs[i].id, Row(b.txs[i], height, FALSE)), b.txs[i])
    IN  f[Len(b.txs)]

(* The rows of a chain: the canonical store's, or those of the fork the store *)
(* prepares for a side branch.                                                *)
RowsOf(blocks) ==
    LET f[i \in 0 .. Len(blocks)] ==
            IF i = 0 THEN <<>> ELSE Canonize(f[i - 1], blocks[i], i - 1).rows
    IN  f[Len(blocks)]

-----------------------------------------------------------------------------
(* Verification. *)

Setting(blocks, c, decoded, level) ==
    [p |-> p, chain |-> blocks, rows |-> RowsOf(blocks), level |-> level, decoded |-> decoded,
     csv |-> IsActive(p, c, "csv", blocks), segwit |-> IsActive(p, c, "segwit", blocks)]

(* ChainVerifierWrapper: the edge and all that comes after it is verified in  *)
(* full.                                                                      *)
Level(b) == IF enforce \/ b.edge THEN "Full" ELSE world.level

(* verify_block on a chain: the verdict, and the cache it leaves. *)
Verify(blocks, b, decoded) ==
    IF Level(b) = "NoVerification" THEN [ok |-> TRUE, cache |-> cache]
    ELSE IF ~PreVerify(p, b, world.now) THEN [ok |-> FALSE, cache |-> cache]
    ELSE [ok |-> Accept(Setting(blocks, cache, decoded, Level(b)), b),
          cache |-> Asked(p, cache, blocks)]

(* A block somebody makes on top of a chain. *)
Candidate(blocks, step, version, txs, bits, hash) ==
    [time |-> Last(blocks).time + step, version |-> version, hash |-> hash, txs |-> txs,
     bits |-> IF bits = "required"
              THEN WorkRequired(p, blocks, Last(blocks).time + step) ELSE MaxBits(p),
     root |-> IF txs = <<>> THEN <<>> ELSE MerkleRoot([i \in DOMAIN txs |-> Leaf(txs[i].id)]),
     exception |-> FALSE, edge |-> txs # <<>> /\ txs[1].id = world.edge]

(* The candidates on a chain, as a set. *)
Offers(blocks) ==
    {Candidate(blocks, o[1], o[2], o[3], o[4], o[5]) :
        o \in {s \in world.steps : Last(blocks).time + s >= 0} \X world.versions
              \X world.bodies[Len(blocks)] \X world.bits \X world.hashes}

-----------------------------------------------------------------------------
Init ==
    /\ world \in Worlds
    /\ chain = <<world.genesis>>
    /\ side = <<>>
    /\ cache = NoCache
    /\ enforce = world.genesis.edge
    /\ stuck = FALSE

(* A block on top of the canonical chain. *)
VerifyCanon ==
    /\ Len(chain) < world.longest
    /\ ~stuck
    /\ \E b \in Offers(chain), decoded \in world.decoded :
        LET verdict == Verify(chain, b, decoded)
            done == Canonize(RowsOf(chain), b, Len(chain))
        IN  /\ cache' = verdict.cache
            /\ enforce' = (enforce \/ b.edge)
            /\ IF ~verdict.ok THEN UNCHANGED <<chain, stuck>>
               ELSE IF done.ok THEN chain' = Append(chain, b) /\ UNCHANGED stuck
               ELSE stuck' = TRUE /\ UNCHANGED chain
    /\ UNCHANGED <<world, side>>

(* A block on top of the side branch, or one that starts it.  A side branch   *)
(* that gets longer than the chain takes its place.                           *)
VerifySide ==
    /\ ~stuck
    /\ \E from \in IF side # <<>> THEN {side}
                   ELSE {SubSeq(chain, 1, n) : n \in world.forks \cap 1 .. Len(chain) - 1} :
        /\ Len(from) < world.longest
        /\ \E b \in Offers(from), decoded \in world.decoded :
            LET verdict == Verify(from, b, decoded)
                longer == Append(from, b)
            IN  /\ longer \notin {SubSeq(chain, 1, n) : n \in DOMAIN chain}
                /\ cache' = verdict.cache
                /\ enforce' = (enforce \/ b.edge)
                /\ IF ~verdict.ok THEN UNCHANGED <<chain, side>>
                   ELSE IF Len(longer) > Len(chain) THEN chain' = longer /\ side' = chain
                   ELSE side' = longer /\ UNCHANGED chain
    /\ UNCHANGED <<world, stuck>>

(* verify_mempool_transaction changes nothing but the cache. *)
VerifyTransactions ==
    /\ ~stuck
    /\ world.loose # {}
    /\ cache' = Asked(p, cache, chain)
    /\ UNCHANGED <<world, chain, side, enforce, stuck>>

\* Mutant: a restart forgets that the edge was passed.
RestartForgets ==
    /\ cache' = NoCache
    /\ enforce' = FALSE
    /\ UNCHANGED <<world, chain, side, stuck>>

(* The node restarts: the wrapper looks for the edge in the store. *)
Restart ==
    /\ cache' = NoCache
    /\ enforce' = \E blocks \in {chain, side} : \E i \in DOMAIN blocks : blocks[i].edge
    /\ UNCHANGED <<world, chain, side, stuck>>

Next == VerifyCanon \/ VerifySide \/ VerifyTransactions \/ Restart
Spec == Init /\ [][Next]_vars
-----------------------------------------------------------------------------
(* Properties. *)

Verified == world.level # "NoVerification"
Rewards(blocks) == SumOf(Len(blocks), LAMBDA i : BlockReward(i - 1))

Unspent(rows) ==
    UNION {{<<id, j>> : j \in DOMAIN rows[id].outs \ rows[id].spent} : id \in DOMAIN rows}

ValueOf(rows) ==
    LET Left(id) == SumOf(Len(rows[id].outs),
                          LAMBDA j : IF j \in rows[id].spent THEN 0 ELSE rows[id].outs[j].value)
        ids[S \in SUBSET DOMAIN rows] ==
            IF S = {} THEN 0 ELSE LET id == CHOOSE x \in S : TRUE IN Left(id) + ids[S \ {id}]
    IN  ids[DOMAIN rows]

(* The variables hold what the code's fields can hold. *)
TypeOK ==
    /\ world \in Worlds
    /\ Len(chain) \in 1 .. world.longest
    /\ Len(side) <= Len(chain)
    /\ \A name \in DOMAIN cache :
          cache[name].state \in {"Defined", "Started", "LockedIn", "Active", "Failed"}
    /\ enforce \in BOOLEAN /\ stuck \in BOOLEAN

(* What a verified chain leaves unspent was paid out by the subsidy:          *)
(* BlockCoinbaseClaim, TransactionOverspent and the rows together never       *)
(* create money, whatever is spent within or across blocks.                   *)
NoInflation == Verified => ValueOf(RowsOf(chain)) <= Rewards(chain)

(* A verified chain replays against the set of unspent outputs: each input    *)
(* spends an output that was there, once, where the order of the block's      *)
(* transactions counts unless the block is in canonical order.  This is what  *)
(* TransactionMissingInputs and TransactionDoubleSpend are for.               *)
LedgerReplays ==
    LET Spends(tx) == {tx.ins[j].prev : j \in DOMAIN tx.ins} \ {Null}
        Makes(tx) == {<<tx.id, j>> : j \in DOMAIN tx.outs}
        One(utxo, tx) == IF Spends(tx) \subseteq utxo
                         THEN (utxo \ Spends(tx)) \cup Makes(tx) ELSE {Null}
        InOrder(utxo, b) == LET f[i \in 0 .. Len(b.txs)] ==
                                    IF i = 0 THEN utxo ELSE One(f[i - 1], b.txs[i])
                            IN  f[Len(b.txs)]
        All(b, Of(_)) == UNION {Of(b.txs[i]) : i \in DOMAIN b.txs}
        AtOnce(utxo, b) ==
            IF /\ All(b, Spends) \subseteq utxo \cup All(b, Makes)
               /\ \A i, j \in DOMAIN b.txs : i # j => Spends(b.txs[i]) \cap Spends(b.txs[j]) = {}
            THEN (utxo \cup All(b, Makes)) \ All(b, Spends) ELSE {Null}
        replay[n \in 0 .. Len(chain)] ==
            IF n = 0 THEN {}
            ELSE IF Canonical(p, MedianTimestamp(SubSeq(chain, 1, n - 1)))
            THEN AtOnce(replay[n - 1], chain[n]) ELSE InOrder(replay[n - 1], chain[n])
    IN  Verified => replay[Len(chain)] = Unspent(RowsOf(chain))

(* The coinbase of an earlier block is spent CoinbaseMaturity blocks later at *)
(* the soonest (TransactionMaturity; the block's own coinbase is not covered, *)
(* as the comment there says).                                                *)
MatureSpends ==
    \A n, m \in DOMAIN chain : \A i \in DOMAIN chain[n].txs :
        Verified /\ m < n
          /\ (\E j \in DOMAIN chain[n].txs[i].ins :
                chain[n].txs[i].ins[j].prev[1] = chain[m].txs[1].id)
          /\ (\A k \in m + 1 .. n - 1 : chain[k].txs[1].id # chain[m].txs[1].id)
        => n - m >= CoinbaseMaturity

(* The target of every verified header is positive, no easier than the        *)
(* network's easiest, and moves by at most the factor at a retarget.          *)
WorkIsBounded ==
    Verified => \A n \in 2 .. Len(chain) :
        LET new == Target(chain[n].bits)
            old == Target(chain[n - 1].bits)
        IN  /\ new \in 1 .. Target(MaxBits(p))
            /\ ~p.cash /\ p.network # "testnet" =>
                  new <= Factor * old /\ new >= Target(FromU256(old \div Factor))

(* On a single branch the cached answer of threshold_state is the one the     *)
(* whole chain gives, whenever it is asked and however often the node was     *)
(* restarted in between.                                                      *)
DeploymentsFollowChain ==
    side = <<>> => \A name \in DOMAIN cache :
        ThresholdState(p, cache, p.deployments[name], chain).state
            = ThresholdState(p, NoCache, p.deployments[name], chain).state

(* A block the rules accept can be canonized, as long as transactions come    *)
(* after what they spend.  The store writes rows in the block's order, so a   *)
(* block in canonical order may not be.                                       *)
AcceptedBlocksCanonize == stuck => Canonical(p, MedianTimestamp(chain))

(* What the pool accepts on the chain (and is final, and spends no output     *)
(* twice) passes the rules of the next block, so that a template made of it   *)
(* is not refused for one of its transactions.                                *)
PoolTransactionsAreMinable ==
    LET e == Setting(chain, cache, FALSE, "Full")
        Next2(tx) == [time |-> world.now, txs |-> <<world.genesis.txs[1], tx>>, exception |-> FALSE]
    IN  \A tx \in world.loose :
            VerifyMempoolTransaction(e, tx, world.now) => AcceptTransaction(e, Next2(tx), 2)

(* A block that is accepted with csv or segwit active is accepted where they  *)
(* are not (segwit: if it carries no witnesses): the rules tighten, so that   *)
(* nodes that wait for a deployment follow the chain of those that do not.    *)
SoftForksOnlyRestrict ==
    LET e == Setting(chain, cache, FALSE, "Full")
        Plain(b) == \A i \in DOMAIN b.txs : ~HasWitness(b.txs[i])
    IN  \A b \in Offers(chain), on \in [csv : BOOLEAN, segwit : BOOLEAN] :
            LET tight == [e EXCEPT !.csv = on.csv, !.segwit = on.segwit]
            IN  (on.segwit => Plain(b)) /\ Len(chain) < world.longest /\ Accept(tight, b)
                    => Accept([tight EXCEPT !.csv = FALSE, !.segwit = FALSE], b)

(* Once the csv rules hold, a block moves the median time forward or leaves   *)
(* it: the single comparison of HeaderMedianTimestamp makes a monotone clock. *)
ClockAdvances ==
    Verified /\ IsActive(p, cache, "csv", chain) /\ SubSeq(chain', 1, Len(chain)) = chain
        => MedianTimestamp(chain') >= MedianTimestamp(chain)

(* A script rule that was in force for a block is in force for the next one   *)
(* (P2SH excepted, which follows the block's own time).                       *)
FlagsStay ==
    Verified /\ side = <<>>
        => Flags(Setting(chain, cache, FALSE, "Full"), Last(chain).time) \ {"P2SH"}
           \subseteq Flags(Setting(chain', cache', FALSE, "Full"), Last(chain').time)

(* From the edge on no block joins the chain that full verification would     *)
(* refuse, restarts included.                                                 *)
EdgeSeals ==
    (\E i \in DOMAIN chain' : chain'[i].edge)
        => \E decoded \in world.decoded :
             Accept(Setting(chain, cache, decoded, "Full"), Last(chain'))

(* A block never loosens what holds for its successors: the clock goes on,    *)
(* script rules stay in force, and from the edge on all is verified.          *)
RulesNeverLapse == [][Len(chain') = Len(chain) + 1 => ClockAdvances /\ FlagsStay /\ EdgeSeals]_vars

(* A verified chain is a ledger: each of its blocks can be stored, replays    *)
(* against the unspent outputs, spends no immature coinbase, and no money is  *)
(* created.                                                                   *)
LedgerIsSound ==
    TypeOK /\ NoInflation /\ LedgerReplays /\ MatureSpends /\ AcceptedBlocksCanonize

(* The rules of different settings nest: what the memory pool accepts passes  *)
(* the rules of a block, and what passes with a deployment active passes      *)
(* without it.                                                                *)
RulesNest == PoolTransactionsAreMinable /\ SoftForksOnlyRestrict

(* Stated by transaction_index_for_output_check, and not kept where Canonical *)
(* holds: an ascendant may come after its descendant in a block; then the     *)
(* store must take it.                                                        *)
NeverStuck == ~stuck
=============================================================================
