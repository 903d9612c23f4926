-------------------------- MODULE SyncTransactions --------------------------
(***************************************************************************)
(* Transactions in the sync crate, from their arrival to the memory pool,  *)
(* and what blocks do to them: the orphan pool, the transactions that are  *)
(* being verified, the verification thread with its channel, the memory    *)
(* pool and the answers to accept_transaction.                             *)
(*                                                                         *)
(* Only the verification thread changes the storage and the pool, so that  *)
(* a verification and what the sink then does is one step.  What a handler *)
(* hands to the verification thread is sent after the lock of the client   *)
(* is released: it waits in `outbox` until then.                           *)
(*                                                                         *)
(* Blocks are valid and arrive after their parents; how they are found and *)
(* asked for is the subject of SyncClient.  Storage promises what          *)
(* BlockChainDb is proved to do.                                           *)
(***************************************************************************)
EXTENDS BlockAssembler, HeaderTree

CONSTANTS
    BlockTxs,       \* BlockTxs[b] = transactions of b, the coinbase first
    ValidTx,        \* transactions whose scripts and amounts are right
    PeerTx,         \* transactions peers may send
    RpcTx,          \* transactions accept_transaction may be called with
    Callers,        \* threads that call accept_transaction
    PeerThread,     \* the thread that handles messages of peers
    HashOrders,     \* iteration orders of hash sets that are tried
    MaxCounter,     \* bound on the entries the pool has made
    MaxTasks        \* bound on the length of the channel

VARIABLES
    stored, best,   \* blocks in storage, the best of them
    pool,           \* the memory pool
    verifying,      \* verifying_transactions, oldest first
    orphans,        \* the orphan transactions pool
    doNotRelay,     \* transactions not to relay once verified
    synchronizing,  \* the client is in State::Synchronizing
    outbox,         \* [thread -> transactions it has still to send to the verifier]
    channel,        \* tasks sent to the verification thread
    subtasks,       \* tasks execute_single_task has queued for itself
    sinks,          \* [Tx -> the caller whose sink is registered, or NoCaller]
    waiting,        \* [Callers -> the transaction the caller waits for, or Null]
    panicked        \* the assertion that stopped a thread, "none" if all run

vars == <<stored, best, pool, verifying, orphans, doNotRelay, synchronizing,
          outbox, channel, subtasks, sinks, waiting, panicked>>

NoCaller == "none"
Threads == Callers \cup {PeerThread}

TxsOf(b) == ToSet(BlockTxs[b])
Coinbases == {BlockTxs[b][1] : b \in Blocks}

\* Transactions of the best chain, outputs it has spent, transactions with a row in the database.
CanonTxs(b) == UNION {TxsOf(c) : c \in Ancestors[b]}
CanonSpent(b) == UNION {Prevouts(t) : t \in CanonTxs(b)}
StoredTxs == UNION {TxsOf(c) : c \in stored}

NoOrphans == [order |-> <<>>, unknown |-> [t \in Tx |-> {}], byParent |-> [h \in Hashes |-> {}]]

Init ==
    /\ stored = {Genesis} /\ best = Genesis
    /\ pool = NewPool /\ verifying = <<>> /\ orphans = NoOrphans
    /\ doNotRelay = {} /\ synchronizing = FALSE
    /\ outbox = [th \in Threads |-> <<>>] /\ channel = <<>> /\ subtasks = <<>>
    /\ sinks = [t \in Tx |-> NoCaller] /\ waiting = [c \in Callers |-> Null]
    /\ panicked = "none"

-----------------------------------------------------------------------------
\* OrphanTransactionsPool.

IsOrphan(orph, t) == t \in ToSet(orph.order)

InsertOrphan(orph, t, unknown) ==
    [order |-> Append(orph.order, t),
     unknown |-> [orph.unknown EXCEPT ![t] = unknown],
     byParent |-> [h \in Hashes |-> IF h \in unknown THEN orph.byParent[h] \cup {t} ELSE orph.byParent[h]]]

\* The children of h are told that h is known; those that wait for nothing else leave.
ReleaseChildren(orph, hashOrder, h) ==
    LET children == orph.byParent[h] \cap ToSet(orph.order)
        unknown == [t \in Tx |-> IF t \in children THEN orph.unknown[t] \ {h} ELSE orph.unknown[t]]
        free == SelectSeq(hashOrder, LAMBDA t : t \in children /\ unknown[t] = {})
    IN  [pool |-> [order |-> SelectSeq(orph.order, LAMBDA t : t \notin ToSet(free)),
                   unknown |-> unknown, byParent |-> [orph.byParent EXCEPT ![h] = {}]],
         free |-> free]

\* remove_transactions_for_parent: the children of h, then theirs, and so on.
RemoveForParent(orph, hashOrder, h) ==
    LET Step(acc, i) ==
            IF i > Len(acc.queue) THEN acc
            ELSE LET r == ReleaseChildren(acc.pool, hashOrder, acc.queue[i])
                 IN  [pool |-> r.pool, queue |-> acc.queue \o r.free]
        done == FoldLeftDomain(Step, [pool |-> orph, queue |-> <<h>>],
                               [i \in 1..Cardinality(Tx) |-> i])
    IN  [pool |-> done.pool, removed |-> Tail(done.queue)]

\* remove_transactions: an orphan is dropped, and what waits only for it is dropped too.
RemoveOrphan(orph, hashOrder, t) ==
    RemoveForParent([orph EXCEPT !.order = SelectSeq(@, LAMBDA u : u # t), !.unknown[t] = {}],
                    hashOrder, t).pool

-----------------------------------------------------------------------------
\* The client core.  A context holds what its methods change.

Context == [verifying |-> verifying, orphans |-> orphans, doNotRelay |-> doNotRelay,
            tasks |-> <<>>, panicked |-> panicked]

\* transaction_state = Unknown.  A row of the database counts, on whatever branch its block is.
Unknown(ctx, p, db, h) == h \notin ToSet(ctx.verifying) /\ h \notin db /\ h \notin InPool(p)

\* verify_transaction: a LinkedHashMap moves a key that is inserted again to its end.
Verifying(seq, ts) == SelectSeq(seq, LAMBDA t : t \notin ToSet(ts)) \o ts

\* try_append_transaction once the parents are known.
AppendTransaction(ctx, hashOrder, t, relay) ==
    LET r == RemoveForParent(ctx.orphans, hashOrder, t)
        ts == <<t>> \o r.removed
    IN  IF IsOrphan(ctx.orphans, t) THEN [ctx EXCEPT !.panicked = "orphan_parent"]
        ELSE [ctx EXCEPT !.orphans = r.pool, !.verifying = Verifying(@, ts), !.tasks = @ \o ts,
                         !.doNotRelay = IF relay THEN @ ELSE @ \cup ToSet(ts)]

UnknownParents(ctx, p, db, t) == {h \in Parents(t) : Unknown(ctx, p, db, h)}

\* process_peer_transaction.
ProcessTransaction(ctx, p, db, hashOrder, t, relay) ==
    LET unknown == UnknownParents(ctx, p, db, t)
    IN  IF synchronizing \/ ctx.panicked # "none" THEN ctx
        ELSE IF unknown = {} THEN AppendTransaction(ctx, hashOrder, t, relay)
        ELSE IF IsOrphan(ctx.orphans, t) THEN [ctx EXCEPT !.panicked = "orphan_insert"]
        ELSE [ctx EXCEPT !.orphans = InsertOrphan(@, t, unknown)]

\* forget_verifying_transaction_with_children.
ForgetWithChildren(seq, t) ==
    LET Children(u) == {c \in ToSet(seq) : u \in Parents(c)}
        gone == Closure(Children, {t})
    IN  SelectSeq(seq, LAMBDA u : u \notin gone)

-----------------------------------------------------------------------------
\* Handlers.

Free(th) == outbox[th] = <<>> /\ Len(channel) < MaxTasks /\ pool.counter < MaxCounter

Commit(ctx, th) ==
    /\ verifying' = ctx.verifying /\ orphans' = ctx.orphans /\ doNotRelay' = ctx.doNotRelay
    /\ outbox' = [outbox EXCEPT ![th] = ctx.tasks]
    /\ panicked' = ctx.panicked

\* A transaction of a peer: a known one is ignored.
OnTransaction(t) ==
    /\ panicked = "none" /\ Free(PeerThread)
    /\ ~IsOrphan(orphans, t) /\ Unknown(Context, pool, StoredTxs, t)
    /\ \E ord \in HashOrders :
          Commit(ProcessTransaction(Context, pool, StoredTxs, ord, t, TRUE), PeerThread)
    /\ UNCHANGED <<stored, best, pool, synchronizing, channel, subtasks, sinks, waiting>>

\* accept_transaction of the RPC: the caller waits for its sink to be called.
AcceptTransaction(c, t) ==
    /\ panicked = "none" /\ Free(c) /\ waiting[c] = Null
    /\ ~synchronizing /\ UnknownParents(Context, pool, StoredTxs, t) = {}
    /\ \E ord \in HashOrders : Commit(AppendTransaction(Context, ord, t, TRUE), c)
    /\ sinks' = IF panicked' = "none" THEN [sinks EXCEPT ![t] = c] ELSE sinks
    /\ waiting' = [waiting EXCEPT ![c] = t]
    /\ UNCHANGED <<stored, best, pool, synchronizing, channel, subtasks>>

\* A thread hands its next transaction to the verification thread.
Send(th) ==
    /\ outbox[th] # <<>>
    /\ channel' = Append(channel, <<"tx", Head(outbox[th])>>)
    /\ outbox' = [outbox EXCEPT ![th] = Tail(@)]
    /\ UNCHANGED <<stored, best, pool, verifying, orphans, doNotRelay, synchronizing,
                   subtasks, sinks, waiting, panicked>>

\* A block arrives whose parent is stored or will be when it is verified.
OnBlock(b) ==
    /\ panicked = "none" /\ Len(channel) < MaxTasks
    /\ b \notin stored /\ <<"block", b>> \notin ToSet(channel)
    /\ Parent[b] \in stored \/ <<"block", Parent[b]>> \in ToSet(channel)
    /\ channel' = Append(channel, <<"block", b>>)
    /\ UNCHANGED <<stored, best, pool, verifying, orphans, doNotRelay, synchronizing,
                   outbox, subtasks, sinks, waiting, panicked>>

\* The management thread drops the oldest orphan.
ManageOrphanedTransactions ==
    /\ panicked = "none" /\ orphans.order # <<>>
    /\ \E ord \in HashOrders : orphans' = RemoveOrphan(orphans, ord, Head(orphans.order))
    /\ UNCHANGED <<stored, best, pool, verifying, doNotRelay, synchronizing, outbox,
                   channel, subtasks, sinks, waiting, panicked>>

\* The client learns of more blocks, or of no more.
SwitchState ==
    /\ synchronizing' = ~synchronizing
    /\ UNCHANGED <<stored, best, pool, verifying, orphans, doNotRelay, outbox,
                   channel, subtasks, sinks, waiting, panicked>>

-----------------------------------------------------------------------------
\* The verification thread.

\* MemoryPoolTransactionOutputProvider: an output is looked up in the pool and in storage, but
\* not those of the transactions this one would replace.
Available(t, o) ==
    /\ o \notin DependentSpends(pool, t)
    /\ o[1] \in InPool(pool) \cup CanonTxs(best) /\ o \in Outpoints(o[1])

IsSpent(t, o) == o \notin DoubleSpends(pool, t) /\ o \in CanonSpent(best)

VerifiesTransaction(t) ==
    /\ ~FinalDoubleSpend(pool, t)
    /\ \A o \in Prevouts(t) : Available(t, o) /\ ~IsSpent(t, o)
    /\ t \in ValidTx
    /\ InputValue(pool, CanonTxs(best), t) >= OutputValue(t)

\* The sink of t is called: its caller wakes up.
Answer(t) ==
    /\ sinks' = [sinks EXCEPT ![t] = NoCaller]
    /\ waiting' = [c \in Callers |-> IF sinks[t] = c THEN Null ELSE waiting[c]]

\* on_transaction_verification_success; what the transaction replaces leaves the pool first.
TransactionVerified(t) ==
    /\ doNotRelay' = doNotRelay \ {t}
    /\ IF t \notin ToSet(verifying)
       THEN UNCHANGED <<pool, verifying, sinks, waiting, panicked>>
       ELSE /\ verifying' = SelectSeq(verifying, LAMBDA u : u # t)
            /\ \E ord \in HashOrders :
                  pool' = InsertVerified(RemoveByPrevouts(pool, t), CanonTxs(best), ord, t)
            /\ panicked' = IF pool'.fault = "none" THEN panicked ELSE pool'.fault
            /\ Answer(t)
    /\ UNCHANGED <<stored, best, orphans, synchronizing>>

\* Mutant: a rejected transaction stays in the list.
TransactionRejectedKept(t) ==
    /\ doNotRelay' = doNotRelay \ {t}
    /\ Answer(t)
    /\ UNCHANGED <<stored, best, pool, verifying, orphans, synchronizing, panicked>>

\* on_transaction_verification_error.
TransactionRejected(t) ==
    /\ doNotRelay' = doNotRelay \ {t}
    /\ verifying' = ForgetWithChildren(verifying, t)
    /\ Answer(t)
    /\ UNCHANGED <<stored, best, pool, orphans, synchronizing, panicked>>

VerifyTransaction(t) ==
    \/ VerifiesTransaction(t) /\ TransactionVerified(t)
    \/ ~VerifiesTransaction(t) /\ TransactionRejected(t)

\* Mutant: transactions that spend what the block spends stay.
RemoveMinedOnly(p, b) == FoldLeft(RemoveByHash, p, BlockTxs[b])

\* A block on top of the best one: its transactions leave the pool and the verifying
\* ones, and so does whatever spends the same outputs.
RemoveMined(p, b) ==
    FoldLeft(LAMBDA q, t : RemoveByPrevouts(RemoveByHash(q, t), t), p, BlockTxs[b])

CanonBlock(b) ==
    /\ stored' = stored \cup {b} /\ best' = b
    /\ pool' = RemoveMined(pool, b)
    /\ verifying' = SelectSeq(verifying, LAMBDA t : t \notin TxsOf(b))
    /\ panicked' = IF pool'.fault = "none" THEN panicked ELSE pool'.fault
    /\ UNCHANGED <<orphans, doNotRelay, subtasks>>

\* The blocks from the fork point to the best block, lowest first, and the other way round.
Route(from, to) ==
    SetToSortSeq(Ancestors[to] \ Ancestors[from], LAMBDA c, d : Height[c] < Height[d])

TxsOfRoute(route) == FoldLeft(LAMBDA acc, c : acc \o BlockTxs[c], <<>>, route)

\* Mutant: verifying transactions are dropped.
ReverifyDropped(blockTxs, poolTxs, verifyingTxs) == blockTxs \o poolTxs
\* transactions_to_reverify.
Reverify(blockTxs, poolTxs, verifyingTxs) == blockTxs \o poolTxs \o verifyingTxs

\* A reorganization: the pool is emptied and its transactions are verified again, after
\* those of the blocks that left the chain and before those that were verifying.
\* The pool is drained by what is left once the new chain's transactions are gone.
ReorgBlock(b) ==
    LET mined == ToSet(TxsOfRoute(Route(best, b)))
        left == RemoveAll(pool, mined)
        drained == RemoveNWithStrategy(left, Cardinality(InPool(left)), "ByTimestamp")
        still == SelectSeq(verifying, LAMBDA t : t \notin mined)
        again == Reverify(TxsOfRoute(Route(b, best)), drained.removed, still)
        db == StoredTxs \cup TxsOf(b)
        cleared == [Context EXCEPT !.verifying = <<>>,
                       !.panicked = IF drained.pool.fault = "none" THEN @ ELSE drained.pool.fault]
    IN  /\ stored' = stored \cup {b} /\ best' = b /\ pool' = drained.pool
        /\ \E ord \in HashOrders :
              LET ctx == FoldLeft(LAMBDA acc, t :
                                    ProcessTransaction(acc, drained.pool, db, ord, t, FALSE),
                                  cleared, again)
              IN  /\ verifying' = ctx.verifying /\ orphans' = ctx.orphans
                  /\ doNotRelay' = ctx.doNotRelay /\ panicked' = ctx.panicked
                  /\ subtasks' = ctx.tasks

SideBlock(b) ==
    /\ stored' = stored \cup {b}
    /\ UNCHANGED <<best, pool, verifying, orphans, doNotRelay, panicked, subtasks>>

\* on_block_verification_success with insert_best_block.
VerifyBlock(b) ==
    /\ \/ Parent[b] = best /\ CanonBlock(b)
       \/ Parent[b] # best /\ Height[b] > Height[best] /\ ReorgBlock(b)
       \/ Parent[b] # best /\ Height[b] <= Height[best] /\ SideBlock(b)
    /\ UNCHANGED <<synchronizing, sinks, waiting>>

\* execute_single_task: its own subtasks come before the next task of the channel.
Subtask ==
    /\ panicked = "none" /\ subtasks # <<>>
    /\ subtasks' = Tail(subtasks)
    /\ VerifyTransaction(Head(subtasks))
    /\ UNCHANGED <<outbox, channel>>

Task ==
    /\ panicked = "none" /\ subtasks = <<>> /\ channel # <<>>
    /\ channel' = Tail(channel)
    /\ LET item == Head(channel)[2]
       IN  \/ Head(channel)[1] = "tx" /\ VerifyTransaction(item) /\ UNCHANGED subtasks
           \/ Head(channel)[1] = "block" /\ VerifyBlock(item)
    /\ UNCHANGED outbox

-----------------------------------------------------------------------------
Next ==
    \/ \E t \in PeerTx : OnTransaction(t)
    \/ \E c \in Callers, t \in RpcTx : AcceptTransaction(c, t)
    \/ \E th \in Threads : Send(th)
    \/ \E b \in Blocks : OnBlock(b)
    \/ ManageOrphanedTransactions
    \/ SwitchState
    \/ Subtask
    \/ Task

Spec == Init /\ [][Next]_vars

\* Threads send what they have to send, and the verification thread takes its tasks: it is
\* weakly fair.  Only it shortens its two queues, which tells its steps from all others.
TakesTask == Len(channel') < Len(channel) \/ Len(subtasks') < Len(subtasks)
HasTask == panicked = "none" /\ (subtasks # <<>> \/ channel # <<>>)

FairSpec ==
    /\ Spec
    /\ []<>~HasTask \/ []<><<TakesTask>>_vars
    /\ \A th \in Threads : WF_vars(Send(th))

-----------------------------------------------------------------------------
\* Type invariant of the variables.
TypeOK ==
    /\ stored \subseteq Blocks /\ best \in stored
    /\ IsStorage(pool)
    /\ IsInjective(verifying) /\ ToSet(verifying) \subseteq Tx
    /\ ToSet(orphans.order) \subseteq Tx /\ doNotRelay \subseteq ToSet(subtasks)
    /\ synchronizing \in BOOLEAN
    /\ \A th \in Threads : ToSet(outbox[th]) \subseteq Tx
    /\ ToSet(subtasks) \subseteq Tx
    /\ \A i \in DOMAIN channel : channel[i] \in ({"tx"} \X Tx) \cup ({"block"} \X Blocks)
    /\ sinks \in [Tx -> Callers \cup {NoCaller}] /\ waiting \in [Callers -> Tx \cup {Null}]
    /\ panicked \in {"none", "orphan_parent", "orphan_insert", "by_input", "double_spend", "not_spent"}

Ordered(p) == {k.hash : k \in p.refs.byTime}

\* What a pool keeps twice agrees.
Agrees(p) ==
    /\ DOMAIN p.byPrevout = UNION {Prevouts(t) : t \in InPool(p)}
    /\ \A t \in InPool(p) : \A o \in Prevouts(t) : p.byPrevout[o] = t
    /\ p.bytes = Sum(TxSize, InPool(p))
    /\ p.refs.pending = InPool(p) \ Ordered(p)
    /\ p.refs.byTime = {TimeKey(t, p.byHash[t]) : t \in Ordered(p)}
    /\ p.refs.byScore = {ScoreKey(t, p.byHash[t]) : t \in Ordered(p)}
    /\ p.refs.byPackage = {PackageKey(t, p.byHash[t]) : t \in Ordered(p)}

\* What the pool keeps twice agrees: the index of spent outputs is that of the inputs of its
\* transactions, the size is the sum of theirs, a transaction is either pending or
\* in all three orderings, and there with the key its entry now has. A virtual fee
\* set for any transaction leaves it so.
IndexesAgree ==
    panicked = "none" =>
        Agrees(pool) /\ \A t \in InPool(pool) : Agrees(SetVirtualFee(pool, t, 1))

\* Iterating over the pool and removing from it in the order of a strategy give the same transactions in the
\* same order, every one of them, and none before a parent of it.
IterationIsRemoval ==
    panicked = "none" =>
        \A s \in Strategies :
            LET n == Cardinality(InPool(pool))
                order == Iterate(pool, s, n)
            IN  /\ order = RemoveNWithStrategy(pool, n, s).removed
                /\ ToSet(order) = InPool(pool)
                /\ \A i, j \in 1..n : order[i] \in Parents(order[j]) => i < j

\* A transaction is held back exactly while a parent of it is in the pool, and the pool then still knows
\* it as a child of that parent: removing the parent will release it.
PendingIsReleasable ==
    panicked = "none" =>
        /\ \A t \in pool.refs.pending : \E q \in Parents(t) \cap InPool(pool) : t \in pool.refs.byInput[q]
        /\ \A t \in Ordered(pool) : Parents(t) \cap InPool(pool) = {}

\* Every transaction of the pool could be mined: it is not in the best chain, and what it spends is
\* an output of the chain nobody has spent there or an output of the pool.
PoolIsSupported ==
    panicked = "none" =>
        /\ InPool(pool) \cap CanonTxs(best) = {}
        /\ \A t \in InPool(pool) : \A o \in Prevouts(t) :
              o[1] \in InPool(pool) \cup CanonTxs(best) /\ o \notin CanonSpent(best)

\* A transaction marked as being verified has a task for it somewhere, else it would be
\* ignored for ever.
VerifyingIsScheduled ==
    panicked = "none" =>
        \A t \in ToSet(verifying) :
            \/ t \in ToSet(subtasks) \/ <<"tx", t>> \in ToSet(channel)
            \/ \E th \in Threads : t \in ToSet(outbox[th])

\* An orphan waits for something, and is found from whatever it waits for.
OrphansAreReachable ==
    /\ IsInjective(orphans.order)
    /\ \A t \in ToSet(orphans.order) :
          orphans.unknown[t] # {} /\ \A h \in orphans.unknown[t] : t \in orphans.byParent[h]

\* A block made from the pool keeps to the limits of size and signature operations, and its coinbase
\* claims the reward and the fees of what was taken, which a transaction of the pool pays.
TemplateIsValid ==
    LET template == CreateNewBlock(pool, Tx)
        txs == ToSet(template.txs)
    IN  panicked = "none" =>
          /\ IsInjective(template.txs) /\ txs \subseteq InPool(pool)
          /\ HeaderSize + Sum(TxSize, txs) <= MaxBlockSize
          /\ Sum(Sigops, txs) <= MaxBlockSigops
          /\ template.coinbase - BlockReward = Sum([t \in txs |-> InputValue(pool, CanonTxs(best), t) - OutputValue(t)], txs)

\* A reorganization loses no transaction of the pool, none that was verifying and none of the blocks that
\* leave the chain: each is in the new chain or is verified again, or waits as an orphan.
Keeps ==
    (best \notin Ancestors[best'] /\ ~synchronizing /\ panicked' = "none") =>
        (InPool(pool) \cup ToSet(verifying) \cup CanonTxs(best))
            \subseteq (CanonTxs(best') \cup ToSet(verifying') \cup ToSet(orphans'.order))

\* What a reorganization verifies again comes after those of its parents that are verified again with it,
\* unless it waited as an orphan.
ParentsFirst ==
    \A i, j \in DOMAIN subtasks' :
        (subtasks'[i] \in Parents(subtasks'[j]) /\ ~IsOrphan(orphans, subtasks'[j])) =>
            \E k \in 1..j : subtasks'[k] = subtasks'[i]

\* A reorganization (insert_best_block, on_block_verification_success) keeps the transactions it
\* displaces and verifies them again parents first.
ReorgKeepsTransactions == [][best' # best => Keeps /\ ParentsFirst]_vars

\* A transaction does not stay in verification.
VerificationEnds ==
    \A t \in Tx : t \in ToSet(verifying) ~> (t \notin ToSet(verifying) \/ panicked # "none")

\* What is kept twice agrees: the indices of the memory pool with its entries, held back transactions
\* with their parents, the orphans with what they wait for, the verifying transactions with the tasks of
\* the verification thread; and iteration with removal.
PoolAgrees ==
    /\ TypeOK /\ IndexesAgree /\ PendingIsReleasable /\ IterationIsRemoval
    /\ OrphansAreReachable /\ VerifyingIsScheduled

\* What the pool holds could be mined, and the block made from it keeps to the limits and claims its fees.
PoolIsMinable == PoolIsSupported /\ TemplateIsValid

\* Stated by the assertions of the orphan and the memory pool, and not always kept: a transaction enters
\* the orphan pool once and is no orphan when its children are released, and whatever the pool's
\* references name is in the pool.
NeverPanics == panicked = "none"

\* Not always kept: a call of accept_transaction returns, its sink is called when the verification has ended.
AcceptReturns ==
    \A c \in Callers : waiting[c] # Null ~> (waiting[c] = Null \/ panicked # "none")
=============================================================================
