---------------------------- MODULE ChainQueries ----------------------------
(***************************************************************************)
(* The readers of the block store: the RPC calls getblock, gettxout,       *)
(* getrawtransaction and getdifficulty (rpc/src/v1/impls) and the block    *)
(* template (sync/src/local_node.rs).  Each of them reads the store        *)
(* several times and takes no lock between two reads, while the            *)
(* verification thread inserts blocks: the best chain may grow or be       *)
(* reorganised in the middle of a call.  Moreover the write that flushes   *)
(* the buffer first drains it, so that until the batch is on disk readers  *)
(* see the store as the previous flush left it, but for the headers, which *)
(* are cached.  Reads change nothing: one call at a time is enough.        *)
(***************************************************************************)
EXTENDS BlockChainDb

CONSTANTS
    QueryBlocks,   \* the blocks and
    QueryTxs       \* the transactions that are asked for

ASSUME QueryAssumption == QueryBlocks \subseteq Blocks /\ QueryTxs \subseteq Tx

VARIABLES
    flush,   \* the flush the writing thread is in
    query    \* the call in progress, or just answered, and its local variables

qvars == <<vars, flush, query>>

NoFlush == [phase |-> "none", disk |-> EmptyColumns, locked |-> FALSE]

Queries ==
    [pc            : {"idle", "number", "meta", "header", "best", "next", "bits", "assemble",
                      "raw", "done", "refused", "vanished", "failed"},
     kind          : {"none", "block", "tx", "difficulty", "template"},
     block         : Blocks \cup {NoHash},   \* whose header was read
     tx            : Tx \cup {NoHash},
     whole         : BOOLEAN,                \* the block was read with all transactions
     height        : -1..MaxHeight,
     confirmations : -1..(MaxHeight + 1),
     next          : Blocks \cup {NoHash},   \* nextblockhash, the parent of a template
     reorg         : BOOLEAN,                \* history: a block left the best chain
     drained       : BOOLEAN]                \* history: a flush had the buffer

NoQuery ==
    [pc |-> "idle", kind |-> "none", block |-> NoHash, tx |-> NoHash, whole |-> FALSE,
     height |-> -1, confirmations |-> -1, next |-> NoHash, reorg |-> FALSE, drained |-> FALSE]

Ended == query.pc \in {"idle", "raw", "done", "refused", "vanished", "failed"}

-----------------------------------------------------------------------------
(* The providers of the store.  None is NoHash for a hash, -1 for a height. *)

\* What get() finds: while the buffer is drained, the disk before the flush.
Seen == IF flush.phase = "drained" THEN flush.disk ELSE db

\* The lock of best_block is not held by a writer.
Unlocked == flush.phase = "none" \/ ~flush.locked

\* Mutant: the best block is read from the database.
BestBlockOfMeta == Seen.best

\* best_block: the copy in memory.
BestBlock == db.best

BlockNumber(b) == Seen.numbers[b]

BlockHash(n) == IF n \in 0..MaxHeight THEN Seen.hashes[n] ELSE NoHash

\* By hash from the cache, by number through the index.
HasHeader(b) == b \in db.stored

BlockHeader(n) == IF HasHeader(BlockHash(n)) THEN BlockHash(n) ELSE NoHash

\* block() finds the list of the block's transactions, and each of them.
BlockIsWhole(b) == b \in Seen.stored /\ TxsOf(b) \subseteq TxsAt(b, Body(Seen, b))

HasTransaction(t) == t \in Seen.txs

TransactionMeta(t) == Seen.height[t]

-----------------------------------------------------------------------------
Query(q) ==
    /\ query' = [q EXCEPT !.drained = @ \/ flush.phase = "drained"]
    /\ UNCHANGED <<vars, flush>>

\* A call can begin once init_db is through.
Begins ==
    /\ Ended
    /\ db.hashes[0] # NoHash
    /\ flush.locked => db.best.hash # Genesis

\* getblock: block(hash) first, which is all of an answer that is not verbose.
GetBlock(b, verbose) ==
    /\ Begins
    /\ Query(IF HasHeader(b)
             THEN [NoQuery EXCEPT !.pc = IF verbose THEN "number" ELSE "raw", !.kind = "block",
                                  !.block = b, !.whole = BlockIsWhole(b)]
             ELSE [NoQuery EXCEPT !.pc = "refused", !.kind = "block"])

\* The block's number in the best chain.  Without one it has -1 confirmations.
ReadNumber ==
    /\ query.pc = "number"
    /\ Query([query EXCEPT !.height = BlockNumber(query.block),
                           !.pc = IF BlockNumber(query.block) = -1 THEN "done" ELSE "best"])

\* gettxout: the transaction, which may be that of a side block, and its output.
VerboseTransactionOut(t, hasOutput) ==
    /\ Begins
    /\ Query(IF HasTransaction(t) /\ hasOutput
             THEN [NoQuery EXCEPT !.pc = "meta", !.kind = "tx", !.tx = t]
             ELSE [NoQuery EXCEPT !.pc = "refused", !.kind = "tx"])

\* getrawtransaction: its bytes, or the bytes and what gettxout looks up.
GetRawTransaction(t, verbose) ==
    /\ Begins
    /\ Query(IF HasTransaction(t)
             THEN [NoQuery EXCEPT !.pc = IF verbose THEN "meta" ELSE "raw",
                                  !.kind = "tx", !.tx = t]
             ELSE [NoQuery EXCEPT !.pc = "refused", !.kind = "tx"])

\* A transaction without metadata is one of a side branch.
ReadMeta ==
    /\ query.pc = "meta"
    /\ Query([query EXCEPT !.height = TransactionMeta(query.tx),
                           !.pc = IF TransactionMeta(query.tx) = -1 THEN "refused" ELSE "header"])

\* get_block_template: the number of the best block.
GetBlockTemplate ==
    /\ Begins /\ Unlocked
    /\ Query([NoQuery EXCEPT !.pc = "header", !.kind = "template", !.height = BestBlock.number])

\* The header at that height, of whichever chain is the best one now.  A transaction
\* is "not found" without it; the template expects it.
ReadHeader ==
    /\ query.pc = "header"
    /\ Query([query EXCEPT !.block = BlockHeader(query.height),
                           !.pc = CASE BlockHeader(query.height) # NoHash ->
                                          IF query.kind = "tx" THEN "best" ELSE "assemble"
                                    [] OTHER ->
                                          IF query.kind = "tx" THEN "vanished" ELSE "failed"])

Confirmations(n) == BestBlock.number - n + 1

\* gettxout and getrawtransaction check that the best block is not below the
\* height; getblock subtracts the two u32 as they are.
ReadBest ==
    /\ query.pc = "best" /\ Unlocked
    /\ Query(IF BestBlock.number < query.height
             THEN [query EXCEPT !.pc = IF query.kind = "tx" THEN "vanished" ELSE "failed"]
             ELSE [query EXCEPT !.confirmations = Confirmations(query.height),
                                !.pc = IF query.kind = "tx" THEN "done" ELSE "next"])

ReadNext ==
    /\ query.pc = "next"
    /\ Query([query EXCEPT !.next = BlockHash(query.height + 1), !.pc = "done"])

\* getdifficulty: the best block, then its header, by hash.
Difficulty ==
    /\ Begins /\ Unlocked
    /\ Query([NoQuery EXCEPT !.pc = "bits", !.kind = "difficulty", !.block = BestBlock.hash])

ReadBits ==
    /\ query.pc = "bits"
    /\ Query([query EXCEPT !.pc = IF HasHeader(query.block) THEN "done" ELSE "failed"])

\* create_new_block asks for the best block again: it is the template's parent.
CreateNewBlock ==
    /\ query.pc = "assemble" /\ Unlocked
    /\ Query([query EXCEPT !.next = BestBlock.hash, !.pc = "done"])

QueryStep ==
    \/ \E b \in QueryBlocks, verbose \in BOOLEAN : GetBlock(b, verbose)
    \/ \E t \in QueryTxs, hasOutput \in BOOLEAN : VerboseTransactionOut(t, hasOutput)
    \/ \E t \in QueryTxs, verbose \in BOOLEAN : GetRawTransaction(t, verbose)
    \/ GetBlockTemplate \/ Difficulty
    \/ ReadNumber \/ ReadMeta \/ ReadHeader \/ ReadBest \/ ReadNext \/ ReadBits
    \/ CreateNewBlock

-----------------------------------------------------------------------------
\* A step of the writing thread.  One that flushes has drained the buffer before
\* the batch is on disk, and holds the lock of the best block if it changes it.
WriterStep ==
    /\ flush.phase = "none"
    /\ Step
    /\ flush' = IF disk' = disk THEN NoFlush
                ELSE [phase |-> "written", disk |-> disk, locked |-> db'.best # db.best]
    /\ query' = IF Ended THEN NoQuery
                ELSE [query EXCEPT !.reorg = @ \/ db.best.hash \notin ChainOf(db'.best.hash)]

\* The phases of a flush: overlay.write, drain_transaction, the write to the disk.
FlushStep ==
    /\ flush.phase # "none"
    /\ flush' = IF flush.phase = "written" THEN [flush EXCEPT !.phase = "drained"] ELSE NoFlush
    /\ UNCHANGED <<vars, query>>

\* With the process ends the call.
ProcessEnds ==
    /\ (Restart /\ flush.phase = "none") \/ Crash
    /\ flush' = NoFlush
    /\ query' = NoQuery

QueryInit == Init /\ flush = NoFlush /\ query = NoQuery

QueryNext == WriterStep \/ FlushStep \/ ProcessEnds \/ QueryStep

(***************************************************************************)
(* The fairness of the store alone: an operation that has begun, and a     *)
(* flush, run to their end, and blocks are offered again and again.        *)
(***************************************************************************)
QueryFairSpec ==
    /\ QueryInit /\ [][QueryNext]_qvars
    /\ WF_qvars(WriterStep) /\ WF_qvars(FlushStep)
    /\ \A b \in Blocks : SF_qvars(WriterStep /\ BeginInsert(b))

-----------------------------------------------------------------------------
QueryTypeOK ==
    /\ query \in Queries
    /\ flush.phase \in {"none", "written", "drained"} /\ flush.disk \in Columns

\* What a call answers about a chain that was only extended, and not flushed,
\* while the call ran.
Exact ==
    /\ query.kind = "block" =>
          /\ query.height # -1 /\ query.next = NoHash => query.confirmations = 1
          /\ query.next # NoHash => Parent[query.next] = query.block
    /\ query.kind = "tx" => query.tx \in TxsOf(query.block)
    /\ query.kind = "template" => query.block \in ChainOf(query.next)

(* Reads that take no lock in between still answer about one chain.  The      *)
(* subtraction of getblock (rpc/src/v1/impls/blockchain.rs:78) never          *)
(* underflows, whatever is canonized, reorganised or flushed between the two   *)
(* reads; an answer has at least one confirmation, and its block the height    *)
(* it was computed from.  Unless a flush had the buffer in the meantime, a     *)
(* block comes with all its transactions, a transaction with metadata is found *)
(* and the header a template expects is there; and if no block left the chain  *)
(* either, the answer is exact.                                                *)
QueriesAreConsistent ==
    /\ QueryTypeOK
    /\ query.pc = "failed" => query.kind = "template" /\ query.drained
    /\ query.pc = "vanished" => query.drained
    /\ query.pc \in {"raw", "done"} /\ query.kind = "block" => query.whole \/ query.drained
    /\ query.pc = "done" =>
          /\ query.height # -1 => Height[query.block] = query.height
          /\ query.height # -1 /\ query.kind \in {"block", "tx"} => query.confirmations >= 1
          /\ ~query.reorg /\ ~query.drained => Exact

(* "best block is in db; qed" (sync/src/local_node.rs:252): the header a       *)
(* template expects is there.  A flush that drains the buffer between the two   *)
(* reads refutes it.                                                           *)
BestBlockIsInDb == query.pc # "failed"
=============================================================================
