---------------------------- MODULE BlockChainDb ----------------------------
(***************************************************************************)
(* BlockChainDatabase (db/src/block_chain_db.rs): the block store, the     *)
(* index of the canonical chain and the metadata of its transactions, over *)
(* a key-value store that buffers writes in memory and flushes them in     *)
(* batches.  The writer is the insertion of one verified block, as         *)
(* Chain::insert_best_block drives it: it looks up the block's origin,     *)
(* then appends the block, stores it on a side branch, or builds a fork    *)
(* overlay step by step and switches to it.  The process may be stopped    *)
(* (the buffer is flushed) or killed (the buffer is lost) at any point.    *)
(*                                                                         *)
(* A block that block verification rejects never reaches the database:     *)
(* here Blocks are the valid blocks.                                       *)
(***************************************************************************)
EXTENDS HeaderTree

-----------------------------------------------------------------------------
(* The transactions of each block and the outputs every transaction spends. *)

CONSTANTS
    Tx,         \* transaction hashes
    BlockTxs,   \* BlockTxs[b] = transactions of b, the coinbase first
    Prevouts    \* Prevouts[t] = outpoints spent by the inputs of t

Outpoint == [hash : Tx, index : Nat]

TxsOf(b) == {BlockTxs[b][i] : i \in DOMAIN BlockTxs[b]}

\* Outputs spent by a block: the coinbase input spends nothing.
InputsOf(b) == UNION {Prevouts[BlockTxs[b][i]] : i \in 2..Len(BlockTxs[b])}

ASSUME TxAssumption ==
    /\ BlockTxs \in [Blocks -> Seq(Tx)]
    /\ Prevouts \in [Tx -> SUBSET Outpoint]
    /\ \A b \in Blocks : Len(BlockTxs[b]) > 0
    /\ \A b \in Blocks : \A i, j \in 1..Len(BlockTxs[b]) :
           BlockTxs[b][i] = BlockTxs[b][j] => i = j

(***************************************************************************)
(* What block verification has established of every block: an input spends *)
(* an output of an ancestor block or of an earlier transaction of the same *)
(* block, nothing is spent twice along a chain, and no transaction is      *)
(* repeated along a chain.                                                 *)
(***************************************************************************)
ASSUME ValidityAssumption ==
    /\ \A b \in Blocks : \A i \in 2..Len(BlockTxs[b]) :
         \A o \in Prevouts[BlockTxs[b][i]] :
            \/ \E c \in Strict(b) : o.hash \in TxsOf(c)
            \/ \E k \in 1..(i - 1) : BlockTxs[b][k] = o.hash
    /\ \A b \in Blocks : \A i, j \in 2..Len(BlockTxs[b]) :
         i # j => Prevouts[BlockTxs[b][i]] \cap Prevouts[BlockTxs[b][j]] = {}
    /\ \A b \in Blocks : \A c \in Strict(b) :
         /\ InputsOf(b) \cap InputsOf(c) = {}
         /\ TxsOf(b) \cap TxsOf(c) = {}

-----------------------------------------------------------------------------
(* The reference ledger: what the transaction metadata of a chain must be,   *)
(* read off the blocks of the chain as a set, with no canonization,          *)
(* decanonization or order of events in it.                                  *)

\* The reference ledger of the chain that ends in h.  NoHash is the empty chain.
ChainOf(h) == IF h = NoHash THEN {} ELSE Ancestors[h]

LedgerTxs(h) == UNION {TxsOf(c) : c \in ChainOf(h)}

LedgerCoinbase(h) == {BlockTxs[c][1] : c \in ChainOf(h)}

LedgerSpent(h) == UNION {InputsOf(c) : c \in ChainOf(h)}

-----------------------------------------------------------------------------

CONSTANTS
    MaxForkRoute,     \* MAX_FORK_ROUTE_PRESET
    FlushEvery,       \* max_operations of AutoFlushingOverlayDatabase
    RollbackEnabled   \* whether the `pbtc rollback` command is ever run

ASSUME DbAssumption ==
    /\ MaxForkRoute \in Nat
    /\ FlushEvery \in Nat \ {0}
    /\ RollbackEnabled \in BOOLEAN

VARIABLES
    db,      \* the columns as a reader sees them: buffer over disk
    disk,    \* the columns RocksDB holds
    writes,  \* AutoFlushingOverlayDatabase::operations
    fork,    \* the columns as seen through the overlay of the fork being built
    task     \* the operation in progress and its local variables

vars == <<db, disk, writes, fork, task>>

(***************************************************************************)
(* The columns.  `best` is the pair of Meta keys, which the in-memory      *)
(* best_block mirrors under its lock.  A TransactionMeta is spread over    *)
(* three fields: the height it was created at (-1: no metadata), whether   *)
(* it is a coinbase, and the outputs whose spent bit is set.               *)
(***************************************************************************)
Columns ==
    [stored   : SUBSET Blocks,
     txs      : SUBSET Tx,
     hashes   : [0..MaxHeight -> Blocks \cup {NoHash}],
     numbers  : [Blocks -> -1..MaxHeight],
     best     : [hash : Blocks \cup {NoHash}, number : 0..MaxHeight],
     height   : [Tx -> -1..MaxHeight],
     coinbase : SUBSET Tx,
     spent    : SUBSET Outpoint]

EmptyColumns ==
    [stored   |-> {},
     txs      |-> {},
     hashes   |-> [n \in 0..MaxHeight |-> NoHash],
     numbers  |-> [b \in Blocks |-> -1],
     best     |-> [hash |-> NoHash, number |-> 0],
     height   |-> [t \in Tx |-> -1],
     coinbase |-> {},
     spent    |-> {}]

-----------------------------------------------------------------------------
(***************************************************************************)
(* Operations on the columns.  block() drops the transactions it cannot    *)
(* find, so a block read back from the store is the set of positions whose *)
(* transaction is present; its first transaction is taken for the coinbase.*)
(***************************************************************************)
Body(d, b) == {i \in DOMAIN BlockTxs[b] : BlockTxs[b][i] \in d.txs}

SkipFirst(P) == {i \in P : \E j \in P : j < i}

TxsAt(b, P) == {BlockTxs[b][i] : i \in P}

\* Mutant: decanonize does not clear the spent bits of the inputs.
InputsStaySpent(b, P) == {}

InputsAt(b, P) == UNION {Prevouts[BlockTxs[b][i]] : i \in SkipFirst(P)}

\* A transaction's fresh metadata is inserted when its turn comes, so a bit
\* set before that is lost.
BitsSet(b, P) ==
    UNION {{o \in Prevouts[BlockTxs[b][i]] :
               \A k \in P : k > i => BlockTxs[b][k] # o.hash} : i \in SkipFirst(P)}

Insert(d, b) ==
    IF b \in d.stored THEN d
    ELSE [d EXCEPT !.stored = @ \cup {b}, !.txs = @ \cup TxsOf(b)]

CanInsert(d, b) == b \in d.stored \/ Parent[b] \in d.stored \/ Parent[b] = NoHash

CanCanonize(d, b) ==
    /\ b \in d.stored
    /\ d.best.hash = Parent[b]
    /\ Parent[b] = NoHash => d.best.number = 0
    /\ \A i \in SkipFirst(Body(d, b)) : \A o \in Prevouts[BlockTxs[b][i]] :
          \/ d.height[o.hash] # -1
          \/ \E k \in Body(d, b) : k <= i /\ BlockTxs[b][k] = o.hash

Canonize(d, b) ==
    LET P == Body(d, b)
        n == IF Parent[b] = NoHash THEN 0 ELSE d.best.number + 1
    IN  [d EXCEPT
           !.hashes   = [@ EXCEPT ![n] = b],
           !.numbers  = [@ EXCEPT ![b] = n],
           !.best     = [hash |-> b, number |-> n],
           !.height   = [t \in Tx |-> IF t \in TxsAt(b, P) THEN n ELSE @[t]],
           !.coinbase = (@ \ TxsAt(b, P)) \cup TxsAt(b, P \ SkipFirst(P)),
           !.spent    = {o \in @ : o.hash \notin TxsAt(b, P)} \cup BitsSet(b, P)]

CanDecanonize(d) ==
    /\ d.best.hash \in d.stored
    /\ d.best.number = 0 => Parent[d.best.hash] = NoHash
    /\ \A o \in InputsAt(d.best.hash, Body(d, d.best.hash)) : d.height[o.hash] # -1

Decanonize(d) ==
    LET b == d.best.hash
        P == Body(d, b)
    IN  [d EXCEPT
           !.hashes   = [@ EXCEPT ![d.best.number] = NoHash],
           !.numbers  = [@ EXCEPT ![b] = -1],
           !.best     = [hash |-> Parent[b],
                         number |-> IF d.best.number > 0 THEN d.best.number - 1 ELSE 0],
           !.height   = [t \in Tx |-> IF t \in TxsAt(b, P) THEN -1 ELSE @[t]],
           !.coinbase = @ \ TxsAt(b, P),
           !.spent    = {o \in @ \ InputsAt(b, P) : o.hash \notin TxsAt(b, P)}]

\* Mutant: the header stays.
EraseKeepsHeader(d, b) == [d EXCEPT !.txs = @ \ TxsOf(b)]

\* rollback_best's second write: the header, the list and the transactions.
Erase(d, b) == [d EXCEPT !.stored = @ \ {b}, !.txs = @ \ TxsOf(b)]

-----------------------------------------------------------------------------
Idle == [pc |-> "idle", block |-> NoHash, next |-> NoHash, route |-> << >>, down |-> << >>]

Failed == [Idle EXCEPT !.pc = "failed"]

At(pc) == task.pc = pc

Init ==
    /\ db = EmptyColumns
    /\ disk = EmptyColumns
    /\ writes = 0
    /\ fork = EmptyColumns
    /\ task = Idle

\* AutoFlushingOverlayDatabase::write: every FlushEvery-th write flushes.
Write(d) ==
    /\ db' = d
    /\ IF writes + 1 = FlushEvery
         THEN disk' = d /\ writes' = 0
         ELSE disk' = disk /\ writes' = writes + 1

NoWrite == UNCHANGED <<db, disk, writes>>

\* init_db: a store without a block 0 gets the genesis block.
InitDb ==
    /\ At("idle")
    /\ db.hashes[0] = NoHash
    /\ task' = [Idle EXCEPT !.pc = "insert", !.block = Genesis]
    /\ NoWrite /\ UNCHANGED fork

\* insert_best_block up to the cases of block_origin that need no walk.  A
\* block whose parent is not stored is refused and changes nothing.
BeginInsert(b) ==
    /\ At("idle")
    /\ db.hashes[0] # NoHash
    /\ b \notin db.stored
    /\ \/ /\ db.hashes[db.best.number] # db.best.hash
          /\ task' = Failed
       \/ /\ db.hashes[db.best.number] = db.best.hash
          /\ Parent[b] = db.best.hash
          /\ task' = [Idle EXCEPT !.pc = "insert", !.block = b]
       \/ /\ db.hashes[db.best.number] = db.best.hash
          /\ Parent[b] # db.best.hash
          /\ Parent[b] \in db.stored
          /\ task' = [Idle EXCEPT !.pc = "walk", !.block = b, !.next = Parent[b]]
    /\ NoWrite /\ UNCHANGED fork

\* Mutant: the loop has an iteration less.
CanWalkLess == Len(task.route) + 1 < MaxForkRoute

\* block_origin's loop has an iteration left.
CanWalk == Len(task.route) < MaxForkRoute

\* block_origin, an iteration that finds no number: one block further down.
WalkDown ==
    /\ At("walk")
    /\ CanWalk
    /\ db.numbers[task.next] = -1
    /\ task' = IF task.next \in db.stored /\ Parent[task.next] # NoHash
               THEN [task EXCEPT !.route = <<task.next>> \o @, !.next = Parent[task.next]]
               ELSE Failed
    /\ NoWrite /\ UNCHANGED fork

\* block_origin, out of iterations: AncientFork, the block is refused.
WalkTooLong ==
    /\ At("walk")
    /\ ~CanWalk
    /\ task' = Idle
    /\ NoWrite /\ UNCHANGED fork

\* Mutant: the fork point itself is decanonized, too.
DecanonizedRouteTooLong(ancestor) ==
    [n \in {m \in ancestor..db.best.number : db.hashes[m] # NoHash} |-> db.hashes[n]]

\* The canonical blocks above the fork point, by height.
DecanonizedRoute(ancestor) ==
    [n \in {m \in (ancestor + 1)..db.best.number : db.hashes[m] # NoHash} |-> db.hashes[n]]

\* Mutant: a branch of the same height takes over.
OvertakesOnTie(ancestor) == ancestor + Len(task.route) + 1 >= db.best.number

\* Mutant: the new block is not counted.
OvertakesLate(ancestor) == ancestor + Len(task.route) > db.best.number

\* The new block's number, from the fork point, is above the best one.
Overtakes(ancestor) == ancestor + Len(task.route) + 1 > db.best.number

\* block_origin, the fork point is found.  fork() opens an overlay on the store.
WalkDone ==
    /\ At("walk")
    /\ CanWalk
    /\ db.numbers[task.next] # -1
    /\ IF Overtakes(db.numbers[task.next])
         THEN /\ fork' = db
              /\ task' = [task EXCEPT !.pc = "fork",
                                      !.down = DecanonizedRoute(db.numbers[task.next])]
         ELSE /\ task' = [Idle EXCEPT !.pc = "side", !.block = task.block]
              /\ UNCHANGED fork
    /\ NoWrite

InsertCanon ==
    /\ At("insert")
    /\ IF CanInsert(db, task.block)
         THEN /\ task' = [task EXCEPT !.pc = "canonize"]
              /\ IF task.block \in db.stored THEN NoWrite ELSE Write(Insert(db, task.block))
         ELSE task' = Failed /\ NoWrite
    /\ UNCHANGED fork

CanonizeBlock ==
    /\ At("canonize")
    /\ IF CanCanonize(db, task.block)
         THEN Write(Canonize(db, task.block)) /\ task' = Idle
         ELSE NoWrite /\ task' = Failed
    /\ UNCHANGED fork

InsertSide ==
    /\ At("side")
    /\ IF CanInsert(db, task.block)
         THEN Write(Insert(db, task.block)) /\ task' = Idle
         ELSE NoWrite /\ task' = Failed
    /\ UNCHANGED fork

\* fork: undo the canonical blocks above the fork point, the newest first, and
\* compare each with the route.
ForkDecanonize ==
    /\ At("fork")
    /\ DOMAIN task.down # {}
    /\ LET n == CHOOSE m \in DOMAIN task.down : \A k \in DOMAIN task.down : k <= m
       IN  IF CanDecanonize(fork) /\ fork.best.hash = task.down[n]
             THEN /\ fork' = Decanonize(fork)
                  /\ task' = [task EXCEPT !.down = [k \in DOMAIN @ \ {n} |-> @[k]]]
             ELSE fork' = EmptyColumns /\ task' = Failed
    /\ NoWrite

\* fork: canonize the stored blocks of the side branch, the oldest first.
ForkCanonize ==
    /\ At("fork")
    /\ DOMAIN task.down = {}
    /\ task.route # << >>
    /\ IF CanCanonize(fork, Head(task.route))
         THEN /\ fork' = Canonize(fork, Head(task.route))
              /\ task' = [task EXCEPT !.route = Tail(@)]
         ELSE fork' = EmptyColumns /\ task' = Failed
    /\ NoWrite

\* insert_best_block case 2, the rest: insert and canonize the new block in the
\* overlay and flush the overlay to the store as one write.
SwitchToFork ==
    /\ At("fork")
    /\ DOMAIN task.down = {}
    /\ task.route = << >>
    /\ IF CanInsert(fork, task.block) /\ CanCanonize(Insert(fork, task.block), task.block)
         THEN Write(Canonize(Insert(fork, task.block), task.block)) /\ task' = Idle
         ELSE NoWrite /\ task' = Failed
    /\ fork' = EmptyColumns

\* One turn of the rollback command, which stops at the genesis block.
RollbackBest ==
    /\ RollbackEnabled
    /\ At("idle")
    /\ db.best.hash \notin {NoHash, Genesis}
    /\ IF CanDecanonize(db)
         THEN /\ Write(Decanonize(db))
              /\ task' = [Idle EXCEPT !.pc = "erase", !.block = db.best.hash]
         ELSE NoWrite /\ task' = Failed
    /\ UNCHANGED fork

RollbackErase ==
    /\ At("erase")
    /\ Write(Erase(db, task.block))
    /\ task' = Idle
    /\ UNCHANGED fork

\* A clean exit drops the database, which flushes the buffer.
Restart ==
    /\ At("idle")
    /\ disk' = db
    /\ writes' = 0
    /\ UNCHANGED <<db, fork, task>>

\* Mutant: the best block is kept in memory only.
CrashKeepsBest ==
    /\ db' = [disk EXCEPT !.best = db.best]
    /\ writes' = 0
    /\ fork' = EmptyColumns
    /\ task' = Idle
    /\ UNCHANGED disk

\* The process is killed: the buffer and the fork overlay are lost, and the best
\* block is read back from disk.
Crash ==
    /\ db' = disk
    /\ writes' = 0
    /\ fork' = EmptyColumns
    /\ task' = Idle
    /\ UNCHANGED disk

Step ==
    \/ InitDb
    \/ \E b \in Blocks : BeginInsert(b)
    \/ WalkDown \/ WalkTooLong \/ WalkDone
    \/ InsertCanon \/ CanonizeBlock \/ InsertSide
    \/ ForkDecanonize \/ ForkCanonize \/ SwitchToFork
    \/ RollbackErase

Next == Step \/ RollbackBest \/ Restart \/ Crash

Spec == Init /\ [][Next]_vars

(***************************************************************************)
(* Fairness: an operation that has begun runs to its end, and every block  *)
(* that can be inserted is offered again and again, as peers announce it   *)
(* until the node has it.                                                  *)
(***************************************************************************)
FairSpec ==
    /\ Spec
    /\ WF_vars(Step)
    /\ \A b \in Blocks : SF_vars(BeginInsert(b))

-----------------------------------------------------------------------------
Tasks ==
    [pc    : {"idle", "insert", "canonize", "side", "walk", "fork", "erase", "failed"},
     block : Blocks \cup {NoHash},
     next  : Blocks \cup {NoHash},
     route : Seq(Blocks),
     down  : UNION {[S -> Blocks] : S \in SUBSET (0..MaxHeight)}]

\* Every variable has its type.
TypeOK ==
    /\ db \in Columns
    /\ disk \in Columns
    /\ fork \in Columns
    /\ writes \in 0..(FlushEvery - 1)
    /\ task \in Tasks

\* The store, what a crash would leave of it, and the fork overlay.
Views == {db, disk, fork}

(***************************************************************************)
(* The number -> hash and hash -> number columns list exactly the chain    *)
(* that ends in the best block, each block at its height.                  *)
(***************************************************************************)
IndexOf(d) ==
    /\ d.best.number = IF d.best.hash = NoHash THEN 0 ELSE Height[d.best.hash]
    /\ \A b \in Blocks :
          d.numbers[b] = IF b \in ChainOf(d.best.hash) THEN Height[b] ELSE -1
    /\ \A n \in 0..MaxHeight : \A b \in Blocks :
          d.hashes[n] = b <=> b \in ChainOf(d.best.hash) /\ Height[b] = n

\* canonize and decanonize keep the chain index equal to the best chain, in the
\* store, on disk and in a half-built fork, whatever reorganisations and crashes
\* came before.  block_origin, the locators and the server rely on it.
IndexMatchesBest == \A d \in Views : IndexOf(d)

(***************************************************************************)
(* The transaction metadata is that of the chain read as a set of blocks.  *)
(***************************************************************************)
LedgerOf(d) ==
    /\ \A t \in Tx : t \notin LedgerTxs(d.best.hash) => d.height[t] = -1
    /\ \A c \in ChainOf(d.best.hash) : \A t \in TxsOf(c) : d.height[t] = Height[c]
    /\ d.coinbase = LedgerCoinbase(d.best.hash)
    /\ d.spent = LedgerSpent(d.best.hash)

\* After any interleaving of extensions, side blocks, reorganisations, rollbacks
\* and crashes, the metadata written by canonize and undone by decanonize is a
\* function of the best block alone: no output stays spent by, and no
\* transaction stays confirmed in, a block that left the chain.
LedgerMatchesBest == \A d \in Views : LedgerOf(d)

\* A stored block can be followed down to the genesis block.
LinkedDown(d) ==
    /\ ChainOf(d.best.hash) \subseteq d.stored
    /\ \A b \in d.stored : Parent[b] \in d.stored \cup {NoHash}

\* block_origin's walk never loses its way: "not to find orphaned side chain in
\* database; qed" (db/src/block_chain_db.rs:192).
NoOrphanedSideChain == \A d \in Views : LinkedDown(d)

\* block() returns every transaction of a stored block: "returns all
\* transactions in the block" (storage/src/block_provider.rs:32).
BlocksAreWhole == \A d \in Views : \A b \in d.stored : TxsOf(b) \subseteq d.txs

\* No assertion, expect or unreachable! is hit and no insertion, canonization or
\* decanonization is refused: insert_best_block's caller turns each into a panic.
NeverFails == ~At("failed")

\* A stored block is higher than the best block only when it is a child of the
\* best block whose canonization was cut off between insert and canonize.
LongestChain ==
    \A d \in {db, disk} : \A b \in d.stored :
        Height[b] > d.best.number => Parent[b] = d.best.hash

\* While the node runs, the best block only ever gives way to a higher one: a
\* side branch of equal height does not take over.
BestOnlyRises ==
    [][Step /\ db.best.hash # NoHash =>
          db'.best = db.best \/ db'.best.number > db.best.number]_vars

\* If crashes stop, the best chain ends up at most one block below the highest
\* block: the one block is a tip that was stored when the process died before it
\* was canonized, and nothing offers it again.
Converges ==
    []<><<Crash>>_vars \/ <>[](\A b \in Blocks : Height[b] <= db.best.number + 1)
=============================================================================
