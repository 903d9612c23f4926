------------------------------- MODULE Import ------------------------------
(***************************************************************************)
(* The import command: the blk files of a bitcoind directory are read one  *)
(* block after the other and appended by a BlocksWriter, which keeps a     *)
(* block whose parent is not stored yet in an orphan pool and verifies and *)
(* inserts any other block together with the orphans above it.             *)
(*                                                                         *)
(* The process may be killed between any two blocks; what the database had *)
(* not flushed is lost, and the command is started again.                  *)
(***************************************************************************)
EXTENDS HeaderTree, Wire, FiniteSets

CONSTANTS
    Directories,        \* the directories of blk files: see DirectoryAssumption
    BadBlocks,          \* blocks that verification rejects
    WitnessBlocks,      \* blocks with a transaction that carries a witness
    MaxOrphanedBlocks,  \* MAX_ORPHANED_BLOCKS
    MaxForkRoute,       \* MAX_FORK_ROUTE_PRESET
    MaxOperations,      \* writes after which the overlay database is flushed
    MaxCrashes          \* how often the process may be killed

VARIABLES
    directory,  \* the directory being imported
    todo,       \* the entries that BlkDir has not returned yet
    writes,     \* the writes to the database, in order
    durable,    \* how many of them have been flushed
    pool,       \* orphaned_blocks_pool
    queue,      \* verification_queue of append_block
    result,     \* "running", or how the command ended
    crashes

vars == <<directory, todo, writes, durable, pool, queue, result, crashes>>

\* A directory lists its files by name.  A file is a sequence of entries, blocks
\* and runs of zeros, or cannot be opened.
Zeros == "zeros"
EndOfFile == "end"
IsFile(f) ==
    /\ DOMAIN f = {"legible", "entries"}
    /\ f.legible \in BOOLEAN
    /\ \A i \in DOMAIN f.entries : f.entries[i] \in Blocks \cup {Zeros}

ASSUME DirectoryAssumption ==
    /\ \A d \in Directories : \A i \in DOMAIN d : IsFile(d[i])
    /\ {Zeros, EndOfFile} \cap Blocks = {}
    /\ BadBlocks \cup WitnessBlocks \subseteq Blocks \ {Genesis}

ASSUME BoundsAssumption ==
    /\ {MaxOrphanedBlocks, MaxForkRoute, MaxCrashes} \subseteq Nat
    /\ MaxOperations \in Nat \ {0}

-----------------------------------------------------------------------------
\* Reading blocks with their hashes.  The hash of bytes is the bytes themselves.

\* read_and_hash: what a layout reads, with the hash of the bytes it took.
ReadAndHash(layout, bytes) ==
    Then(Read(layout, bytes), LAMBDA value, rest :
        Got([raw |-> value, hash |-> SubSeq(bytes, 1, Len(bytes) - Len(rest))], rest))

\* transaction_hash: of the transaction without its witnesses.
TransactionHash(tx) == Encode(Transaction, tx, FALSE)

BlockHeaderHash(header) == Encode(BlockHeader, header, FALSE)

RECURSIVE ReadIndexedTransactions(_, _)
ReadIndexedTransactions(n, bytes) ==
    IF n = 0 THEN Got(<<>>, bytes)
    ELSE Then(ReadAndHash(Transaction, bytes), LAMBDA head, rest :
            Mapped(ReadIndexedTransactions(n - 1, rest), LAMBDA values : <<head>> \o values))

\* IndexedBlock::deserialize.
ReadIndexedBlock(bytes) ==
    Then(ReadAndHash(BlockHeader, bytes), LAMBDA header, afterHeader :
        Then(ReadCompact(afterHeader), LAMBDA count, afterCount :
            Mapped(ReadIndexedTransactions(count, afterCount),
                   LAMBDA txs : [header |-> header, transactions |-> txs])))

RECURSIVE SkipZeros(_)
SkipZeros(bytes) ==
    IF bytes # <<>> /\ Head(bytes) = 0 THEN SkipZeros(Tail(bytes)) ELSE bytes

\* import's Block::deserialize: zeros, magic, size, block.
ReadBlkBlock(bytes) ==
    Then(ReadSlice(SkipZeros(bytes), HashLen), LAMBDA magic, afterMagic :
        Then(ReadUint(afterMagic, W32), LAMBDA size, afterSize : ReadIndexedBlock(afterSize)))

\* ReadIterator: blocks until the file is finished or one cannot be read.
RECURSIVE ReadBlkFile(_)
ReadBlkFile(bytes) ==
    LET From(read) == IF read.ok THEN <<read>> \o ReadBlkFile(read.rest) ELSE <<read>>
    IN  IF bytes = <<>> THEN <<>> ELSE From(ReadBlkBlock(bytes))

-----------------------------------------------------------------------------
\* The database is what its writes made of it: insert and canonize write once each,
\* switch_to_fork writes the insertion and the canonization of a fork at once.
Write(op, b) == [op |-> op, block |-> b]

StoredIn(ws) == {ws[i].block : i \in {j \in DOMAIN ws : ws[j].op # "canonize"}}
BestIn(ws) == ws[SelectLastInSeq(ws, LAMBDA w : w.op # "insert")].block

Stored == StoredIn(writes)
Best == BestIn(writes)

\* The database after the writes ws: flushed when the overlay has MaxOperations.
WriteAll(ws) ==
    LET operations == Len(writes) + Len(ws) - durable
    IN  /\ writes' = writes \o ws
        /\ durable' = durable + MaxOperations * (operations \div MaxOperations)

\* block_origin gives up on a fork whose route is too long.
AncientFork(b) == Cardinality(Strict(b) \ Ancestors[Best]) >= MaxForkRoute

\* The transaction of a block, as bitcoind writes it to a file.
ContentOf(b) ==
    [version |-> 1,
     inputs |-> <<[raw |-> <<<<<<1, 2>>, 0>>, <<3>>, 5>>,
                   witness |-> IF b \in WitnessBlocks THEN <<<<4>>>> ELSE <<>>]>>,
     outputs |-> <<<<6, <<7>>>>>>,
     lockTime |-> 0]

\* The merkle root of a header is that of the hashes without witnesses; the root
\* that verification computes is that of the hashes that were read.
RootAgrees(b) ==
    ReadAndHash(Transaction, Encode(Transaction, ContentOf(b), TRUE)).value.hash
        = TransactionHash(ContentOf(b))

\* SyncVerifier::verify_block, on the default verification level.
Verified(b) == b \notin BadBlocks /\ RootAgrees(b) /\ ~AncientFork(b)

\* insert_best_block: the writes for a block above the best one, for one that makes
\* its fork the main branch, and for one of a side branch.
InsertBestBlock(b) ==
    CASE Parent[b] = Best -> <<Write("insert", b), Write("canonize", b)>>
      [] Parent[b] # Best /\ Height[b] > Height[Best] -> <<Write("switch", b)>>
      [] OTHER -> <<Write("insert", b)>>

\* remove_blocks_for_parent: the orphans above b, as far as they are linked to it.
BlocksForParent(b, orphans) ==
    {o \in orphans : b \in Strict(o) /\ Ancestors[o] \ Ancestors[b] \subseteq orphans}

\* The orders in which it returns them: the children of b, then the children of
\* each returned block in turn; those of one block in any order.
ReleaseOrders(b, released) ==
    {s \in [1 .. Cardinality(released) -> released] :
        LET turn == [p \in released \cup {b} |-> IF p = b THEN 0 ELSE SelectInSeq(s, LAMBDA o : o = p)]
        IN  /\ ToSet(s) = released
            /\ \A i, j \in DOMAIN s : i < j => turn[Parent[s[i]]] <= turn[Parent[s[j]]]}

\* OrphanBlocksPool::len: the number of parents that are waited for.
PoolLen(orphans) == Cardinality({Parent[o] : o \in orphans})

\* What BlkDir returns of a directory: a file that cannot be opened is passed over.
EntriesOf(dir) ==
    FlattenSeq([i \in DOMAIN dir |->
                   IF dir[i].legible THEN dir[i].entries \o <<EndOfFile>> ELSE <<>>])

-----------------------------------------------------------------------------
\* init_db has put the genesis block into the database.
Init ==
    /\ directory \in Directories
    /\ todo = EntriesOf(directory)
    /\ writes = <<Write("insert", Genesis), Write("canonize", Genesis)>>
    /\ durable = 2
    /\ pool = {}
    /\ queue = <<>>
    /\ result = "running"
    /\ crashes = 0

\* The loop of import is at an entry of the directory.
At(entries) == result = "running" /\ queue = <<>> /\ todo # <<>> /\ Head(todo) \in entries

\* The command returns; the overlay database is flushed when it is dropped.
Return(outcome) == result' = outcome /\ durable' = Len(writes)

\* A file is finished, or zeros lead to its next block.
ReadGap ==
    /\ At({Zeros, EndOfFile})
    /\ Head(todo) = Zeros => todo[2] # EndOfFile
    /\ todo' = Tail(todo)
    /\ UNCHANGED <<directory, writes, durable, pool, queue, result, crashes>>

\* Zeros at the end of a file are taken for the start of a block.
ReadFails ==
    /\ At({Zeros})
    /\ todo[2] = EndOfFile
    /\ Return("Unreadable")
    /\ UNCHANGED <<directory, todo, writes, pool, queue, crashes>>

\* append_block on a block that is stored.
AppendKnown ==
    /\ At(Stored)
    /\ todo' = Tail(todo)
    /\ UNCHANGED <<directory, writes, durable, pool, queue, result, crashes>>

\* Mutant: an orphan that the pool has no place for is dropped.
AppendOrphanDropped ==
    /\ At({b \in Blocks \ Stored : Parent[b] \notin Stored})
    /\ pool' = IF PoolLen(pool \cup {Head(todo)}) > MaxOrphanedBlocks
               THEN pool ELSE pool \cup {Head(todo)}
    /\ todo' = Tail(todo)
    /\ UNCHANGED <<directory, writes, durable, queue, result, crashes>>

\* append_block on a block whose parent is not stored.
AppendOrphan ==
    /\ At({b \in Blocks \ Stored : Parent[b] \notin Stored})
    /\ pool' = pool \cup {Head(todo)}
    /\ IF PoolLen(pool') > MaxOrphanedBlocks
       THEN Return("TooManyOrphanBlocks")
       ELSE UNCHANGED <<result, durable>>
    /\ todo' = Tail(todo)
    /\ UNCHANGED <<directory, writes, queue, crashes>>

\* append_block on any other block: it is queued before the orphans above it.
AppendLinked ==
    /\ At({b \in Blocks \ Stored : Parent[b] \in Stored})
    /\ LET b == Head(todo)
           released == BlocksForParent(b, pool)
       IN  /\ \E order \in ReleaseOrders(b, released) : queue' = <<b>> \o order
           /\ pool' = pool \ released
    /\ todo' = Tail(todo)
    /\ UNCHANGED <<directory, writes, durable, result, crashes>>

\* The loop of append_block: verify a block and insert it, or end the import.
VerifyNext ==
    /\ result = "running" /\ queue # <<>>
    /\ queue' = Tail(queue)
    /\ IF Verified(Head(queue))
       THEN WriteAll(InsertBestBlock(Head(queue))) /\ UNCHANGED result
       ELSE Return("Verification") /\ UNCHANGED writes
    /\ UNCHANGED <<directory, todo, pool, crashes>>

Finish ==
    /\ result = "running" /\ queue = <<>> /\ todo = <<>>
    /\ Return("done")
    /\ UNCHANGED <<directory, todo, writes, pool, queue, crashes>>

\* Mutant: the command goes on where it was killed.
CrashResumes ==
    /\ result = "running" /\ crashes < MaxCrashes
    /\ writes' = SubSeq(writes, 1, durable)
    /\ pool' = {}
    /\ queue' = <<>>
    /\ crashes' = crashes + 1
    /\ UNCHANGED <<directory, todo, durable, result>>

\* The process is killed and the command is started again, on what was flushed.
Crash ==
    /\ result = "running" /\ crashes < MaxCrashes
    /\ writes' = SubSeq(writes, 1, durable)
    /\ todo' = EntriesOf(directory)
    /\ pool' = {}
    /\ queue' = <<>>
    /\ crashes' = crashes + 1
    /\ UNCHANGED <<directory, durable, result>>

Ended == result # "running" /\ UNCHANGED vars

Step ==
    ReadGap \/ ReadFails \/ AppendKnown \/ AppendOrphan \/ AppendLinked \/ VerifyNext \/ Finish

Next == Step \/ Crash \/ Ended

Spec == Init /\ [][Next]_vars

\* The command is one thread that has a next step until it returns: WF_vars(Step),
\* where Step is enabled while the command runs and is what changes a variable
\* without a crash.
Fairness == []<>(result # "running") \/ []<><<crashes' = crashes>>_vars

-----------------------------------------------------------------------------
\* Properties.

\* Every write but the last few is durable, and the best block is stored.
TypeOK ==
    /\ StoredIn(writes) \subseteq Blocks
    /\ durable \in 2 .. Len(writes) /\ Len(writes) - durable < MaxOperations
    /\ Best \in Stored
    /\ pool \subseteq Blocks
    /\ ToSet(queue) \subseteq Blocks
    /\ result \in {"running", "done", "Unreadable", "TooManyOrphanBlocks", "Verification"}

\* append_block looks up a block and its parent once: a block that it queues or
\* keeps is not inserted by another route meanwhile (insert_best_block has
\* unreachable for a known block), a queued block comes after its parent, and an
\* orphan waits only for a block that will release it.
QueuedAreNew ==
    /\ (pool \cup ToSet(queue)) \cap Stored = {}
    /\ pool \cap ToSet(queue) = {}
    /\ \A i \in DOMAIN queue : Parent[queue[i]] \in Stored \cup {queue[j] : j \in 1 .. i - 1}
    /\ \A o \in pool : Parent[o] \notin Stored \cup ToSet(queue)

\* insert and canonize are two writes and a crash may come between them, so that
\* a block above the best one may be stored: it stays the best block's child, where
\* the next block above either of them finds it; and without a crash the best block
\* is one of the highest.
BestIsHighest ==
    \A b \in Stored : \/ Height[b] <= Height[Best]
                      \/ Parent[b] = Best /\ crashes > 0

\* The blocks of the files that can be opened, and those of them that have all
\* their ancestors there.
Listed == ToSet(EntriesOf(directory)) \cap Blocks
Reachable == {b \in Listed : Ancestors[b] \subseteq Listed \cup {Genesis}}

\* When import reports success every block that can be reached is stored, in
\* whatever order the files list them and wherever it was killed before; what is
\* left in the pool has no ancestor in the files.
ImportIsComplete == result = "done" => Reachable \subseteq Stored /\ pool \cap Reachable = {}

\* Whatever the order of the files and wherever the import was killed before: what
\* append_block queues or keeps is new and in order, the best block is one of the
\* highest but for an insertion cut off by a crash, and success means that all that
\* can be reached is stored.
ImportIsSound == TypeOK /\ QueuedAreNew /\ BestIsHighest /\ ImportIsComplete

\* An import that ends with a verification error has met an invalid block or a
\* fork that is too long: the README says that a bitcoind database can be imported.
FailsForCause ==
    result = "Verification" => \/ Listed \cap BadBlocks # {}
                               \/ \E b \in Listed : AncientFork(b)

\* The blocks of the first n entries that still wait for an ancestor.
Waiting(n) ==
    LET read == ToSet(SubSeq(EntriesOf(directory), 1, n)) \cap Blocks
    IN  {b \in read : ~ Ancestors[b] \subseteq read \cup {Genesis}}

\* A directory of valid blocks without gaps, in an order that the pool can hold,
\* is imported, however often the command is killed.
Importable ==
    /\ Listed \cap BadBlocks = {}
    /\ Zeros \notin ToSet(EntriesOf(directory))
    /\ \A n \in DOMAIN EntriesOf(directory) : PoolLen(Waiting(n)) <= MaxOrphanedBlocks
    /\ \A b \in Listed : Height[b] <= MaxForkRoute
ImportEnds == <>(result # "running" /\ (Importable => Reachable \subseteq Stored))
=============================================================================
