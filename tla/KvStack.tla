------------------------------ MODULE KvStack ------------------------------
(***************************************************************************)
(* The layers block_chain_db.rs opens the database with: a cache of block  *)
(* headers (kv/cachedb.rs) over an overlay that writes itself to the disk  *)
(* every MaxOperations transactions (kv/overlaydb.rs), over RocksDB        *)
(* (kv/diskdb.rs); and the overlay a fork is prepared in.                  *)
(*                                                                         *)
(* One thread writes, holding the lock of the synchronization core.        *)
(* Readers (the server, RPC, transaction verification) hold only the lock  *)
(* of the layer they look into, so their steps interleave with the steps   *)
(* of a write and of a flush.  A panic aborts the process (Cargo.toml), so *)
(* a failed disk write is a crash.                                         *)
(***************************************************************************)
EXTENDS KvTransaction

CONSTANTS
    MaxOperations,    \* 50 in open_with_cache
    HeaderCapacity,   \* 2116 in CacheDatabase::new
    BestNumber,       \* Key::Meta(KEY_BEST_BLOCK_NUMBER)
    BestHash,         \* Key::Meta(KEY_BEST_BLOCK_HASH)
    Readers,          \* the reading threads
    ReadKeys          \* the keys they ask for

ASSUME StackAssumption ==
    /\ MaxOperations \in Nat \ {0}
    /\ HeaderCapacity \in Nat
    /\ {BestNumber, BestHash} \subseteq Keys /\ ReadKeys \subseteq Keys
    /\ BestNumber.kind = "Meta" /\ BestHash.kind = "Meta"

\* A transaction sets number and hash of the best block, deletes them, or
\* leaves both alone (canonize and decanonize).
ASSUME BestBlockAssumption ==
    \A t \in Transactions : \A s \in {Delete, Unknown} :
        Effect(t)[BestNumber] = s <=> Effect(t)[BestHash] = s

VARIABLES
    disk,         \* the column families
    medium,       \* how the next open finds them
    up,           \* whether the database is open
    overlay,      \* AutoFlushingOverlayDatabase::overlay
    operations,   \* AutoFlushingOverlayDatabase::operations
    drained,      \* the transaction a flush holds between drain and write
    header,       \* CacheDatabase::header
    recent,       \* its entries, least recently used first
    fork,         \* OverlayDatabase::overlay of the open fork, or NoFork
    pc,           \* where the writing thread is
    tx,           \* what it writes
    pos,          \* the next operation its cache loop handles
    source,       \* who called the write: "db", "fork" or "drop"
    log,          \* history: the database after each write since the last flush
    reads         \* the gets of the readers

vars == <<disk, medium, up, overlay, operations, drained, header, recent,
          fork, pc, tx, pos, source, log, reads>>

NoFork == <<>>

-----------------------------------------------------------------------------
(* Raw keys and the disk.                                                  *)

\* Mutant: transactions share the column of the headers.
COLShared ==
    [kind \in Kinds |->
        CASE kind = "Meta" -> 0 [] kind = "BlockHash" -> 1
          [] kind = "BlockHeader" -> 2 [] kind = "BlockTransactions" -> 3
          [] kind = "Transaction" -> 2 [] kind = "TransactionMeta" -> 5
          [] kind = "BlockNumber" -> 6 [] kind = "Configuration" -> 7]

\* The column family of each kind of key.
COL ==
    [kind \in Kinds |->
        CASE kind = "Meta" -> 0 [] kind = "BlockHash" -> 1
          [] kind = "BlockHeader" -> 2 [] kind = "BlockTransactions" -> 3
          [] kind = "Transaction" -> 4 [] kind = "TransactionMeta" -> 5
          [] kind = "BlockNumber" -> 6 [] kind = "Configuration" -> 7]

\* A key as RocksDB sees it; identifiers of different kinds may have the
\* same serialization.
RawKey(k) == <<COL[k.kind], k.id>>

RawKeys == {RawKey(k) : k \in Keys}

\* KeyValueDatabase::get of the disk: a missing key is Unknown.
DiskGet(k) == disk[RawKey(k)]

DiskStates == [k \in Keys |-> DiskGet(k)]

\* Database::write: the batch is applied as a whole.
DiskWrite(states) ==
    [r \in RawKeys |->
        IF \E k \in Keys : RawKey(k) = r /\ states[k] # Unknown
        THEN LET s == states[CHOOSE k \in Keys :
                                RawKey(k) = r /\ states[k] # Unknown]
             IN  IF s = Delete THEN Unknown ELSE s
        ELSE disk[r]]

-----------------------------------------------------------------------------
(* The layers as one map.                                                  *)

\* AutoFlushingOverlayDatabase::get, were nothing drained.
BaseStates == Over(overlay, Over(drained, DiskStates))

\* The database: what the transactions written so far amount to.
View == Options(BaseStates)

\* What a restarted process finds.
DiskView == Options(DiskStates)

IsHeader(k) == k.kind = "BlockHeader"

HeaderKeys == {k \in Keys : IsHeader(k)}

\* The answer of CacheDatabase::get when no other thread steps in between.
Lookup(k) ==
    IntoOption(IF IsHeader(k) /\ header[k] # Unknown THEN header[k]
               ELSE IF overlay[k] # Unknown THEN overlay[k]
               ELSE DiskGet(k))

-----------------------------------------------------------------------------
(* The header cache (lru_cache, external).                                 *)

Cached(order, h) == \E i \in DOMAIN order : order[i] = h

\* The entries but the i-th.
WithoutAt(order, i) ==
    [j \in 1..(Len(order) - 1) |-> order[IF j < i THEN j ELSE j + 1]]

\* The entries without that of k.
Without(order, k) ==
    IF Cached(order, k)
    THEN WithoutAt(order, CHOOSE i \in DOMAIN order : order[i] = k)
    ELSE order

\* The keys in the cache once k was used: the oldest one leaves if there
\* are too many.
Touched(k) ==
    LET all == Append(Without(recent, k), k)
    IN  IF Len(all) > HeaderCapacity THEN Tail(all) ELSE all

CacheInsert(k, state) ==
    /\ recent' = Touched(k)
    /\ header' = [h \in HeaderKeys |->
                    IF ~Cached(Touched(k), h) THEN Unknown
                    ELSE IF h = k THEN state ELSE header[h]]

-----------------------------------------------------------------------------
(* History: what a get may answer.  It starts with the committed value; a  *)
(* value the writer commits, or shows early through the cache, while the   *)
(* get runs is added, and so is the value on the disk while a flush is in  *)
(* between taking the overlay and writing it.                              *)

Idle == [at |-> "none", key |-> BestNumber, seen |-> {}, answer |-> NoValue]

Watch(Value(_)) ==
    reads' = [r \in Readers |->
                IF reads[r].at \in {"none", "done"} THEN reads[r]
                ELSE [reads[r] EXCEPT !.seen = @ \cup Value(reads[r].key)]]

-----------------------------------------------------------------------------
Init ==
    /\ disk = [r \in RawKeys |-> Unknown]
    /\ medium = "new"
    /\ up = FALSE
    /\ overlay = Nothing /\ operations = 0 /\ drained = Nothing
    /\ header = [h \in HeaderKeys |-> Unknown] /\ recent = <<>>
    /\ fork = NoFork
    /\ pc = "idle" /\ tx = <<>> /\ pos = 1 /\ source = "db"
    /\ log = <<DiskView>>
    /\ reads = [r \in Readers |-> Idle]

\* The memory of a process that has not started.
Forget ==
    /\ overlay' = Nothing /\ operations' = 0 /\ drained' = Nothing
    /\ header' = [h \in HeaderKeys |-> Unknown] /\ recent' = <<>>
    /\ fork' = NoFork
    /\ pc' = "idle" /\ tx' = <<>> /\ pos' = 1 /\ source' = "db"
    /\ log' = <<DiskView>>
    /\ reads' = [r \in Readers |-> Idle]

\* read_best_block panics when only one of the two keys is there.
BestBlockWhole(map) == (map[BestNumber] = NoValue) <=> (map[BestHash] = NoValue)

\* open_at_path: Database::open creates missing column families; after a
\* repair it keeps no handle of them, so that the first get panics and the
\* next start finds a sound database.  open_with_cache builds the layers
\* and reads the best block.
Open ==
    /\ ~up
    /\ medium' = "sound"
    /\ up' = (medium # "corrupt" /\ BestBlockWhole(DiskView))
    /\ UNCHANGED <<disk, overlay, operations, drained, header, recent, fork,
                   pc, tx, pos, source, log, reads>>

\* The process ends without the destructors.
Crash ==
    /\ up
    /\ up' = FALSE
    /\ medium' \in {"sound", "corrupt"}
    /\ Forget
    /\ UNCHANGED disk

\* CacheDatabase::write is called.
Write(t) ==
    /\ up /\ pc = "idle" /\ fork = NoFork
    /\ pc' = "cache" /\ tx' = t /\ pos' = 1 /\ source' = "db"
    /\ UNCHANGED <<disk, medium, up, overlay, operations, drained, header,
                   recent, fork, log, reads>>

\* The operations its loop caches.
CachedOperations ==
    {i \in DOMAIN tx : i >= pos /\ IsHeader(tx[i].key) /\ tx[i].state # Unknown}

\* The loop up to its next header, cached under a lock of its own; what it
\* does with the other keys is seen by nobody.
CacheWrite ==
    /\ pc = "cache"
    /\ \E i \in CachedOperations :
         /\ \A j \in CachedOperations : i <= j
         /\ pos' = i + 1
         /\ CacheInsert(tx[i].key, tx[i].state)
         /\ Watch(LAMBDA k : IF k = tx[i].key
                             THEN {IntoOption(tx[i].state)} ELSE {})
    /\ UNCHANGED <<disk, medium, up, overlay, operations, drained, fork, pc,
                   tx, source, log>>

\* Whether the n-th write since the last flush makes the next one.
FlushDue(n) == n = MaxOperations

\* MemoryDatabase::write.
OverlayWritten(states) == Over(states, overlay)

\* AutoFlushingOverlayDatabase::write, up to the flush.
OverlayWrite ==
    /\ pc = "cache" /\ CachedOperations = {}
    /\ operations' = operations + 1
    /\ overlay' = OverlayWritten(Effect(tx))
    /\ fork' = NoFork
    /\ pc' = IF FlushDue(operations + 1) THEN "drain" ELSE "idle"
    /\ tx' = <<>> /\ pos' = 1 /\ source' = "db"
    /\ LET view == Options(Over(Effect(tx), BaseStates))
       IN  /\ log' = Append(log, view)
           /\ Watch(LAMBDA k : {view[k]})
    /\ UNCHANGED <<disk, medium, up, drained, header, recent>>

\* Mutant: the transaction gets one operation of each kind.
DrainTransactionOneOfKind ==
    [k \in Keys |->
        IF overlay[k] = Unknown \/ k = CHOOSE x \in Keys :
                                          x.kind = k.kind /\ overlay[x] # Unknown
        THEN overlay[k] ELSE Unknown]

\* MemoryDatabase::drain_transaction.
DrainTransaction == overlay

\* flush takes the overlay under its lock ...
Drain ==
    /\ pc = "drain"
    /\ drained' = DrainTransaction
    /\ overlay' = Nothing
    /\ pc' = "disk"
    /\ Watch(LAMBDA k : {DiskView[k]})
    /\ UNCHANGED <<disk, medium, up, operations, header, recent, fork, tx,
                   pos, source, log>>

\* `*operations = 0` after the flush.
Reset == 0

\* ... and writes it to the disk; the destructor ends the process.
FlushWrite ==
    /\ pc = "disk"
    /\ disk' = DiskWrite(drained)
    /\ drained' = Nothing
    /\ IF source = "drop"
       THEN /\ up' = FALSE /\ operations' = 0
            /\ header' = [h \in HeaderKeys |-> Unknown] /\ recent' = <<>>
            /\ reads' = [r \in Readers |-> Idle]
       ELSE /\ operations' = Reset
            /\ UNCHANGED <<up, header, recent, reads>>
    /\ pc' = "idle" /\ source' = "db"
    /\ log' = <<log[Len(log)]>>
    /\ UNCHANGED <<medium, overlay, fork, tx, pos>>

\* The last owner drops the database, so that nobody reads it.
Drop ==
    /\ up /\ pc = "idle" /\ fork = NoFork
    /\ \A r \in Readers : reads[r].at \in {"none", "done"}
    /\ pc' = "drain" /\ source' = "drop"
    /\ UNCHANGED <<disk, medium, up, overlay, operations, drained, header,
                   recent, fork, tx, pos, log, reads>>

-----------------------------------------------------------------------------
(* Forks.                                                                  *)

\* BlockChainDatabase::fork opens an overlay over the database and reads
\* the best block through it; BestBlockNeverTorn says it does not panic.
Fork ==
    /\ up /\ pc = "idle" /\ fork = NoFork
    /\ BestBlockWhole([k \in Keys |-> Lookup(k)])
    /\ fork' = Nothing
    /\ UNCHANGED <<disk, medium, up, overlay, operations, drained, header,
                   recent, pc, tx, pos, source, log, reads>>

\* Its canonize and decanonize write into the fork's overlay.
ForkWrite(t) ==
    /\ up /\ pc = "idle" /\ fork # NoFork
    /\ fork' = Over(Effect(t), fork)
    /\ UNCHANGED <<disk, medium, up, overlay, operations, drained, header,
                   recent, pc, tx, pos, source, log, reads>>

\* The verified block is not the best one, or failed: the fork is dropped.
ForkDrop ==
    /\ up /\ pc = "idle" /\ fork # NoFork
    /\ fork' = NoFork
    /\ UNCHANGED <<disk, medium, up, overlay, operations, drained, header,
                   recent, pc, tx, pos, source, log, reads>>

\* The orders a drained overlay may list the keys in: kind by kind, and
\* within a kind as a hash map has them.
KeyOrders ==
    {o \in [1..Cardinality(Keys) -> Keys] :
        /\ \A k \in Keys : \E i \in DOMAIN o : o[i] = k
        /\ \A i, j \in DOMAIN o : o[i] = o[j] => i = j
        /\ \A i, j \in DOMAIN o : i <= j => COL[o[i].kind] <= COL[o[j].kind]}

\* The transactions it may become; a key it does not know gives no operation.
ForkTransactions(states) ==
    {[i \in DOMAIN o |-> [key |-> o[i], state |-> states[o[i]]]] : o \in KeyOrders}

\* OverlayDatabase::get.
ForkLookup(k) == IF fork[k] # Unknown THEN IntoOption(fork[k]) ELSE Lookup(k)

\* switch_to_fork: the fork is flushed into the database as one write.  The
\* variable keeps what is being written until the overlay has it.
Switch ==
    /\ up /\ pc = "idle" /\ fork # NoFork
    /\ \E t \in ForkTransactions(fork) : tx' = t
    /\ pc' = "cache" /\ pos' = 1 /\ source' = "fork"
    /\ UNCHANGED <<disk, medium, up, overlay, operations, drained, header,
                   recent, fork, log, reads>>

-----------------------------------------------------------------------------
(* Reads by other threads.                                                 *)

GetBegin(r, k) ==
    /\ up /\ source # "drop" /\ reads[r].at \in {"none", "done"}
    /\ reads' = [reads EXCEPT ![r] =
                   [at |-> IF IsHeader(k) THEN "cache" ELSE "overlay", key |-> k,
                    answer |-> NoValue,
                    seen |-> {View[k]}
                             \cup (IF IsHeader(k) /\ header[k] # Unknown
                                   THEN {IntoOption(header[k])} ELSE {})
                             \cup (IF pc = "disk" THEN {DiskView[k]} ELSE {})]]
    /\ UNCHANGED <<disk, medium, up, overlay, operations, drained, header,
                   recent, fork, pc, tx, pos, source, log>>

\* CacheDatabase::get: a cached header is the answer, and is now recent.
GetCached(r) ==
    /\ reads[r].at = "cache"
    /\ LET k == reads[r].key
       IN  IF header[k] # Unknown
           THEN /\ reads' = [reads EXCEPT ![r].at = "done",
                                          ![r].answer = IntoOption(header[k])]
                /\ recent' = Touched(k)
           ELSE /\ reads' = [reads EXCEPT ![r].at = "overlay"]
                /\ UNCHANGED recent
    /\ UNCHANGED <<disk, medium, up, overlay, operations, drained, header,
                   fork, pc, tx, pos, source, log>>

\* Mutant: a deleted key is looked up on the disk.
OverlayAnswersInserts(state) == state \in Values

\* Whether the overlay's state of a key is the answer.
OverlayAnswers(state) == state # Unknown

\* AutoFlushingOverlayDatabase::get looks into the overlay ...
GetOverlay(r) ==
    /\ reads[r].at = "overlay"
    /\ LET s == overlay[reads[r].key]
       IN  reads' = IF OverlayAnswers(s)
                    THEN [reads EXCEPT ![r].at = "done", ![r].answer = IntoOption(s)]
                    ELSE [reads EXCEPT ![r].at = "disk"]
    /\ UNCHANGED <<disk, medium, up, overlay, operations, drained, header,
                   recent, fork, pc, tx, pos, source, log>>

\* ... and then, with its lock released, into the disk.
GetDisk(r) ==
    /\ reads[r].at = "disk"
    /\ reads' = [reads EXCEPT ![r].at = "done",
                              ![r].answer = IntoOption(DiskGet(reads[r].key))]
    /\ UNCHANGED <<disk, medium, up, overlay, operations, drained, header,
                   recent, fork, pc, tx, pos, source, log>>

-----------------------------------------------------------------------------
Next ==
    \/ Open \/ Crash \/ Drop
    \/ \E t \in Transactions : Write(t) \/ ForkWrite(t)
    \/ CacheWrite \/ OverlayWrite \/ Drain \/ FlushWrite
    \/ Fork \/ ForkDrop \/ Switch
    \/ \E r \in Readers :
         \/ \E k \in ReadKeys : GetBegin(r, k)
         \/ GetCached(r) \/ GetOverlay(r) \/ GetDisk(r)

Spec == Init /\ [][Next]_vars

-----------------------------------------------------------------------------
(* Properties.                                                             *)

MaybeValue == Values \cup {NoValue}

\* Every layer maps keys to states; the flush counter stays within the
\* limit, the cache within its capacity, and its order lists exactly the
\* headers it holds.
TypeOK ==
    /\ disk \in [RawKeys -> Values \cup {Unknown}]
    /\ medium \in {"new", "sound", "corrupt"} /\ up \in BOOLEAN
    /\ overlay \in [Keys -> KeyState] /\ drained \in [Keys -> KeyState]
    /\ header \in [HeaderKeys -> KeyState]
    /\ recent \in Seq(HeaderKeys) /\ Len(recent) <= HeaderCapacity
    /\ {h \in HeaderKeys : header[h] # Unknown} = {recent[i] : i \in DOMAIN recent}
    /\ fork = NoFork \/ fork \in [Keys -> KeyState]
    /\ operations \in 0..MaxOperations
    /\ pc \in {"idle", "cache", "drain", "disk"}
    /\ tx \in Seq(Operation) /\ pos \in 1..(Len(tx) + 1)
    /\ source \in {"db", "fork", "drop"}
    /\ log \in Seq([Keys -> MaybeValue])
    /\ reads \in [Readers -> [at : {"none", "cache", "overlay", "disk", "done"},
                             key : Keys, seen : SUBSET MaybeValue, answer : MaybeValue]]

\* The inductive core of the proofs: only a flush between its two steps holds
\* a drained layer, over an empty overlay; the thread that writes holds
\* either a transaction of the database or the whole overlay of the fork;
\* and a process that is down remembers nothing.
Structure ==
    /\ disk \in [RawKeys -> Values \cup {Unknown}]
    /\ overlay \in [Keys -> KeyState] /\ drained \in [Keys -> KeyState]
    /\ fork = NoFork \/ fork \in [Keys -> KeyState]
    /\ pc \in {"idle", "cache", "drain", "disk"} /\ tx \in Seq(Operation)
    /\ pc # "disk" => drained = Nothing
    /\ pc = "disk" => overlay = Nothing
    /\ pc \in {"drain", "disk"} => fork = NoFork
    /\ pc = "cache" =>
         \/ source = "db" /\ fork = NoFork /\ tx \in Transactions
         \/ source = "fork" /\ fork # NoFork /\ Effect(tx) = fork
    /\ ~up => pc = "idle" /\ overlay = Nothing /\ fork = NoFork

\* The inductive core of ReadsExplained: a get under way has seen what the
\* database holds, and what it may still find in the layer it looks into
\* next: the cached header, or the disk from before the flush.
Accounted(r) ==
    LET get == reads[r]
    IN  /\ get.at \in {"cache", "overlay", "disk"} => View[get.key] \in get.seen
        /\ get.at \in {"cache", "overlay", "disk"} /\ pc = "disk" =>
             DiskView[get.key] \in get.seen
        /\ get.at = "disk" => DiskView[get.key] \in get.seen
        /\ get.at = "cache" => IsHeader(get.key)
        /\ get.at = "cache" /\ header[get.key] # Unknown =>
             IntoOption(header[get.key]) \in get.seen
        /\ get.at = "done" => get.answer \in get.seen

ReadsAccounted == \A r \in Readers : Accounted(r)

\* The map the layers implement.
Abstract == INSTANCE KvStore WITH
    committed <- View,
    durable <- DiskView,
    branch <- IF fork = NoFork THEN NoFork ELSE Options(Over(fork, BaseStates))

\* The cache, the overlay, the flush in two steps and the disk together are
\* one map that changes by whole transactions: a flush changes nothing but
\* what is durable, a crash at any step leaves the map of the last flush,
\* and a fork is invisible until it replaces the map at once.
ImplementsStore == Abstract!Spec

\* Between two writes, the writing thread reads from the layers, and through
\* a fork, exactly what the transactions so far have written, whatever the
\* cache has evicted and however many flushes ago it was.
ReadYourWrites ==
    pc = "idle" =>
        /\ \A k \in Keys : Lookup(k) = View[k]
        /\ fork # NoFork =>
             \A k \in Keys : ForkLookup(k) = IntoOption(Over(fork, BaseStates)[k])

\* A get of another thread answers a value the key had at some moment of
\* the get, a header a write has cached ahead of the overlay, or, only
\* while a flush holds the drained overlay, the value from before it.
ReadsExplained ==
    \A r \in Readers : reads[r].at = "done" => reads[r].answer \in reads[r].seen

\* The disk is the map as it was after a whole number of writes, and a crash
\* loses at most the MaxOperations writes since.
CrashLosesFew ==
    /\ log[1] = DiskView
    /\ log[Len(log)] = View
    /\ Len(log) <= MaxOperations + 1

\* Number and hash of the best block are both there or both missing, on the
\* disk after any crash and in the layers between two writes: neither
\* open_with_cache nor fork panics with "Inconsistent DB".
BestBlockNeverTorn ==
    /\ BestBlockWhole(DiskView)
    /\ pc = "idle" => BestBlockWhole([k \in Keys |-> Lookup(k)])

\* A reader sees what was written: between writes exactly that, and during a
\* write or a flush a state of the key that can be accounted for.
ReadsConsistent == ReadYourWrites /\ ReadsExplained

\* A crash at any point loses the last few transactions only, each of them
\* whole: the best block's number and hash are never apart.
CrashesAreClean == TypeOK /\ CrashLosesFew /\ BestBlockNeverTorn
=============================================================================
