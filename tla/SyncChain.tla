----------------------------- MODULE SyncChain -----------------------------
(***************************************************************************)
(* Chain of the sync crate: the blocks in storage, the queues of blocks    *)
(* that are verifying, requested or scheduled, the headers chain and the   *)
(* dead ends; and OrphanBlocksPool, the blocks received too early.         *)
(*                                                                         *)
(* A queue is the set of its blocks: the order only decides which of the   *)
(* scheduled blocks are asked for first.  The headers chain is the set of  *)
(* its headers: every header but the first is a child of the one before,   *)
(* so that the set determines the order.  Storage promises what            *)
(* BlockChainDb is proved to do: the best block is the highest one stored, *)
(* the first of several.                                                   *)
(***************************************************************************)
EXTENDS HeaderTree

BlockStates == {"Unknown", "Scheduled", "Requested", "Verifying", "Stored", "DeadEnd"}

Chain ==
    [stored : SUBSET Blocks, best : Blocks, dead : SUBSET Blocks, headers : SUBSET Blocks,
     scheduled : SUBSET Blocks, requested : SUBSET Blocks, verifying : SUBSET Blocks]

NewChain ==
    [stored |-> {Genesis}, best |-> Genesis, dead |-> {}, headers |-> {},
     scheduled |-> {}, requested |-> {}, verifying |-> {}]

\* The queues come first, then storage, then the dead ends.
BlockState(ch, h) ==
    IF h \in ch.verifying THEN "Verifying"
    ELSE IF h \in ch.requested THEN "Requested"
    ELSE IF h \in ch.scheduled THEN "Scheduled"
    ELSE IF h \in ch.stored THEN "Stored"
    ELSE IF h \in ch.dead THEN "DeadEnd"
    ELSE "Unknown"

-----------------------------------------------------------------------------
\* BestHeadersChain.

\* The header others may be appended to: the last one, or the best block.
BestHeader(ch) ==
    IF ch.headers = {} THEN ch.best
    ELSE CHOOSE h \in ch.headers : \A o \in ch.headers : Height[o] <= Height[h]

\* insert_n of headers that form a branch, from the first that fits on.
InsertHeaders(ch, branch) ==
    LET tip == BestHeader(ch)
    IN  IF \E h \in branch : Parent[h] = tip
        THEN {h \in branch : tip \in Strict(h)}
        ELSE {}

\* The same for blocks that may branch: one branch is followed to its end, the
\* order of the blocks decides which.
HeaderBranches(ch, bs) ==
    LET tip == BestHeader(ch)
        Line(h) == Ancestors[h] \ Ancestors[tip]
        ends == {h \in bs : /\ tip \in Strict(h) /\ Line(h) \subseteq bs
                            /\ ~\E child \in bs : Parent[child] = h}
    IN  IF ends = {} THEN {{}} ELSE {Line(h) : h \in ends}

\* A header in hs is removed together with all that follow it.
WithFollowers(ch, hs) ==
    hs \cup {h \in ch.headers : Ancestors[h] \cap hs \cap ch.headers # {}}

RemoveHeaders(ch, hs) == [ch EXCEPT !.headers = @ \ WithFollowers(ch, hs)]

BlockInsertedToStorage(ch, h) ==
    IF h \in ch.headers /\ Parent[h] \notin ch.headers
    THEN [ch EXCEPT !.headers = @ \ {h}]
    ELSE ch

-----------------------------------------------------------------------------
\* Chain.

ScheduleBlocksHeaders(ch, branch) ==
    [ch EXCEPT !.scheduled = @ \cup branch, !.headers = @ \cup InsertHeaders(ch, branch)]

RequestBlocksHashes(ch, hs) ==
    [ch EXCEPT !.scheduled = @ \ hs, !.requested = @ \cup hs]

VerifyBlocks(ch, bs) ==
    {[ch EXCEPT !.verifying = @ \cup bs, !.headers = @ \cup branch] :
        branch \in HeaderBranches(ch, bs)}

MarkDeadEndBlock(ch, h) == [ch EXCEPT !.dead = @ \cup {h}]

\* Each block leaves the first queue it is found in.
ForgetBlocksLeaveHeader(ch, hs) ==
    [ch EXCEPT !.verifying = @ \ hs,
               !.requested = @ \ (hs \ ch.verifying),
               !.scheduled = @ \ (hs \ (ch.verifying \cup ch.requested))]

ForgetBlocks(ch, hs) == ForgetBlocksLeaveHeader(RemoveHeaders(ch, hs), hs)

\* Mutant: the block itself stays in its queue.
ForgetChildrenOnly(ch, hs) == ForgetBlocks(ch, WithFollowers(ch, hs) \ hs)

ForgetBlocksWithChildren(ch, hs) == ForgetBlocks(ch, WithFollowers(ch, hs))

\* Mutant: the verifying blocks are forgotten, too.
ForgetAllBlocks(ch) ==
    [RemoveHeaders(ch, ch.requested \cup ch.scheduled) EXCEPT
        !.requested = {}, !.scheduled = {}, !.verifying = {}]

\* forget_all_blocks_with_state for the requested and the scheduled blocks.
ForgetPendingBlocks(ch) ==
    [RemoveHeaders(ch, ch.requested \cup ch.scheduled) EXCEPT
        !.requested = {}, !.scheduled = {}]

InsertBestBlock(ch, b) ==
    LET inserted == BlockInsertedToStorage(ch, b)
    IN  [inserted EXCEPT !.stored = @ \cup {b},
                         !.best = IF Height[b] > Height[@] THEN b ELSE @]

-----------------------------------------------------------------------------
\* OrphanBlocksPool.

OrphanPool == [blocks : SUBSET Blocks, unknown : SUBSET Blocks]

NoOrphans == [blocks |-> {}, unknown |-> {}]

\* The pooled blocks that hang off one of hs through pooled blocks.
BlocksForParents(pool, hs) ==
    {b \in pool.blocks : \E h \in hs : h \in Strict(b) /\ Ancestors[b] \ Ancestors[h] \subseteq pool.blocks}

RemoveBlocksForParents(pool, hs) ==
    LET gone == BlocksForParents(pool, hs)
    IN  [blocks |-> pool.blocks \ gone, unknown |-> pool.unknown \ gone]

InsertOrphanedBlock(pool, b) == [pool EXCEPT !.blocks = @ \cup {b}]

InsertUnknownBlock(pool, b) == [blocks |-> pool.blocks \cup {b}, unknown |-> pool.unknown \cup {b}]

KnownBlocks(pool) == pool.blocks \ pool.unknown

RemovedBlocks(pool, hs) == (hs \cap pool.blocks) \cup BlocksForParents(pool, hs)

RemoveBlocks(pool, hs) ==
    LET gone == RemovedBlocks(pool, hs)
    IN  [blocks |-> pool.blocks \ gone, unknown |-> pool.unknown \ gone]
=============================================================================
