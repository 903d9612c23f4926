----------------------------- MODULE SyncClient ----------------------------
(***************************************************************************)
(* SynchronizationClient and its core, the verification thread and the     *)
(* management worker.  Every handler runs under the core's lock and is one *)
(* action, but for on_block: its first half queues blocks for the          *)
(* verification thread, its second half takes the lock again.  Peers are   *)
(* free to send any headers and any block at any time, asked for or not.   *)
(*                                                                         *)
(* Connection indices are never reused: a peer connects once.  Closing a   *)
(* connection and handling its messages exclude each other, but a message  *)
(* that was read before the connection closed may be handled after it.     *)
(***************************************************************************)
EXTENDS PeersTasks, SyncChain, FiniteSets

CONSTANTS
    NoPeer,              \* not a peer
    HeaderLists,         \* the contents of the headers messages: sequences of blocks
    BadHeaders,          \* blocks whose header does not pass verification
    BadBlocks,           \* blocks that do not pass verification, their header does
    CloseOnBadBlock,     \* Config::close_connection_on_bad_block
    LateMessages,        \* a message may be handled after its connection is closed
    MinInRequest, MaxInRequest, MaxScheduled, MaxPending, DuplicateSize,
    MaxQueue             \* bound of the verification queue, a channel without bound

\* Hashes have 256 bits and peers are indexed by a usize: both sets are finite.
ASSUME SyncAssumption ==
    /\ IsFiniteSet(Blocks) /\ IsFiniteSet(Peers)
    /\ NoPeer \notin Peers
    /\ HeaderLists \subseteq Seq(Blocks \ {Genesis}) \ {<<>>}
    /\ BadHeaders \cup BadBlocks \subseteq Blocks \ {Genesis}
    /\ {CloseOnBadBlock, LateMessages} \subseteq BOOLEAN
    /\ {MinInRequest, MaxInRequest, MaxScheduled, MaxPending, DuplicateSize, MaxQueue} \subseteq Nat \ {0}

VARIABLES
    conn,      \* "new", "open", "left" (one message may still be handled) or "gone"
    banned,    \* peers whose connection is being closed for misbehaviour
    chain,     \* Chain
    pool,      \* OrphanBlocksPool
    tasks,     \* PeersTasks
    state,     \* State of the core
    byPeer,    \* verifying_blocks_by_peer
    waiting,   \* verifying_blocks_futures: the blocks the futures of a peer wait for
    deferred,  \* verifying_blocks_futures: the peers with a future that waits
    queue,     \* tasks of the verification thread
    finishing  \* peers whose on_block has its second half to do

core == <<chain, pool, tasks, state>>
futures == <<byPeer, waiting, deferred>>
vars == <<conn, banned, chain, pool, tasks, state, byPeer, waiting, deferred, queue, finishing>>

Elements(list) == {list[i] : i \in DOMAIN list}

\* The fields of SynchronizationClientCore and of its helpers keep their types.
TypeOK ==
    /\ conn \in [Peers -> {"new", "open", "left", "gone"}]
    /\ banned \subseteq Peers
    /\ chain \in Chain
    /\ pool \in OrphanPool
    /\ tasks \in PeersTasks
    /\ state \in {"Synchronizing", "NearlySaturated", "Saturated"}
    /\ byPeer \in [Blocks -> Peers \cup {NoPeer}]
    /\ waiting \in BlocksByPeer
    /\ deferred \subseteq Peers
    /\ queue \in Seq(Blocks)
    /\ finishing \subseteq Peers

Init ==
    /\ conn = [p \in Peers |-> "new"]
    /\ banned = {}
    /\ chain = NewChain
    /\ pool = NoOrphans
    /\ tasks = NoTasks
    /\ state = "Saturated"
    /\ byPeer = [b \in Blocks |-> NoPeer]
    /\ waiting = [p \in Peers |-> {}]
    /\ deferred = {}
    /\ queue = <<>>
    /\ finishing = {}

-----------------------------------------------------------------------------
(***************************************************************************)
(* The parts of the core that handlers hand from one step to the next.     *)
(* An optional argument is the set of its values: {} or {x}.               *)
(***************************************************************************)
Core(ch, po, ta, st) == [chain |-> ch, pool |-> po, tasks |-> ta, state |-> st]

Become(c) ==
    /\ chain' = c.chain
    /\ pool' = c.pool
    /\ tasks' = c.tasks
    /\ state' = c.state

SwitchToSaturatedState(c) ==
    IF c.state = "Saturated" THEN c
    ELSE Core(ForgetPendingBlocks(ForgetBlocks(c.chain, KnownBlocks(c.pool))),
              RemoveBlocks(c.pool, KnownBlocks(c.pool)),
              ResetTasks(c.tasks),
              "Saturated")

Smaller(m, n) == IF m < n THEN m ELSE n
Larger(m, n) == IF m < n THEN n ELSE m

\* Mutant: nothing is taken back from the peers.
EntriesOfNoPeer(t, ps) == {}

(***************************************************************************)
(* A list of blocks to request is a set of entries: a block, and the peer  *)
(* whose request for it has failed.  So a block that two peers have failed *)
(* to send is in the list twice, as in the code.                           *)
(***************************************************************************)
EntriesOf(t, ps) == {e \in Blocks \X ps : e[1] \in t.blocksRequests[e[2]]}
NewEntries(hs) == hs \X {NoPeer}
BlocksIn(entries) == {e[1] : e \in entries}

(***************************************************************************)
(* prepare_blocks_requests_tasks: the peers, fastest first, get chunks of  *)
(* the same size until nothing is left, and the last peer all that is.     *)
(***************************************************************************)
Requests(ps, entries) ==
    LET chunk == Smaller(MaxInRequest, Larger(Cardinality(entries), MinInRequest))
        Share(assigned, p) == {e \in entries : assigned[e] = p}
        Load(assigned, p) == Cardinality(Share(assigned, p))
        InChunks(assigned) ==
            entries = {} \/ \E last \in ps :
                /\ Load(assigned, last) > 0
                /\ \A p \in ps \ {last} : Load(assigned, p) \in {0, chunk}
                /\ Load(assigned, last) <= chunk \/ \A p \in ps \ {last} : Load(assigned, p) = chunk
    IN  {[p \in Peers |-> BlocksIn(Share(assigned, p))] :
            assigned \in {a \in [entries -> ps] : InChunks(a)}}

\* Every way to ask ps for the blocks.
AskFor(c, ps, entries) ==
    {[c EXCEPT !.tasks = OnBlocksRequested(@, request)] : request \in Requests(ps, entries)}

\* Forced and final requests go to all useful peers, idle or not.
AskUsefulPeers(c, option) ==
    IF option = {} \/ UsefulPeers(c.tasks) = {} THEN {c}
    ELSE AskFor(c, UsefulPeers(c.tasks), UNION option)

\* Idle peers are asked for headers unless enough blocks are scheduled.
AskForHeaders(c) ==
    IF Cardinality(c.chain.scheduled) < MaxScheduled
    THEN [c EXCEPT !.tasks = OnHeadersRequested(@, c.tasks.idleHeaders)]
    ELSE c

\* Whether requests are duplicated depends on measured speeds: any choice.
Duplicates(c) ==
    LET size == Smaller(DuplicateSize, Cardinality(c.chain.requested))
    IN  {{}} \cup {hs \in SUBSET c.chain.requested : Cardinality(hs) = size}

\* The scheduled blocks that are moved to the requested ones.
NextRequested(c, peers, verifying) ==
    LET scheduled == Cardinality(c.chain.scheduled)
        chunk == Smaller(MaxInRequest, Larger(scheduled \div peers, MinInRequest))
    IN  IF Cardinality(c.chain.requested) + verifying < MaxPending
        THEN {hs \in SUBSET c.chain.scheduled : Cardinality(hs) = Smaller(scheduled, chunk * peers)}
        ELSE {{}}

AskForBlocks(c, idle, verifying) ==
    IF idle = {} THEN {c}
    ELSE UNION {AskFor([c EXCEPT !.chain = RequestBlocksHashes(@, hs)], idle, NewEntries(hs \cup copies)) :
                    hs \in NextRequested(c, Cardinality(idle), verifying), copies \in Duplicates(c)}

\* The mutant returns without a switch to the saturated state.
ExecuteSynchronizationTasksReturns(c, forced, final) ==
    LET verifying == Cardinality(c.chain.verifying)
        asked == UNION {AskUsefulPeers(d, final) : d \in AskUsefulPeers(c, forced)}
    IN  IF forced # {} /\ UsefulPeers(c.tasks) = {}
        THEN {c}
        ELSE UNION {AskForBlocks(AskForHeaders(d), d.tasks.idleBlocks, verifying) : d \in asked}

\* The cores that execute_synchronization_tasks may leave behind.
ExecuteSynchronizationTasks(c, forced, final) ==
    LET verifying == Cardinality(c.chain.verifying)
        asked == UNION {AskUsefulPeers(d, final) : d \in AskUsefulPeers(c, forced)}
    IN  IF forced # {} /\ UsefulPeers(c.tasks) = {}
        THEN {SwitchToSaturatedState(c)}
        ELSE UNION {AskForBlocks(AskForHeaders(d), d.tasks.idleBlocks, verifying) : d \in asked}

-----------------------------------------------------------------------------
\* Connections.

\* A message of p is handled.
Receives(p) ==
    /\ p \notin finishing
    /\ conn[p] \in {"open", "left"}
    /\ conn' = IF conn[p] = "left" THEN [conn EXCEPT ![p] = "gone"] ELSE conn

\* misbehaving and dos close the connection, but only a while later.
Ban(ps) == banned' = banned \cup {p \in ps : conn[p] = "open"}

OnConnect(p) ==
    /\ conn[p] = "new"
    /\ conn' = [conn EXCEPT ![p] = "open"]
    /\ tasks' = OnHeadersRequested(UnusefulPeers(tasks, {p}), {p})
    /\ UNCHANGED <<banned, chain, pool, state, futures, queue, finishing>>

OnDisconnect(p) ==
    /\ conn[p] = "open"
    /\ p \notin finishing
    /\ conn' = [conn EXCEPT ![p] = IF LateMessages THEN "left" ELSE "gone"]
    /\ banned' = banned \ {p}
    /\ LET t == DisconnectPeer(ResetBlocksTasks(tasks, {p}), p)
       IN  \E c \in ExecuteSynchronizationTasks(Core(chain, pool, t, state), {EntriesOf(tasks, {p})}, {}) :
               Become(c)
    /\ UNCHANGED <<futures, queue, finishing>>

\* The peer has at least one of the blocks it was asked for not.
OnNotFound(p) ==
    /\ Receives(p)
    /\ p \in Asked(tasks)
    /\ Ban(IF state = "Synchronizing" THEN {p} ELSE {})
    /\ LET t == UnusefulPeers(ResetBlocksTasks(tasks, {p}), {p})
       IN  \E c \in ExecuteSynchronizationTasks(Core(chain, pool, t, state), {EntriesOf(tasks, {p})}, {}) :
               Become(c)
    /\ UNCHANGED <<futures, queue, finishing>>

-----------------------------------------------------------------------------
\* Headers.

IsUnknown(h) == BlockState(chain, h) = "Unknown"

HeadersAfterUnknownBlock(p, list) ==
    /\ IsUnknown(Parent[list[1]])
    /\ tasks' = Penalize(OnHeadersReceived(tasks, p), {p})
    /\ Ban(Excluded(tasks, {p}))
    /\ UNCHANGED <<chain, pool, state>>

KnownHeaders(p, list) ==
    /\ ~IsUnknown(Parent[list[1]])
    /\ ~IsUnknown(list[1]) /\ ~IsUnknown(list[Len(list)])
    /\ tasks' = UsefulPeer(OnHeadersReceived(tasks, p), p)
    /\ UNCHANGED <<banned, chain, pool, state>>

\* Where the unknown headers of a list begin, and what is before them.
FirstUnknown(list) ==
    CHOOSE i \in DOMAIN list : IsUnknown(list[i]) /\ \A j \in 1..i - 1 : ~IsUnknown(list[j])

LastKnown(list) ==
    IF FirstUnknown(list) = 1 THEN Parent[list[1]] ELSE list[FirstUnknown(list) - 1]

\* verify_headers on the headers from the first unknown one on: why the header
\* at i is refused.
Refusals(list, i) ==
    LET before == IF i = FirstUnknown(list) THEN LastKnown(list) ELSE list[i - 1]
    IN  IF Parent[list[i]] # before THEN {"unlinked"}
        ELSE IF ~IsUnknown(list[i]) THEN {BlockState(chain, list[i])}
        ELSE IF list[i] \in BadHeaders THEN {"invalid"}
        ELSE {}

FirstRefused(list) ==
    {i \in FirstUnknown(list)..Len(list) :
        /\ Refusals(list, i) # {}
        /\ \A j \in FirstUnknown(list)..i - 1 : Refusals(list, j) = {}}

\* Mutant: the index of verify_headers is taken as one into the whole message.
RefusedFromTheStart(list, i) == list[i - FirstUnknown(list) + 1]

\* What is marked as a dead end: verify_headers counts from the first unknown
\* header on.
Refused(list, i) == list[i]

RefusedHeaders(p, list) ==
    \E i \in FirstRefused(list) :
        /\ \/ /\ Refusals(list, i) = {"unlinked"} \/ (Refusals(list, i) = {"DeadEnd"} /\ CloseOnBadBlock)
              /\ tasks' = OnHeadersReceived(tasks, p)
              /\ Ban({p})
              /\ UNCHANGED chain
           \/ /\ Refusals(list, i) \subseteq BlockStates
              /\ ~(Refusals(list, i) = {"DeadEnd"} /\ CloseOnBadBlock)
              /\ tasks' = UsefulPeer(OnHeadersReceived(tasks, p), p)
              /\ UNCHANGED <<banned, chain>>
           \/ /\ Refusals(list, i) = {"invalid"}
              /\ tasks' = OnHeadersReceived(tasks, p)
              /\ Ban(IF CloseOnBadBlock THEN {p} ELSE {})
              /\ chain' = MarkDeadEndBlock(chain, Refused(list, i))
        /\ UNCHANGED <<pool, state>>

AcceptedHeaders(p, list) ==
    LET new == {list[i] : i \in FirstUnknown(list)..Len(list)}
        ch == ScheduleBlocksHeaders(chain, new)
        pending == Cardinality(ch.scheduled) + Cardinality(ch.requested)
        st == IF state # "Synchronizing" /\ pending = 1 THEN "NearlySaturated" ELSE "Synchronizing"
        t == UsefulPeer(OnHeadersReceived(tasks, p), p)
    IN  /\ FirstRefused(list) = {}
        /\ \E c \in ExecuteSynchronizationTasks(Core(ch, pool, t, st), {}, {}) : Become(c)
        /\ UNCHANGED banned

NewHeaders(p, list) ==
    /\ ~IsUnknown(Parent[list[1]])
    /\ IsUnknown(list[1]) \/ IsUnknown(list[Len(list)])
    /\ IF CloseOnBadBlock /\ BlockState(chain, LastKnown(list)) = "DeadEnd"
       THEN /\ tasks' = OnHeadersReceived(tasks, p)
            /\ Ban({p})
            /\ UNCHANGED <<chain, pool, state>>
       ELSE RefusedHeaders(p, list) \/ AcceptedHeaders(p, list)

OnHeaders(p, list) ==
    /\ Receives(p)
    /\ HeadersAfterUnknownBlock(p, list) \/ KnownHeaders(p, list) \/ NewHeaders(p, list)
    /\ UNCHANGED <<futures, queue, finishing>>

-----------------------------------------------------------------------------
\* Blocks: the first half of on_block, one action for each way it ends.

\* The block is already verifying or stored.
ProcessedBlock(p, b) ==
    /\ BlockState(chain, b) \in {"Verifying", "Stored"}
    /\ tasks' = UsefulPeer(OnBlockReceived(tasks, p, b), p)
    /\ UNCHANGED <<banned, chain, pool, futures, queue>>

Unprocessed(b) == BlockState(chain, b) \notin {"Verifying", "Stored"}

IsDeadEnd(b) == "DeadEnd" \in {BlockState(chain, b), BlockState(chain, Parent[b])}

DeadEndBlock(p, b) ==
    /\ Unprocessed(b)
    /\ CloseOnBadBlock /\ IsDeadEnd(b)
    /\ tasks' = OnBlockReceived(tasks, p, b)
    /\ Ban({p})
    /\ UNCHANGED <<chain, pool, futures, queue>>

\* Nothing is known of the parent, or only that it is a dead end.
UnknownBlock(p, b) ==
    /\ Unprocessed(b)
    /\ ~(CloseOnBadBlock /\ IsDeadEnd(b))
    /\ BlockState(chain, Parent[b]) \in {"Unknown", "DeadEnd"}
    /\ tasks' = OnBlockReceived(tasks, p, b)
    /\ IF state = "Synchronizing"
       THEN /\ chain' = ForgetBlocksLeaveHeader(ForgetBlocks(chain, {b}), BlocksForParents(pool, {b}))
            /\ pool' = RemoveBlocksForParents(pool, {b})
       ELSE /\ chain' = ForgetBlocksLeaveHeader(chain, {b})
            /\ pool' = IF b \in pool.unknown THEN pool ELSE InsertUnknownBlock(pool, b)
    /\ UNCHANGED <<banned, futures, queue>>

\* The parent is still to come.
OrphanedBlock(p, b) ==
    /\ Unprocessed(b)
    /\ ~(CloseOnBadBlock /\ IsDeadEnd(b))
    /\ BlockState(chain, Parent[b]) \in {"Requested", "Scheduled"}
    /\ tasks' = UsefulPeer(OnBlockReceived(tasks, p, b), p)
    /\ pool' = InsertOrphanedBlock(pool, b)
    /\ UNCHANGED <<banned, chain, futures, queue>>

\* The orders in which a block and the orphans above it are verified: parents
\* first, children of different parents in any order.
VerificationOrders(bs) ==
    {s \in [1..Cardinality(bs) -> bs] :
        \A i, j \in 1..Cardinality(bs) : i < j => s[i] # s[j] /\ Height[s[i]] <= Height[s[j]]}

VerifiableBlock(p, b) ==
    LET bs == {b} \cup BlocksForParents(pool, {b})
    IN  /\ Unprocessed(b)
        /\ ~(CloseOnBadBlock /\ IsDeadEnd(b))
        /\ BlockState(chain, Parent[b]) \in {"Verifying", "Stored"}
        /\ tasks' = UsefulPeer(OnBlockReceived(tasks, p, b), p)
        /\ pool' = RemoveBlocksForParents(pool, {b})
        /\ chain' \in VerifyBlocks(ForgetBlocksLeaveHeader(chain, bs), bs)
        /\ byPeer' = [h \in Blocks |-> IF h \in bs THEN p ELSE byPeer[h]]
        /\ waiting' = [waiting EXCEPT ![p] = @ \cup bs]
        /\ \E s \in VerificationOrders(bs) : queue' = queue \o s
        /\ UNCHANGED <<banned, deferred>>

OnBlock(p, b) ==
    /\ Len(queue) < MaxQueue
    /\ Receives(p)
    /\ \/ ProcessedBlock(p, b)
       \/ DeadEndBlock(p, b)
       \/ UnknownBlock(p, b)
       \/ OrphanedBlock(p, b)
       \/ VerifiableBlock(p, b)
    /\ finishing' = finishing \cup {p}
    /\ UNCHANGED state

\* The second half of on_block.
FinishBlock(p) ==
    /\ p \in finishing
    /\ finishing' = finishing \ {p}
    /\ LET c == Core(chain, pool, tasks, state)
       IN  IF chain.scheduled = {} /\ chain.requested = {}
           THEN Become(SwitchToSaturatedState(c))
           ELSE \E d \in ExecuteSynchronizationTasks(c, {}, {}) : Become(d)
    /\ UNCHANGED <<conn, banned, futures, queue>>

-----------------------------------------------------------------------------
\* The verification thread, with the core's sink it calls.

Accepts(b) == b \notin BadHeaders \cup BadBlocks /\ Parent[b] \in chain.stored

\* after_peer_nearly_blocks_verified: the future waits if the peer's blocks are
\* verifying and we are not synchronizing; else it runs at once.
AfterPeerNearlyBlocksVerified(p) ==
    /\ conn[p] = "open" /\ p \notin finishing
    /\ state # "Synchronizing"
    /\ waiting[p] # {}
    /\ deferred' = deferred \cup {p}
    /\ UNCHANGED <<conn, banned, core, byPeer, waiting, queue, finishing>>

\* The mutant looks for the peer's blocks only when its last one is verified.
AwakeWaitingThreadsLate(b) ==
    /\ byPeer' = [byPeer EXCEPT ![b] = NoPeer]
    /\ waiting' = [p \in Peers |-> IF waiting[p] = {b} THEN {} ELSE waiting[p]]
    /\ deferred' = {p \in deferred : waiting[p] # {b}}

AwakeWaitingThreads(b) ==
    /\ byPeer' = [byPeer EXCEPT ![b] = NoPeer]
    /\ waiting' = [p \in Peers |-> IF byPeer[b] = p THEN waiting[p] \ {b} ELSE waiting[p]]
    /\ deferred' = {p \in deferred : byPeer[b] = p => waiting[p] \ {b} # {}}

OnBlockVerificationSuccess ==
    /\ queue # <<>>
    /\ Head(queue) \notin chain.stored
    /\ Accepts(Head(queue))
    /\ queue' = Tail(queue)
    /\ AwakeWaitingThreads(Head(queue))
    /\ LET b == Head(queue)
           ch == IF b \in chain.verifying
                 THEN InsertBestBlock([chain EXCEPT !.verifying = @ \ {b}], b)
                 ELSE chain
       IN  \E c \in ExecuteSynchronizationTasks(Core(ch, pool, tasks, state), {}, {}) : Become(c)
    /\ UNCHANGED <<conn, banned, finishing>>

OnBlockVerificationError ==
    /\ queue # <<>>
    /\ Head(queue) \notin chain.stored
    /\ ~Accepts(Head(queue))
    /\ queue' = Tail(queue)
    /\ Ban(IF CloseOnBadBlock THEN {byPeer[Head(queue)]} \ {NoPeer} ELSE {})
    /\ AwakeWaitingThreads(Head(queue))
    /\ LET b == Head(queue)
           ch == MarkDeadEndBlock(ForgetBlocksWithChildren(chain, {b}), b)
       IN  \E c \in ExecuteSynchronizationTasks(Core(ch, pool, tasks, state), {}, {}) : Become(c)
    /\ UNCHANGED <<conn, finishing>>

-----------------------------------------------------------------------------
\* The management worker.

Option(entries) == IF entries = {} THEN {} ELSE {entries}

\* How many of the entries are for b.
Copies(entries, b) == Cardinality({e \in entries : e[1] = b})

\* on_blocks_failure: the entries that have failed too often.
FailedEntries(entries) ==
    {failed \in SUBSET entries :
        \A b \in Blocks : Copies(failed, b) = FailedAfter(tasks, b, Copies(entries, b))}

\* The requests of the stalled peers are taken back, and the worst of these
\* peers are excluded.
ManagePeers(stalled) ==
    LET entries == EntriesOf(tasks, stalled)
        excluded == Excluded(tasks, stalled)
        t == [UnusefulPeers(Penalize(ResetBlocksTasks(tasks, stalled), stalled), excluded) EXCEPT
                !.blockFailures = [b \in Blocks |-> FailuresAfter(tasks, b, Copies(entries, b))]]
    IN  /\ state # "Saturated"
        /\ \E failed \in FailedEntries(entries) :
           LET ch == ForgetBlocksWithChildren(chain, BlocksIn(failed))
           IN  \E c \in ExecuteSynchronizationTasks(Core(ch, pool, t, state),
                                                    Option(entries \ failed), Option(failed)) :
               \E late \in SUBSET ((tasks.headersRequests \cap c.tasks.headersRequests) \ Asked(c.tasks)) :
                   /\ Become([c EXCEPT !.tasks = Penalize(OnPeerHeadersFailure(@, late), late)])
                   /\ Ban(excluded \cup Excluded(c.tasks, late))
        /\ UNCHANGED <<conn, futures, queue, finishing>>

ManageSynchronization == \E stalled \in SUBSET Asked(tasks) : ManagePeers(stalled)

ManageUnknownOrphanedBlocks ==
    /\ state = "Saturated"
    /\ \E old \in SUBSET pool.unknown \ {{}} :
           /\ chain' = ForgetBlocks(chain, RemovedBlocks(pool, old))
           /\ pool' = RemoveBlocks(pool, old)
    /\ UNCHANGED <<conn, banned, tasks, state, futures, queue, finishing>>

-----------------------------------------------------------------------------
Next ==
    \/ \E p \in Peers :
           \/ OnConnect(p)
           \/ OnDisconnect(p)
           \/ OnNotFound(p)
           \/ \E list \in HeaderLists : OnHeaders(p, list)
           \/ \E b \in Blocks : OnBlock(p, b)
           \/ FinishBlock(p)
           \/ AfterPeerNearlyBlocksVerified(p)
    \/ OnBlockVerificationSuccess
    \/ OnBlockVerificationError
    \/ ManageSynchronization
    \/ ManageUnknownOrphanedBlocks

Spec == Init /\ [][Next]_vars

\* A peer that leaves a request unanswered is found late.
TimeOut(p) == p \in Asked(tasks) /\ ManagePeers({p})

CloseBanned(p) == p \in banned /\ OnDisconnect(p)

Verify == OnBlockVerificationSuccess \/ OnBlockVerificationError

Verifiable == queue # <<>> /\ Head(queue) \notin chain.stored

(***************************************************************************)
(* The threads run and timers expire; nothing is asked of the peers.  Weak *)
(* fairness of Verify, FinishBlock(p) and TimeOut(p), strong fairness of   *)
(* CloseBanned(p), with the conditions that enable them spelled out.       *)
(***************************************************************************)
Fairness ==
    /\ []<>~Verifiable \/ []<><<Verify>>_vars
    /\ \A p \in Peers :
        /\ []<>(p \notin finishing) \/ []<><<FinishBlock(p)>>_vars
        /\ <>[](p \notin banned) \/ []<><<CloseBanned(p)>>_vars
        /\ []<>(p \notin Asked(tasks) \/ state = "Saturated") \/ []<><<TimeOut(p)>>_vars

FairSpec == Spec /\ Fairness

-----------------------------------------------------------------------------
\* Properties.

Pending(ch) == ch.scheduled \cup ch.requested

\* No block is in two queues, or both queued and stored: the next move of a
\* block between queues would make HashQueue::push_back panic, and forgetting a
\* block would leave a copy behind.
QueuesDisjoint ==
    /\ chain.verifying \cap Pending(chain) = {}
    /\ chain.scheduled \cap chain.requested = {}
    /\ chain.stored \cap (chain.verifying \cup Pending(chain)) = {}

\* A peer with a pending blocks request is useful and not idle: the assertions
\* of PeersTasks::unuseful_peer and disconnect, and the doc of idle_for_blocks.
AskedPeersAreBusy == Asked(tasks) \subseteq UsefulPeers(tasks) \ tasks.idleBlocks

\* A block stays in the requested queue only while a peer is asked for it or it
\* waits in the orphan pool: try_switch_to_saturated_state waits for this queue
\* to empty, whatever peers disconnect, time out or answer with notfound.
RequestedIsAsked ==
    \A h \in chain.requested : h \in pool.blocks \/ \E p \in Peers : h \in tasks.blocksRequests[p]

\* What State says: nothing is to be downloaded when saturated, at most one
\* block when nearly saturated.
StateMatchesQueues ==
    /\ state = "Saturated" => Pending(chain) = {}
    /\ state = "NearlySaturated" => Cardinality(Pending(chain)) <= 1

\* The headers chain, which block locators are made of, has only headers of
\* blocks that are still on their way to storage.
HeadersAreQueued == chain.headers \subseteq chain.verifying \cup Pending(chain)

\* The verification thread is never handed a block that is stored by the time it
\* gets to it: ChainVerifier::verify_block ends in unreachable!() there.
NoKnownBlock == queue # <<>> => Head(queue) \notin chain.stored

\* A block that is marked as a dead end is invalid, or has an invalid ancestor:
\* a dead end is never asked for again, and who sends it is disconnected.
DeadEndsAreInvalid == \A b \in chain.dead : Ancestors[b] \cap (BadBlocks \cup BadHeaders) # {}

\* A block in the verifying queue has a task in the verification thread: nothing
\* else takes it out of this queue.
VerifyingIsQueued == chain.verifying \subseteq Elements(queue)

\* A block in the orphan pool is neither verifying nor stored: when the worker
\* removes it from the pool, it forgets it in the queues as well.
OrphansAreUnprocessed == pool.blocks \cap (chain.stored \cup chain.verifying) = {}

\* Whatever the peers do or fail to do, synchronization comes to an end.
SynchronizationEnds == state = "Synchronizing" ~> state # "Synchronizing"

\* A future that waits for the verification of a peer's blocks is executed.
FuturesRun == \A p \in Peers : p \in deferred ~> p \notin deferred

\* A block is in one place at a time, and where the rest of the client takes it to be:
\* no queue is pushed a block that is in another one (HashPosition panics), the
\* verifying blocks have tasks, orphans wait for both, the headers chain and the
\* state follow the queues.
QueuesAgree ==
    /\ TypeOK /\ QueuesDisjoint /\ VerifyingIsQueued /\ OrphansAreUnprocessed
    /\ HeadersAreQueued /\ StateMatchesQueues

\* No request is lost sight of: a requested block is asked of some peer, and the
\* peers asked are busy, whatever times out, disconnects or answers late.
RequestsAreTracked == AskedPeersAreBusy /\ RequestedIsAsked

\* Not kept when CloseOnBadBlock is off: what the futures of a peer wait for is going to be verified, and this peer's
\* futures are awoken then (after_peer_nearly_blocks_verified).
FuturesAreAwoken ==
    /\ deferred \subseteq {p \in Peers : waiting[p] # {}}
    /\ \A p \in Peers : \A h \in waiting[p] : h \in Elements(queue) /\ byPeer[h] = p
=============================================================================
