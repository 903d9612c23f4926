---------------------------- MODULE ChainQueues ----------------------------
(***************************************************************************)
(* Chain of the sync crate with its queues in order: HashQueue, the chain  *)
(* of three of them, BestHeadersChain, the operations on them, and what is *)
(* asked of them: blocks by number, the headers a headers message is       *)
(* verified against, and the block locator sent to peers.                  *)
(*                                                                         *)
(* SyncChain, which the client is built on, has sets where these have      *)
(* queues.  ImplementsSyncChain says that each operation does to the       *)
(* queues what SyncChain's does to their sets.                             *)
(***************************************************************************)
EXTENDS SyncChain, SequencesExt

\* An Option: no element or one.
None == <<>>
Some(x) == <<x>>
OrElse(option, x) == IF option = None THEN x ELSE option[1]

-----------------------------------------------------------------------------
\* HashQueue: a sequence, and the set that answers contains().

NewQueue == [queue |-> <<>>, set |-> {}]

FrontOf(q) == IF q.queue = <<>> THEN None ELSE Some(q.queue[1])
BackOf(q) == IF q.queue = <<>> THEN None ELSE Some(Last(q.queue))

\* Positions start at 0.
At(q, pos) == IF pos < Len(q.queue) THEN Some(q.queue[pos + 1]) ELSE None

Position(q, h) ==
    LET found == {i \in DOMAIN q.queue : q.queue[i] = h}
    IN  IF found = {} THEN None ELSE Some(Min(found) - 1)

FrontN(q, n) == SubSeq(q.queue, 1, Min({n, Len(q.queue)}))

PopFrontN(q, n) ==
    [queue |-> SubSeq(q.queue, Len(FrontN(q, n)) + 1, Len(q.queue)),
     set |-> q.set \ ToSet(FrontN(q, n))]

PopFront(q) == PopFrontN(q, 1)

\* The caller has made sure that the elements are new: push_back panics.
MayPush(q, hs) == IsInjective(hs) /\ ToSet(hs) \cap q.set = {}
PushBackN(q, hs) == [queue |-> q.queue \o hs, set |-> q.set \cup ToSet(hs)]

\* The element is looked up in the set and removed from the sequence.
RemoveFrom(q, h) ==
    IF h \notin q.set THEN q
    ELSE [queue |-> RemoveAt(q.queue, Position(q, h)[1] + 1), set |-> q.set \ {h}]

-----------------------------------------------------------------------------
\* HashQueueChain: queues 1, 2 and 3 are the verifying, the requested and the
\* scheduled blocks.

Verifying == 1
Requested == 2
Scheduled == 3

ChainLen(qs) == FoldSeq(LAMBDA q, total : Len(q.queue) + total, 0, qs)

\* The element at an index of the whole chain: each queue it is beyond is
\* subtracted from it.
ChainAt(qs, index) ==
    LET Before(k) == ChainLen(SubSeq(qs, 1, k - 1))
        in == {k \in DOMAIN qs : Before(k) <= index /\ index < Before(k) + Len(qs[k].queue)}
    IN  IF in = {} THEN None ELSE At(qs[Min(in)], index - Before(Min(in)))

\* back() goes from the last queue to the second: it never looks at the first.
ChainBack(qs) ==
    LET filled == {k \in 2 .. Len(qs) : qs[k].queue # <<>>}
    IN  IF filled = {} THEN None ELSE BackOf(qs[Max(filled)])

ContainsIn(qs, h) ==
    LET in == {k \in DOMAIN qs : h \in qs[k].set}
    IN  IF in = {} THEN None ELSE Some(Min(in))

-----------------------------------------------------------------------------
\* BestHeadersChain.

NewHeaders(best) == [storageBest |-> best, headers |-> {}, best |-> NewQueue]

BestHash(hc) == OrElse(BackOf(hc.best), hc.storageBest)

Insert(hc, h) ==
    IF Parent[h] = BestHash(hc)
    THEN [hc EXCEPT !.headers = @ \cup {h}, !.best = PushBackN(@, <<h>>)]
    ELSE hc

InsertN(hc, hs) == FoldLeft(Insert, hc, hs)

Clear(hc) == [hc EXCEPT !.headers = {}, !.best = NewQueue]

\* clear_after: the headers from position on.
ClearAfter(hc, pos) ==
    IF pos = 0 THEN Clear(hc)
    ELSE LET n == Len(hc.best.queue)
         IN  [hc EXCEPT !.headers = @ \ ToSet(SubSeq(hc.best.queue, pos + 1, n)),
                        !.best = [queue |-> SubSeq(@.queue, 1, pos),
                                  set |-> @.set \ ToSet(SubSeq(@.queue, pos + 1, n))]]

\* remove: the header leaves the queue first, so that the position it had is
\* the one of its child.
RemoveHeader(hc, h) ==
    LET pos == Position(hc.best, h)
        rest == [hc EXCEPT !.headers = @ \ {h}, !.best = RemoveFrom(@, h)]
    IN  IF h \notin hc.headers THEN hc
        ELSE IF pos = None THEN rest
        ELSE ClearAfter(rest, pos[1])

RemoveN(hc, hs) == FoldLeft(RemoveHeader, hc, hs)

Children(hc, h) ==
    LET pos == Position(hc.best, h)
    IN  IF pos = None THEN None ELSE At(hc.best, pos[1] + 1)

InsertedToStorage(hc, h, best) ==
    [storageBest |-> best,
     headers |-> IF FrontOf(hc.best) = Some(h) THEN hc.headers \ {h} ELSE hc.headers,
     best |-> IF FrontOf(hc.best) = Some(h) THEN PopFront(hc.best) ELSE hc.best]

-----------------------------------------------------------------------------
\* Chain.  A chain is [queues, headers, stored, best, dead].

Queue(c, k) == c.queues[k]

Schedule(c, hs) ==
    [c EXCEPT !.queues[Scheduled] = PushBackN(@, hs), !.headers = InsertN(@, hs)]

Request(c, n) ==
    LET moved == FrontN(Queue(c, Scheduled), n)
    IN  [c EXCEPT !.queues[Scheduled] = PopFrontN(@, n),
                  !.queues[Requested] = PushBackN(@, moved)]

VerifyInOrder(c, hs) ==
    [c EXCEPT !.queues[Verifying] = PushBackN(@, hs), !.headers = InsertN(@, hs)]

\* forget_block_leave_header: out of the first queue that has the block.
LeaveHeader(c, h) ==
    LET in == ContainsIn(c.queues, h)
    IN  IF in = None THEN c ELSE [c EXCEPT !.queues[in[1]] = RemoveFrom(@, h)]

Forget(c, h) == LeaveHeader([c EXCEPT !.headers = RemoveHeader(@, h)], h)

\* forget_block_with_children: down the headers chain first, then back up.
ForgetWithChildren(c, h) ==
    LET hc == c.headers
        line[k \in 0 .. Len(hc.best.queue)] ==
            IF k = 0 THEN <<h>> ELSE line[k - 1] \o Children(hc, Last(line[k - 1]))
        last == line[Len(hc.best.queue)]
        down == SubSeq(last, 1, Cardinality(ToSet(last)))
    IN  FoldLeft(Forget, c, Reverse(down))

\* forget_all_blocks_with_state.
ForgetAll(c, k) ==
    [c EXCEPT !.queues[k] = NewQueue, !.headers = RemoveN(@, Queue(c, k).queue)]

InsertBest(c, b) ==
    LET best == IF Height[b] > Height[c.best] THEN b ELSE c.best
    IN  [c EXCEPT !.stored = @ \cup {b}, !.best = best,
                  !.headers = InsertedToStorage(@, b, best)]

-----------------------------------------------------------------------------
\* What is asked of a chain.

\* storage.block_hash: the main chain's block with a number.
StorageHash(c, n) ==
    LET at == {b \in Ancestors[c.best] : Height[b] = n}
    IN  IF at = {} THEN None ELSE Some(CHOOSE b \in at : TRUE)

\* best_block and best_block_header: the tip, with its number.
TipOfQueues(c) ==
    LET back == ChainBack(c.queues)
    IN  IF back = None THEN [number |-> Height[c.best], hash |-> c.best]
        ELSE [number |-> Height[c.best] + ChainLen(c.queues), hash |-> back[1]]

TipOfHeaders(c) ==
    LET n == Len(c.headers.best.queue)
    IN  IF n = 0 THEN [number |-> Height[c.best], hash |-> c.best]
        ELSE [number |-> Height[c.best] + n, hash |-> At(c.headers.best, n - 1)[1]]

\* block_number: the position in the headers chain, counted from the best block.
NumberOf(c, h) ==
    LET pos == Position(c.headers.best, h)
    IN  IF h \in Ancestors[c.best] THEN Some(Height[h])
        ELSE IF pos = None THEN None
        ELSE Some(Height[c.best] + pos[1] + 1)

\* block_hash and block_header_by_number: positions above the best block are
\* counted from 1, positions in the queues from 0.
HashByNumber(c, n) ==
    IF n <= Height[c.best] THEN StorageHash(c, n) ELSE ChainAt(c.queues, n - Height[c.best])

HeaderByNumber(c, n) ==
    IF n <= Height[c.best] THEN StorageHash(c, n) ELSE At(c.headers.best, n - Height[c.best])

HeaderByHash(c, h) == IF h \in c.stored \/ h \in c.headers.headers THEN Some(h) ELSE None

\* MessageBlockHeadersProvider: the headers of a message that were verified,
\* numbered from the one after the best header on.
MessageHeaderByNumber(c, list, n) ==
    LET first == TipOfHeaders(c).number + 1
    IN  IF HeaderByNumber(c, n) # None THEN HeaderByNumber(c, n)
        ELSE IF n >= first /\ n - first < Len(list) THEN Some(list[n - first + 1])
        ELSE None

MessageHeaderByHash(c, list, h) ==
    IF HeaderByHash(c, h) # None THEN HeaderByHash(c, h)
    ELSE IF h \in ToSet(list) THEN Some(h) ELSE None

-----------------------------------------------------------------------------
\* Block locators, as the indices of the hashes in the queues and in storage.

DenseHashes == 10  \* after so many hashes the step doubles each time
MaxHashes == 20    \* bound on the length of a locator: enough for 1000 blocks

\* The step of both loops, once so many hashes were pushed.
LocatorStep(pushed, step) == IF pushed >= DenseHashes THEN 2 * step ELSE step

\* block_locator_hashes_for_queue: the indices, and where storage goes on.
QueueLocator(len) ==
    LET walk[k \in 0 .. MaxHashes] ==
            IF k = 0 THEN [indices |-> <<>>, index |-> len - 1, step |-> 1, done |-> len = 0, rest |-> 0]
            ELSE LET w == walk[k - 1]
                     step == LocatorStep(Len(w.indices) + 1, w.step)
                 IN  IF w.done THEN w
                     ELSE [indices |-> Append(w.indices, w.index), step |-> step,
                           index |-> IF w.index < step THEN w.index ELSE w.index - step,
                           done |-> w.index < step,
                           rest |-> IF w.index < step THEN step - w.index - 1 ELSE 0]
    IN  walk[MaxHashes]

\* block_locator_hashes_for_storage, after pushed hashes: genesis comes last.
StorageLocator(from, pushed, first) ==
    LET walk[k \in 0 .. MaxHashes] ==
            IF k = 0 THEN [numbers |-> <<>>, index |-> from, step |-> first, done |-> FALSE]
            ELSE LET w == walk[k - 1]
                     step == LocatorStep(pushed + Len(w.numbers) + 1, w.step)
                     push == Append(w.numbers, w.index)
                 IN  IF w.done THEN w
                     ELSE IF w.index < step
                     THEN [w EXCEPT !.numbers = IF w.index # 0 THEN Append(push, 0) ELSE push,
                                    !.done = TRUE]
                     ELSE [numbers |-> push, index |-> w.index - step, step |-> step, done |-> FALSE]
    IN  walk[MaxHashes].numbers

\* block_locator_hashes of a chain with best stored block number best and len
\* blocks in its queues, as numbers: the block at index i has number best + 1 + i.
LocatorNumbers(best, len) ==
    LET q == QueueLocator(len)
        from == IF best < q.rest THEN 0 ELSE best - q.rest
    IN  [i \in DOMAIN q.indices |-> best + 1 + q.indices[i]]
            \o StorageLocator(from, Len(q.indices), q.step)
-----------------------------------------------------------------------------
\* Steps of a chain, as the client takes them.

NewQueues(best) ==
    [queues |-> <<NewQueue, NewQueue, NewQueue>>, headers |-> NewHeaders(best),
     stored |-> {Genesis}, best |-> best, dead |-> {}]

\* The chain as SyncChain has it.
Sets(c) ==
    [stored |-> c.stored, best |-> c.best, dead |-> c.dead,
     headers |-> ToSet(c.headers.best.queue), scheduled |-> ToSet(Queue(c, Scheduled).queue),
     requested |-> ToSet(Queue(c, Requested).queue), verifying |-> ToSet(Queue(c, Verifying).queue)]

StateOf(c, h) == BlockState(Sets(c), h)

\* Headers of a message are linked; blocks that were orphans come after their parents.
Linked(hs) == \A i \in 2 .. Len(hs) : Parent[hs[i]] = hs[i - 1]
ParentsFirst(hs) == \A i \in 2 .. Len(hs) : \E j \in 1 .. i - 1 : hs[j] = Parent[hs[i]]

Lists == UNION {{hs \in [1 .. n -> Blocks \ {Genesis}] : IsInjective(hs)} : n \in 1 .. 3}

Step(next, sets) == [next |-> next, sets |-> sets]

\* Each operation in a state it is called in: the chain it leaves, and those
\* that SyncChain allows.
ChainSteps(c) ==
    LET s == Sets(c)
        queued == s.verifying \cup s.requested \cup s.scheduled
    IN  {Step(Schedule(c, hs), {ScheduleBlocksHeaders(s, ToSet(hs))}) :
            hs \in {l \in Lists : /\ Linked(l) /\ \A h \in ToSet(l) : StateOf(c, h) = "Unknown"
                                  /\ StateOf(c, Parent[l[1]]) # "Unknown"}}
        \cup {Step(Request(c, n), {RequestBlocksHashes(s, ToSet(FrontN(Queue(c, Scheduled), n)))}) :
            n \in 1 .. Cardinality(s.scheduled)}
        \cup {Step(VerifyInOrder(c, hs), VerifyBlocks(s, ToSet(hs))) :
            hs \in {l \in Lists : /\ ParentsFirst(l) /\ ToSet(l) \cap (queued \cup c.stored) = {}
                                  /\ Parent[l[1]] \in s.verifying \cup c.stored}}
        \cup {Step(LeaveHeader(c, h), {ForgetBlocksLeaveHeader(s, {h})}) : h \in queued}
        \cup {Step(Forget(c, h), {ForgetBlocks(s, {h})}) : h \in queued}
        \cup {Step(ForgetWithChildren(c, h), {ForgetBlocksWithChildren(s, {h})}) : h \in queued}
        \cup {Step(ForgetAll(ForgetAll(c, Requested), Scheduled), {ForgetPendingBlocks(s)})}
        \cup {Step(InsertBest(c, b), {InsertBestBlock(s, b)}) :
            b \in {h \in Blocks \ (queued \cup c.stored) : Parent[h] \in c.stored}}

\* Each operation does to the queues and to the headers chain what SyncChain's
\* does to their sets; no block is pushed twice; and a queue's set, like the
\* headers by hash, has exactly the blocks of its sequence.
QueuesAgreeWithSets(c) ==
    /\ \A k \in DOMAIN c.queues : IsInjective(Queue(c, k).queue) /\ Queue(c, k).set = ToSet(Queue(c, k).queue)
    /\ IsInjective(c.headers.best.queue)
    /\ c.headers.headers = c.headers.best.set /\ c.headers.best.set = ToSet(c.headers.best.queue)

ImplementsSyncChain(c) ==
    /\ QueuesAgreeWithSets(c)
    /\ BestHash(c.headers) = BestHeader(Sets(c))
    /\ \A h \in Blocks :
           LET in == ContainsIn(c.queues, h)
           IN  StateOf(c, h) \in {"Verifying", "Requested", "Scheduled"} =>
                   StateOf(c, h) = <<"Verifying", "Requested", "Scheduled">>[in[1]]
    /\ \A step \in ChainSteps(c) : Sets(step.next) \in step.sets

\* Numbers are heights: those of the headers that follow the best block, of the
\* tip of queues that are one line above it, of stored blocks, and of the headers
\* of a message that is verified while no other headers are waiting.
NumbersAreHeights(c) ==
    LET line == c.headers.best.queue
        all == FlattenSeq([k \in DOMAIN c.queues |-> Queue(c, k).queue])
        Above(hs) == Linked(hs) /\ (hs # <<>> => Parent[hs[1]] = c.best)
        Exact(found, n) == found # None => Height[found[1]] = n
    IN  /\ Above(line) =>
               /\ \A h \in ToSet(line) : NumberOf(c, h) = Some(Height[h])
               /\ TipOfHeaders(c).number = Height[TipOfHeaders(c).hash]
        /\ Above(all) => TipOfQueues(c).number = Height[TipOfQueues(c).hash]
        /\ \A n \in 0 .. Height[c.best] : /\ Exact(HashByNumber(c, n), n) /\ Exact(HeaderByNumber(c, n), n)
                                          /\ HashByNumber(c, n) # None
        /\ line = <<>> =>
               \A list \in {l \in Lists : Above(l)} : \A n \in 0 .. MaxHeight :
                   Exact(MessageHeaderByNumber(c, list, n), n)
        /\ \A list \in Lists : \A h \in ToSet(list) : MessageHeaderByHash(c, list, h) = Some(h)

\* A block locator goes from the tip down to the genesis block, names the last
\* blocks one by one, does not depend on how much of the chain is still in the
\* queues, and leaves gaps no longer than the distance from the tip: a peer that
\* has left the chain at any block finds one it has at most twice as far back.
LocatorIsTight(best, len) ==
    LET tip == best + len
        numbers == LocatorNumbers(best, len)
        Found(fork) == Max({n \in ToSet(numbers) : n <= fork})
    IN  /\ numbers[1] = tip /\ Last(numbers) = 0
        /\ \A i \in 2 .. Len(numbers) : numbers[i] < numbers[i - 1]
        /\ numbers = LocatorNumbers(tip, 0)
        /\ \A fork \in 0 .. tip :
               /\ tip - fork < DenseHashes => Found(fork) = fork
               /\ tip - Found(fork) <= 2 * (tip - fork)
=============================================================================
