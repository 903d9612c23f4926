-------------------------- MODULE SyncClientProofs --------------------------
(***************************************************************************)
(* The handlers of the synchronization client, the verification thread and *)
(* the management worker keep queues, requests and verification tasks in   *)
(* agreement, for every tree of blocks, any number of peers, all limits.   *)
(***************************************************************************)
EXTENDS SyncClientSteps

\* A step hears of some peers, none of which is new.
Hears(heard) == \A q \in Peers : conn'[q] = "new" => conn[q] = "new" /\ q \notin heard

\* What every step does.
Kept ==
    /\ Client'
    /\ CloseOnBadBlock \/ (Requested(chain, pool, tasks) => Requested(chain', pool', tasks'))
    /\ GiveUp \/ (Verdicts(chain, queue) => Verdicts(chain', queue'))

\* Verdicts depend on storage, dead ends and the verifying blocks.
LEMMA SameVerdicts ==
    ASSUME NEW ch, NEW q, Verdicts(ch, q), NEW r,
           r.verifying = ch.verifying, r.stored = ch.stored, r.dead = ch.dead
    PROVE  Verdicts(r, q)
BY Zenon DEF Verdicts, TaskOK

\* A step that leaves the chain, the pool and the verification thread alone.
LEMMA TasksOnly ==
    ASSUME Client, NEW heard, NEW lost, TaskStep(tasks, tasks', heard, lost), Hears(heard), RestOK',
           UNCHANGED <<chain, pool, state, queue>>, CloseOnBadBlock \/ lost \cap chain.requested = {}
    PROVE  Kept
<1>1. ChainOK(chain', pool') /\ StateOK(chain', state') /\ TasksOK(tasks') /\ QueueOK(chain', queue')
  BY Zenon DEF Client, TaskStep
<1>2. NewOK(conn', tasks')
  BY Zenon DEF Client, NewOK, Hears, TaskStep
<1>3. CloseOnBadBlock \/ (Requested(chain, pool, tasks) => Requested(chain', pool', tasks'))
  BY Zenon DEF Client, ChainOK, Chain, Requested, TaskStep
<1> QED BY <1>1, <1>2, <1>3, Zenon DEF Client, Kept

\* A step that ends in execute_synchronization_tasks or in the saturated state.
LEMMA Becomes ==
    ASSUME NEW c, NEW d, CoreOK(d), SameBlocks(c, d), Become(d), NewOK(conn', c.tasks),
           QueueOK(c.chain, queue'), RestOK'
    PROVE  /\ Client' /\ (Tracked(d, {}) => Requested(chain', pool', tasks'))
           /\ Verdicts(c.chain, queue') => Verdicts(chain', queue')
<1>1. chain' = d.chain /\ pool' = d.pool /\ tasks' = d.tasks /\ state' = d.state
  BY Zenon DEF Become
<1>2. NewOK(conn', tasks') /\ QueueOK(chain', queue')
  BY <1>1, Zenon DEF NewOK, QueueOK, SameBlocks
<1>3. Client'
  BY <1>1, <1>2, Zenon DEF CoreOK, Client
<1>4. Tracked(d, {}) => Requested(chain', pool', tasks')
  BY <1>1, Zenon DEF Tracked, Requested
<1>5. Verdicts(c.chain, queue') => Verdicts(chain', queue')
  BY <1>1, SameVerdicts, Zenon DEF SameBlocks
<1> QED BY <1>3, <1>4, <1>5, Zenon

\* execute_synchronization_tasks(None, None).
LEMMA ExecutesFreely ==
    ASSUME NEW c, CoreOK(c), NEW d \in ExecuteSynchronizationTasks(c, {}, {})
    PROVE  CoreOK(d) /\ SameBlocks(c, d) /\ (Tracked(c, {}) => Tracked(d, {}))
<1>1. BlocksIn(UNION {}) = {} /\ {} \subseteq Blocks
  BY Zenon DEF BlocksIn
<1>2. CoreOK(d) /\ SameBlocks(c, d) /\ (Tracked(c, BlocksIn(UNION {})) => Tracked(d, {}))
  BY <1>1, Executes, Zenon
<1> QED BY <1>1, <1>2, Zenon

\* A message comes from a peer that is not new.
LEMMA ReceivedFromKnown ==
    ASSUME Client, NEW p \in Peers, Receives(p)
    PROVE  Hears({p}) /\ conn' \in [Peers -> {"new", "open", "left", "gone"}]
BY Zenon DEF Client, RestOK, Receives, Hears

\* misbehaving.
LEMMA BansPeers ==
    ASSUME Client, NEW ps \in SUBSET Peers, Ban(ps)
    PROVE  banned' \subseteq Peers
BY Zenon DEF Client, RestOK, Ban

\* on_connect.
LEMMA Connects ==
    ASSUME Client, NEW p \in Peers, OnConnect(p)
    PROVE  Kept
<1>1. PICK t : t = UnusefulPeers(tasks, {p})
  BY Zenon
<1>2. TasksOK(tasks) /\ p \notin Asked(tasks) /\ {p} \in SUBSET Peers
  BY Zenon DEF Client, NewOK, OnConnect, Known, TasksOK, UsefulPeers
<1>3. {p} \cap Asked(tasks) = {}
  BY <1>2, Zenon
<1>4. TaskStep(tasks, t, {p}, {})
  BY <1>1, <1>2, <1>3, PeersAreUnuseful, Zenon
<1>5. tasks' = OnHeadersRequested(t, {p})
  BY <1>1, Zenon DEF OnConnect
<1>6. TaskStep(t, tasks', {p}, {})
  BY <1>2, <1>4, <1>5, HeadersAreRequested, Zenon DEF TaskStep
<1>7. TaskStep(tasks, tasks', {p}, {})
  BY <1>4, <1>6, Zenon DEF TaskStep
<1>8. Hears({p}) /\ RestOK'
  BY Zenon DEF Client, RestOK, Hears, OnConnect, futures
<1>9. UNCHANGED <<chain, pool, state, queue>>
  BY Zenon DEF OnConnect
<1> QED BY <1>7, <1>8, <1>9, TasksOnly, Zenon

\* A step that takes back the blocks of a peer and asks for them again.
LEMMA AsksAgain ==
    ASSUME Client, NEW p \in Peers, NEW t, NEW heard, TaskStep(tasks, t, heard, tasks.blocksRequests[p]),
           Hears(heard), RestOK', UNCHANGED queue,
           NEW d \in ExecuteSynchronizationTasks(Core(chain, pool, t, state), {EntriesOf(tasks, {p})}, {}),
           Become(d)
    PROVE  Kept
<1>1. PICK c : c = Core(chain, pool, t, state)
  BY Zenon
<1>2. c.chain = chain /\ c.pool = pool /\ c.tasks = t /\ c.state = state /\ c = Core(c.chain, c.pool, c.tasks, c.state)
  BY <1>1, CoreFields
<1>3. CoreOK(c)
  BY <1>2, Zenon DEF CoreOK, Client, TaskStep
<1>4. PICK forced : forced = {EntriesOf(tasks, {p})}
  BY Zenon
<1>5. UNION forced = EntriesOf(tasks, {p}) /\ UNION {} = {}
  BY <1>4, Zenon
<1>6. BlocksIn(UNION forced) \subseteq Blocks /\ BlocksIn(UNION {}) \subseteq Blocks
  BY <1>5, Zenon DEF EntriesOf, BlocksIn
<1>7. CoreOK(d) /\ SameBlocks(c, d) /\ (Tracked(c, BlocksIn(UNION forced)) => Tracked(d, {}))
  BY <1>1, <1>3, <1>4, <1>6, Executes, Zenon
<1>8. \A h \in tasks.blocksRequests[p] : h \in BlocksIn(UNION forced)
  <2>1. \A h \in tasks.blocksRequests[p] : h \in Blocks
    BY Zenon DEF Client, TasksOK, PeersTasks, BlocksByPeer
  <2>2. \A h \in tasks.blocksRequests[p] : <<h, p>> \in UNION forced
    BY <1>5, <2>1, Zenon DEF EntriesOf
  <2>3. \A h \in tasks.blocksRequests[p] : \E e \in UNION forced : h = e[1]
    BY <2>2, Zenon
  <2> QED BY <2>3, Zenon DEF BlocksIn
<1>9. Requested(chain, pool, tasks) => Tracked(c, BlocksIn(UNION forced))
  BY <1>2, <1>8, Zenon DEF Requested, Tracked, TaskStep, Client, ChainOK, Chain
<1>10. NewOK(conn', c.tasks) /\ QueueOK(c.chain, queue')
  BY <1>2, Zenon DEF Client, NewOK, Hears, TaskStep
<1>11. /\ Client' /\ (Tracked(d, {}) => Requested(chain', pool', tasks'))
       /\ Verdicts(c.chain, queue') => Verdicts(chain', queue')
  BY <1>7, <1>10, Becomes, Zenon
<1> QED BY <1>2, <1>7, <1>9, <1>11, Zenon DEF Kept

\* on_disconnect.
LEMMA Disconnects ==
    ASSUME Client, NEW p \in Peers, OnDisconnect(p)
    PROVE  Kept
<1>1. PICK t : t = DisconnectPeer(ResetBlocksTasks(tasks, {p}), p)
  BY Zenon
<1>2. TaskStep(tasks, t, {}, tasks.blocksRequests[p])
  BY <1>1, PeerDisconnects, Zenon DEF Client
<1>3. PICK d \in ExecuteSynchronizationTasks(Core(chain, pool, t, state), {EntriesOf(tasks, {p})}, {}) : Become(d)
  BY <1>1, Zenon DEF OnDisconnect
<1>4. Hears({}) /\ conn' \in [Peers -> {"new", "open", "left", "gone"}]
  BY Zenon DEF Client, RestOK, Hears, OnDisconnect
<1>5. RestOK'
  BY <1>4, Zenon DEF Client, RestOK, OnDisconnect, futures
<1>6. UNCHANGED queue
  BY Zenon DEF OnDisconnect
<1> QED BY <1>2, <1>3, <1>4, <1>5, <1>6, AsksAgain, Zenon

\* on_notfound.
LEMMA FindsNot ==
    ASSUME Client, NEW p \in Peers, OnNotFound(p)
    PROVE  Kept
<1>1. PICK s : s = ResetBlocksTasks(tasks, {p})
  BY Zenon
<1>2. TasksOK(tasks) /\ {p} \in SUBSET Asked(tasks) /\ {p} \in SUBSET Peers
  BY Zenon DEF Client, OnNotFound
<1>3. /\ TaskStep(tasks, s, {}, BlocksIn(EntriesOf(tasks, {p}))) /\ Asked(s) = Asked(tasks) \ {p}
      /\ Known(s) = Known(tasks)
  BY <1>1, <1>2, BlocksTasksAreReset, Zenon
<1>4. BlocksIn(EntriesOf(tasks, {p})) \subseteq tasks.blocksRequests[p]
  BY Zenon DEF BlocksIn, EntriesOf
<1>5. PICK t : t = UnusefulPeers(s, {p})
  BY Zenon
<1>6. TaskStep(s, t, {p}, {})
  <2>1. TasksOK(s) /\ {p} \cap Asked(s) = {}
    BY <1>3, Zenon DEF TaskStep
  <2> QED BY <1>2, <1>5, <2>1, PeersAreUnuseful, Zenon
<1>7. TaskStep(tasks, t, {p}, tasks.blocksRequests[p])
  BY <1>3, <1>4, <1>6, Zenon DEF TaskStep
<1>8. PICK d \in ExecuteSynchronizationTasks(Core(chain, pool, t, state), {EntriesOf(tasks, {p})}, {}) : Become(d)
  BY <1>1, <1>5, Zenon DEF OnNotFound
<1>9. Receives(p) /\ UNCHANGED queue
  BY Zenon DEF OnNotFound
<1>10. Hears({p}) /\ conn' \in [Peers -> {"new", "open", "left", "gone"}]
  BY <1>9, ReceivedFromKnown, Zenon
<1>11. banned' \subseteq Peers
  <2>1. PICK ps \in SUBSET Peers : Ban(ps)
    BY <1>2, Zenon DEF OnNotFound
  <2> QED BY <2>1, BansPeers, Zenon
<1>12. RestOK'
  BY <1>10, <1>11, Zenon DEF Client, RestOK, OnNotFound, futures
<1> QED BY <1>7, <1>8, <1>9, <1>10, <1>12, AsksAgain, Zenon

-----------------------------------------------------------------------------
(* Headers.                                                                *)

\* A message with headers that are not all known has a first unknown one.
LEMMA FindsFirstUnknown ==
    ASSUME Library, NEW list \in HeaderLists, IsUnknown(list[1]) \/ IsUnknown(list[Len(list)])
    PROVE  /\ FirstUnknown(list) \in 1..Len(list) /\ IsUnknown(list[FirstUnknown(list)])
           /\ \A i \in 1..Len(list) : list[i] \in Blocks /\ list[i] # Genesis
<1>1. list \in Seq(Blocks \ {Genesis}) /\ list # <<>>
  BY SyncAssumption, Zenon
<1>2. Len(list) \in Nat /\ Len(list) # 0 /\ DOMAIN list = 1..Len(list)
  BY <1>1
<1>3. PICK D : D = {i \in 1..Len(list) : IsUnknown(list[i])}
  BY Zenon
<1>4. D \subseteq Nat /\ D # {}
  BY <1>2, <1>3
<1>5. PICK n \in D : \A m \in D : n <= m
  BY <1>4, Least, Zenon
<1>6. n \in DOMAIN list /\ IsUnknown(list[n]) /\ \A j \in 1..n - 1 : ~IsUnknown(list[j])
  <2>1. n \in 1..Len(list) /\ IsUnknown(list[n])
    BY <1>3, <1>5, Zenon
  <2>2. ASSUME NEW j \in 1..n - 1 PROVE ~IsUnknown(list[j])
    <3>1. j \in 1..Len(list) /\ ~(n <= j)
      BY <1>2, <2>1, <2>2
    <3> QED BY <1>3, <1>5, <3>1, Zenon
  <2> QED BY <1>2, <2>1, <2>2, Zenon
<1>7. FirstUnknown(list) \in DOMAIN list /\ IsUnknown(list[FirstUnknown(list)])
  BY <1>6, Zenon DEF FirstUnknown
<1>8. \A i \in 1..Len(list) : list[i] \in Blocks \ {Genesis}
  BY <1>1
<1> QED BY <1>2, <1>7, <1>8, Zenon

\* If no header is the first to be refused, none is refused.
LEMMA NoneRefused ==
    ASSUME Library, NEW list \in HeaderLists, IsUnknown(list[1]) \/ IsUnknown(list[Len(list)]), FirstRefused(list) = {}
    PROVE  \A i \in FirstUnknown(list)..Len(list) : Refusals(list, i) = {}
<1>1. PICK first : first = FirstUnknown(list)
  BY Zenon
<1>2. first \in 1..Len(list) /\ Len(list) \in Nat
  BY <1>1, FindsFirstUnknown, SyncAssumption
<1>3. PICK D : D = {i \in first..Len(list) : Refusals(list, i) # {}}
  BY Zenon
<1>4. ASSUME D # {} PROVE FALSE
  <2>1. D \subseteq Nat
    BY <1>2, <1>3
  <2>2. PICK n \in D : \A m \in D : n <= m
    BY <1>4, <2>1, Least, Zenon
  <2>3. n \in first..Len(list) /\ Refusals(list, n) # {}
    BY <1>3, <2>2, Zenon
  <2>4. ASSUME NEW j \in first..n - 1 PROVE Refusals(list, j) = {}
    <3>1. j \in first..Len(list) /\ ~(n <= j)
      BY <1>2, <2>3, <2>4
    <3> QED BY <1>3, <2>2, <3>1, Zenon
  <2> QED BY <1>1, <2>3, <2>4, Zenon DEF FirstRefused
<1> QED BY <1>1, <1>3, <1>4, Zenon

\* Nothing is queued, stored or dead of an unknown block.
LEMMA UnknownIsNowhere ==
    ASSUME NEW h, IsUnknown(h)
    PROVE  h \notin chain.stored \cup chain.verifying \cup Pending(chain)
BY Zenon DEF IsUnknown, BlockState, Pending

\* on_headers, new headers that pass: they are scheduled.
LEMMA AcceptsHeaders ==
    ASSUME Library, Client, NEW p \in Peers, NEW list \in HeaderLists, IsUnknown(list[1]) \/ IsUnknown(list[Len(list)]),
           AcceptedHeaders(p, list), Hears({p}), RestOK', UNCHANGED queue
    PROVE  Kept
<1>1. PICK first : first = FirstUnknown(list)
  BY Zenon
<1>2. /\ first \in 1..Len(list) /\ Len(list) \in Nat
      /\ \A i \in 1..Len(list) : list[i] \in Blocks /\ list[i] # Genesis
  BY <1>1, FindsFirstUnknown, SyncAssumption
<1>3. \A i \in first..Len(list) : Refusals(list, i) = {}
  BY <1>1, NoneRefused, Zenon DEF AcceptedHeaders
<1>4. \A i \in first..Len(list) : IsUnknown(list[i]) /\ (i # first => Parent[list[i]] = list[i - 1])
  BY <1>1, <1>3, Zenon DEF Refusals
<1>5. PICK new : new = {list[i] : i \in first..Len(list)}
  BY Zenon
<1>6. new \in SUBSET Blocks /\ new \cap (chain.stored \cup chain.verifying \cup Pending(chain)) = {}
  <2>1. \A i \in first..Len(list) : i \in 1..Len(list)
    BY <1>2
  <2>2. \A h \in new : h \in Blocks /\ IsUnknown(h)
    BY <1>2, <1>4, <1>5, <2>1, Zenon
  <2> QED BY <2>2, UnknownIsNowhere, Zenon
<1>7. list[first] \in new
  BY <1>2, <1>5
<1>8. \A h \in new \ {list[first]} : Parent[h] \in new
  <2>1. ASSUME NEW i \in first..Len(list), i # first PROVE Parent[list[i]] \in new
    <3>1. i - 1 \in first..Len(list)
      BY <1>2, <2>1
    <3> QED BY <1>4, <1>5, <2>1, <3>1, Zenon
  <2> QED BY <1>5, <2>1, Zenon
<1>9. PICK ch : ch = ScheduleBlocksHeaders(chain, new)
  BY Zenon
<1>10. /\ ChainOK(ch, pool) /\ ch.scheduled = chain.scheduled \cup new /\ ch.requested = chain.requested
       /\ ch.verifying = chain.verifying /\ ch.stored = chain.stored /\ ch.dead = chain.dead
  <2>1. PICK one : one = list[first]
    BY Zenon
  <2>2. ChainOK(chain, pool) /\ one \in new /\ \A h \in new \ {one} : Parent[h] \in new
    BY <1>7, <1>8, <2>1, Zenon DEF Client
  <2> QED BY <1>6, <1>9, <2>2, SchedulesHeaders
<1>11. PICK st : st = IF state # "Synchronizing" /\ Cardinality(ch.scheduled) + Cardinality(ch.requested) = 1
                      THEN "NearlySaturated" ELSE "Synchronizing"
  BY Zenon
<1>12. StateOK(ch, st)
  <2>1. IsFiniteSet(ch.scheduled) /\ IsFiniteSet(ch.requested)
    BY <1>10, SyncAssumption, Subsets, Zenon DEF ChainOK, Chain
  <2>2. Cardinality(ch.scheduled) \in Nat /\ Cardinality(ch.requested) \in Nat
    BY <2>1, Sizes, Zenon
  <2>3. IsFiniteSet(Pending(ch)) /\ Cardinality(Pending(ch)) <= Cardinality(ch.scheduled) + Cardinality(ch.requested)
    BY <2>1, Unions, Zenon DEF Pending
  <2>5. Cardinality(Pending(ch)) \in Nat
    BY <2>3, Sizes, Zenon
  <2>6. CASE st = "NearlySaturated"
    BY <1>11, <2>2, <2>3, <2>5, <2>6, Zenon DEF StateOK
  <2>7. CASE st = "Synchronizing"
    BY <2>7, Zenon DEF StateOK
  <2> QED BY <1>11, <2>6, <2>7, Zenon
<1>13. PICK t : t = UsefulPeer(OnHeadersReceived(tasks, p), p)
  BY Zenon
<1>14. TaskStep(tasks, t, {p}, {})
  <2>1. PICK s : s = OnHeadersReceived(tasks, p)
    BY Zenon
  <2>2. TaskStep(tasks, s, {p}, {})
    BY <2>1, HeadersAreReceived, Zenon DEF Client
  <2>3. TaskStep(s, t, {p}, {})
    BY <1>13, <2>1, <2>2, PeerIsUseful, Zenon DEF TaskStep
  <2> QED BY <2>2, <2>3, Zenon DEF TaskStep
<1>15. PICK d \in ExecuteSynchronizationTasks(Core(ch, pool, t, st), {}, {}) : Become(d)
  BY <1>1, <1>5, <1>9, <1>11, <1>13, Zenon DEF AcceptedHeaders
<1>16. PICK c : c = Core(ch, pool, t, st)
  BY Zenon
<1>17. c.chain = ch /\ c.pool = pool /\ c.tasks = t /\ c.state = st /\ c = Core(c.chain, c.pool, c.tasks, c.state)
  BY <1>16, CoreFields, SMTT(60)
<1>18. CoreOK(c)
  BY <1>10, <1>12, <1>14, <1>17, Zenon DEF CoreOK, TaskStep
<1>19. CoreOK(d) /\ SameBlocks(c, d) /\ (Tracked(c, {}) => Tracked(d, {}))
  BY <1>15, <1>16, <1>18, ExecutesFreely, Zenon
<1>20. Requested(chain, pool, tasks) => Tracked(c, {})
  BY <1>10, <1>14, <1>17, Zenon DEF Requested, Tracked, TaskStep, Client, ChainOK, Chain
<1>21. NewOK(conn', c.tasks) /\ QueueOK(c.chain, queue')
  BY <1>10, <1>14, <1>17, Zenon DEF Client, NewOK, Hears, TaskStep, QueueOK
<1>22. /\ Client' /\ (Tracked(d, {}) => Requested(chain', pool', tasks'))
       /\ Verdicts(c.chain, queue') => Verdicts(chain', queue')
  BY <1>15, <1>19, <1>21, Becomes, Zenon
<1>23. Verdicts(chain, queue) => Verdicts(c.chain, queue')
  BY <1>10, <1>17, SameVerdicts, Zenon
<1> QED BY <1>19, <1>20, <1>22, <1>23, Zenon DEF Kept

\* on_headers, a header that verification refuses: it is a dead end.
LEMMA MarksInvalid ==
    ASSUME Client, NEW t, NEW heard, TaskStep(tasks, t, heard, {}), Hears(heard), RestOK',
           NEW b \in Blocks, ~Good(b), chain' = MarkDeadEndBlock(chain, b), tasks' = t, UNCHANGED <<pool, state, queue>>
    PROVE  Kept
<1>1. /\ ChainOK(chain', pool) /\ chain'.dead = chain.dead \cup {b} /\ chain'.scheduled = chain.scheduled
      /\ chain'.requested = chain.requested /\ chain'.verifying = chain.verifying /\ chain'.stored = chain.stored
  <2>1. PICK r : r = MarkDeadEndBlock(chain, b)
    BY Zenon
  <2>2. /\ ChainOK(r, pool) /\ r.dead = chain.dead \cup {b} /\ r.scheduled = chain.scheduled
        /\ r.requested = chain.requested /\ r.verifying = chain.verifying /\ r.stored = chain.stored
    BY <2>1, MarksDeadEnd DEF Client
  <2> QED BY <2>1, <2>2, Zenon
<1>2. StateOK(chain', state')
  BY <1>1, Zenon DEF Client, StateOK, Pending
<1>3. NewOK(conn', tasks') /\ QueueOK(chain', queue')
  BY <1>1, Zenon DEF Client, NewOK, Hears, TaskStep, QueueOK
<1>4. Requested(chain, pool, tasks) => Requested(chain', pool', tasks')
  BY <1>1, Zenon DEF Requested, TaskStep, Client, ChainOK, Chain
<1>5. Verdicts(chain, queue) => Verdicts(chain', queue')
  BY <1>1, Zenon DEF Verdicts, TaskOK
<1> QED BY <1>1, <1>2, <1>3, <1>4, <1>5, Zenon DEF Client, Kept, TaskStep

\* on_headers.
LEMMA HandlesHeaders ==
    ASSUME Library, Client, NEW p \in Peers, NEW list \in HeaderLists, OnHeaders(p, list)
    PROVE  Kept
<1>1. Hears({p}) /\ conn' \in [Peers -> {"new", "open", "left", "gone"}]
  BY ReceivedFromKnown, Zenon DEF OnHeaders
<1>2. UNCHANGED <<futures, queue, finishing>>
  BY Zenon DEF OnHeaders
<1>3. PICK s : s = OnHeadersReceived(tasks, p)
  BY Zenon
<1>4. TaskStep(tasks, s, {p}, {}) /\ TasksOK(s)
  BY <1>3, HeadersAreReceived, Zenon DEF Client, TaskStep
<1>5. PICK u : u = UsefulPeer(s, p)
  BY Zenon
<1>6. TaskStep(tasks, u, {p}, {})
  <2>1. TaskStep(s, u, {p}, {})
    BY <1>4, <1>5, PeerIsUseful, Zenon
  <2> QED BY <1>4, <2>1, Zenon DEF TaskStep
<1>7. {} \cap chain.requested = {} /\ {p} \in SUBSET Peers
  BY Zenon
<1>8. ASSUME banned' \subseteq Peers PROVE RestOK'
  BY <1>1, <1>2, <1>8, Zenon DEF Client, RestOK, futures
<1>9. banned \subseteq Peers
  BY Zenon DEF Client, RestOK
<1>10. ASSUME UNCHANGED <<chain, pool, state>>, tasks' \in {s, u}, banned' \subseteq Peers PROVE Kept
  BY <1>1, <1>2, <1>4, <1>6, <1>7, <1>8, <1>10, TasksOnly, Zenon
<1>11. CASE HeadersAfterUnknownBlock(p, list)
  <2>1. PICK t : t = Penalize(s, {p})
    BY Zenon
  <2>2. TaskStep(tasks, t, {p}, {})
    BY <1>4, <1>7, <2>1, PeersArePenalized, Zenon DEF TaskStep
  <2>3. tasks' = t /\ UNCHANGED <<chain, pool, state>>
    BY <1>3, <1>11, <2>1, Zenon DEF HeadersAfterUnknownBlock
  <2>4. PICK ps \in SUBSET Peers : Ban(ps)
    BY <1>11, Zenon DEF HeadersAfterUnknownBlock, Excluded
  <2>5. banned' \subseteq Peers
    BY <2>4, BansPeers, Zenon
  <2> QED BY <1>1, <1>2, <1>7, <1>8, <2>2, <2>3, <2>5, TasksOnly, Zenon
<1>12. CASE KnownHeaders(p, list)
  <2>1. tasks' = u /\ UNCHANGED <<chain, pool, state>> /\ UNCHANGED banned
    BY <1>3, <1>5, <1>12, Zenon DEF KnownHeaders
  <2> QED BY <1>9, <1>10, <2>1, Zenon
<1>13. CASE NewHeaders(p, list)
  <2>1. IsUnknown(list[1]) \/ IsUnknown(list[Len(list)])
    BY <1>13, Zenon DEF NewHeaders
  <2>2. ASSUME tasks' = s, Ban({p}), UNCHANGED <<chain, pool, state>> PROVE Kept
    BY <1>7, <1>10, <2>2, BansPeers, Zenon
  <2>3. CASE CloseOnBadBlock /\ BlockState(chain, LastKnown(list)) = "DeadEnd"
    <3>1. tasks' = s /\ Ban({p}) /\ UNCHANGED <<chain, pool, state>>
      BY <1>3, <1>13, <2>3, Zenon DEF NewHeaders
    <3> QED BY <2>2, <3>1, Zenon
  <2>4. CASE AcceptedHeaders(p, list)
    <3>1. RestOK' /\ UNCHANGED queue
      BY <1>2, <1>8, <1>9, <2>4, Zenon DEF AcceptedHeaders
    <3> QED BY <1>1, <2>1, <2>4, <3>1, AcceptsHeaders, Zenon
  <2>5. CASE RefusedHeaders(p, list)
    <3>1. PICK i \in FirstRefused(list) :
            /\ \/ /\ tasks' = s
                  /\ Ban({p})
                  /\ UNCHANGED chain
               \/ /\ tasks' = u
                  /\ UNCHANGED <<banned, chain>>
               \/ /\ Refusals(list, i) = {"invalid"}
                  /\ tasks' = s
                  /\ Ban(IF CloseOnBadBlock THEN {p} ELSE {})
                  /\ chain' = MarkDeadEndBlock(chain, Refused(list, i))
            /\ UNCHANGED <<pool, state>>
      BY <1>3, <1>5, <2>5, Zenon DEF RefusedHeaders
    <3>2. CASE tasks' = s /\ Ban({p}) /\ UNCHANGED chain
      BY <2>2, <3>1, <3>2, Zenon
    <3>3. CASE tasks' = u /\ UNCHANGED <<banned, chain>>
      BY <1>9, <1>10, <3>1, <3>3, Zenon
    <3>4. CASE /\ Refusals(list, i) = {"invalid"}
               /\ tasks' = s
               /\ Ban(IF CloseOnBadBlock THEN {p} ELSE {})
               /\ chain' = MarkDeadEndBlock(chain, Refused(list, i))
      <4>1. /\ FirstUnknown(list) \in 1..Len(list) /\ Len(list) \in Nat
            /\ \A j \in 1..Len(list) : list[j] \in Blocks /\ list[j] # Genesis
        BY <2>1, FindsFirstUnknown, SyncAssumption
      <4>2. i \in FirstUnknown(list)..Len(list)
        BY <3>1, Zenon DEF FirstRefused
      <4>3. PICK b \in Blocks : b = list[i]
        BY <4>1, <4>2
      <4>4. b \in BadHeaders
        BY <3>4, <4>3, Zenon DEF Refusals, BlockState
      <4>5. ~Good(b)
        BY <4>4, Tree, Zenon DEF Good
      <4>6. chain' = MarkDeadEndBlock(chain, b) /\ tasks' = s
        BY <3>4, <4>3, Zenon DEF Refused
      <4>7. PICK ps \in SUBSET Peers : Ban(ps)
        BY <1>7, <3>4, Zenon
      <4>8. banned' \subseteq Peers
        BY <4>7, BansPeers, Zenon
      <4>9. RestOK' /\ UNCHANGED <<pool, state, queue>>
        BY <1>2, <1>8, <3>1, <4>8, Zenon
      <4> QED BY <1>1, <1>4, <4>5, <4>6, <4>9, MarksInvalid, Zenon
    <3> QED BY <3>1, <3>2, <3>3, <3>4, Zenon
  <2> QED BY <1>13, <2>3, <2>4, <2>5, Zenon DEF NewHeaders
<1> QED BY <1>11, <1>12, <1>13, Zenon DEF OnHeaders

-----------------------------------------------------------------------------
(* Blocks.                                                                 *)

\* The tasks of a block and its orphans: each is there once.
LEMMA OrdersAll ==
    ASSUME Library, NEW bs \in SUBSET Blocks, NEW s \in VerificationOrders(bs)
    PROVE  /\ s \in Seq(Blocks) /\ \A i \in 1..Len(s) : s[i] \in bs
           /\ \A x \in bs : \E i \in 1..Len(s) : s[i] = x
           /\ \A i, j \in 1..Len(s) : i < j => s[i] # s[j] /\ Height[s[i]] <= Height[s[j]]
<1>1. IsFiniteSet(bs)
  BY SyncAssumption, Subsets, Zenon
<1>2. PICK n \in Nat : n = Cardinality(bs)
  BY <1>1, Sizes, Zenon
<1>3. /\ s \in [1..n -> bs]
      /\ \A i, j \in 1..n : i < j => s[i] # s[j] /\ Height[s[i]] <= Height[s[j]]
  BY <1>2, Zenon DEF VerificationOrders
<1>4. s \in Seq(bs) /\ Len(s) = n
  BY <1>3
<1>5. ASSUME NEW x \in bs, \A i \in 1..n : s[i] # x PROVE FALSE
  <2>1. s \in [1..n -> bs \ {x}]
    BY <1>3, <1>5, Zenon
  <2>5. PICK i, j \in 1..n : i # j /\ s[i] = s[j]
    BY <1>1, <1>2, <1>5, <2>1, Repeats
  <2>6. i < j \/ j < i
    BY <2>5
  <2> QED BY <1>3, <2>5, <2>6, Zenon
<1>6. s \in Seq(Blocks) /\ \A i \in 1..n : s[i] \in bs
  BY <1>3, <1>4
<1> QED BY <1>3, <1>4, <1>5, <1>6, Zenon

\* A block that is neither verifying nor stored, by its state.
LEMMA UnprocessedIsNew ==
    ASSUME Client, NEW b \in Blocks
    PROVE  /\ Unprocessed(b) <=> b \notin chain.stored \cup chain.verifying
           /\ ~Unprocessed(b) => b \notin chain.requested
BY Zenon DEF Client, ChainOK, QueuesOK, Pending, Unprocessed, BlockState

\* on_block, the block is known already.
LEMMA ReceivesProcessed ==
    ASSUME Client, NEW p \in Peers, NEW b \in Blocks, ProcessedBlock(p, b), Hears({p}), RestOK', UNCHANGED state
    PROVE  Kept
<1>1. PICK s : s = OnBlockReceived(tasks, p, b)
  BY Zenon
<1>2. TaskStep(tasks, s, {p}, {b})
  BY <1>1, BlockIsReceived, Zenon DEF Client
<1>3. tasks' = UsefulPeer(s, p)
  BY <1>1, Zenon DEF ProcessedBlock
<1>4. TaskStep(s, tasks', {p}, {})
  BY <1>2, <1>3, PeerIsUseful, Zenon DEF TaskStep
<1>5. TaskStep(tasks, tasks', {p}, {b})
  BY <1>2, <1>4, Zenon DEF TaskStep
<1>6. {b} \cap chain.requested = {}
  BY UnprocessedIsNew, Zenon DEF ProcessedBlock, Unprocessed
<1>7. UNCHANGED <<chain, pool, state, queue>>
  BY Zenon DEF ProcessedBlock
<1> QED BY <1>5, <1>6, <1>7, TasksOnly, Zenon

\* on_block, a dead end.
LEMMA ReceivesDeadEnd ==
    ASSUME Client, NEW p \in Peers, NEW b \in Blocks, DeadEndBlock(p, b), Hears({p}), RestOK', UNCHANGED state
    PROVE  Kept
<1>1. TaskStep(tasks, tasks', {p}, {b})
  BY BlockIsReceived, Zenon DEF Client, DeadEndBlock
<1>2. CloseOnBadBlock /\ UNCHANGED <<chain, pool, state, queue>>
  BY Zenon DEF DeadEndBlock
<1> QED BY <1>1, <1>2, TasksOnly, Zenon

\* on_block, a block leaves the queues for good, with orphans that follow it.
LEMMA Forgotten ==
    ASSUME Library, Client, NEW p \in Peers, NEW b \in Blocks, TaskStep(tasks, tasks', {p}, {b}), Hears({p}), RestOK',
           NEW gone, b \in gone, gone \cap chain.verifying = {},
           ChainOK(chain', pool'), Forgets(chain, gone, chain'), pool.blocks \ gone \subseteq pool'.blocks,
           UNCHANGED <<state, queue>>
    PROVE  Kept
<1>1. /\ chain'.verifying = chain.verifying /\ chain'.requested = chain.requested \ gone
      /\ chain'.scheduled \subseteq chain.scheduled /\ chain'.stored = chain.stored /\ chain'.dead = chain.dead
  BY Zenon DEF Forgets
<1>2. StateOK(chain', state')
  <2>1. chain \in Chain /\ chain' \in Chain /\ Pending(chain') \subseteq Pending(chain) /\ StateOK(chain, state)
    BY <1>1, Zenon DEF Client, ChainOK, Pending
  <2> QED BY <2>1, StateKept, Zenon
<1>3. NewOK(conn', tasks') /\ QueueOK(chain', queue') /\ TasksOK(tasks')
  BY <1>1, Zenon DEF Client, NewOK, Hears, TaskStep, QueueOK
<1>4. Requested(chain, pool, tasks) => Requested(chain', pool', tasks')
  BY <1>1, Zenon DEF Requested, TaskStep, Client, ChainOK, Chain
<1>5. Verdicts(chain, queue) => Verdicts(chain', queue')
  BY <1>1, SameVerdicts, Zenon
<1> QED BY <1>2, <1>3, <1>4, <1>5, Zenon DEF Client, Kept

\* on_block, nothing is known of the parent.
LEMMA ReceivesUnknown ==
    ASSUME Library, Client, NEW p \in Peers, NEW b \in Blocks, UnknownBlock(p, b), Hears({p}), RestOK', UNCHANGED state
    PROVE  Kept
<1>1. TaskStep(tasks, tasks', {p}, {b})
  BY BlockIsReceived, Zenon DEF Client, UnknownBlock
<1>2. ChainOK(chain, pool) /\ b \notin chain.stored \cup chain.verifying /\ UNCHANGED <<state, queue>>
  BY UnprocessedIsNew, Zenon DEF Client, UnknownBlock
<1>3. CASE state = "Synchronizing"
  <2>1. PICK G : G = BlocksForParents(pool, {b})
    BY Zenon
  <2>2. /\ chain' = ForgetBlocksLeaveHeader(ForgetBlocks(chain, {b}), BlocksForParents(pool, {b}))
        /\ pool' = RemoveBlocksForParents(pool, {b})
    BY <1>3, Zenon DEF UnknownBlock
  <2>3. ChainOK(chain', pool') /\ Forgets(chain, {b} \cup G, chain')
    BY <1>2, <2>1, <2>2, ForgetsUnknown, Zenon
  <2>4. pool'.blocks = pool.blocks \ G /\ G \subseteq pool.blocks
    BY <1>2, <2>1, <2>2, PoolRemoves, Zenon DEF ChainOK, BlocksForParents
  <2>5. ({b} \cup G) \cap chain.verifying = {}
    BY <1>2, <2>4, Zenon DEF ChainOK, OrphansOK
  <2>6. b \in {b} \cup G /\ pool.blocks \ ({b} \cup G) \subseteq pool'.blocks
    BY <2>4, Zenon
  <2> QED BY <1>1, <1>2, <2>3, <2>5, <2>6, Forgotten, Zenon
<1>4. CASE state # "Synchronizing"
  <2>1. /\ chain' = ForgetBlocksLeaveHeader(chain, {b})
        /\ pool' = IF b \in pool.unknown THEN pool ELSE InsertUnknownBlock(pool, b)
    BY <1>4, Zenon DEF UnknownBlock
  <2>2. Parent[b] \notin chain.stored \cup chain.verifying \cup Pending(chain)
    BY Zenon DEF UnknownBlock, BlockState, Pending
  <2>3. ChainOK(chain', pool') /\ Forgets(chain, {b}, chain') /\ pool.blocks \subseteq pool'.blocks
    BY <1>2, <2>1, <2>2, KeepsUnknown, Zenon
  <2>4. {b} \cap chain.verifying = {} /\ b \in {b} /\ pool.blocks \ {b} \subseteq pool'.blocks
    BY <1>2, <2>3, Zenon
  <2> QED BY <1>1, <1>2, <2>3, <2>4, Forgotten, Zenon
<1> QED BY <1>3, <1>4, Zenon

\* on_block, the parent is still to come.
LEMMA ReceivesOrphan ==
    ASSUME Client, NEW p \in Peers, NEW b \in Blocks, OrphanedBlock(p, b), Hears({p}), RestOK', UNCHANGED state
    PROVE  Kept
<1>1. PICK s : s = OnBlockReceived(tasks, p, b)
  BY Zenon
<1>2. TaskStep(tasks, s, {p}, {b})
  BY <1>1, BlockIsReceived, Zenon DEF Client
<1>3. tasks' = UsefulPeer(s, p)
  BY <1>1, Zenon DEF OrphanedBlock
<1>4. TaskStep(s, tasks', {p}, {})
  BY <1>2, <1>3, PeerIsUseful, Zenon DEF TaskStep
<1>5. TaskStep(tasks, tasks', {p}, {b})
  BY <1>2, <1>4, Zenon DEF TaskStep
<1>6. ChainOK(chain, pool) /\ b \notin chain.stored \cup chain.verifying /\ Parent[b] \in Pending(chain)
  BY UnprocessedIsNew, Zenon DEF Client, OrphanedBlock, BlockState, Pending
<1>7. ChainOK(chain, pool') /\ pool'.blocks = pool.blocks \cup {b} /\ UNCHANGED <<chain, queue>>
  BY <1>6, KeepsOrphan, SMTT(60) DEF OrphanedBlock
<1>8. NewOK(conn', tasks') /\ TasksOK(tasks')
  BY <1>5, Zenon DEF Client, NewOK, Hears, TaskStep
<1>9. Requested(chain, pool, tasks) => Requested(chain', pool', tasks')
  BY <1>5, <1>7, Zenon DEF Requested, TaskStep, Client, ChainOK, Chain
<1>10. Client'
  BY <1>7, <1>8, Zenon DEF Client
<1> QED BY <1>7, <1>9, <1>10, Zenon DEF Kept

\* r has the n elements of q before the m elements of s.
Joined(q, s, r, n, m) ==
    /\ r \in Seq(Blocks) /\ DOMAIN r = 1..n + m /\ DOMAIN q = 1..n
    /\ \A i \in 1..n : i \in DOMAIN r /\ r[i] = q[i]
    /\ \A k \in 1..m : n + k \in DOMAIN r /\ r[n + k] = s[k]
    /\ \A i \in DOMAIN r : i \in 1..n \/ \E k \in 1..m : i = n + k

\* Tasks are appended to the verification thread's channel.
LEMMA Appends ==
    ASSUME NEW q \in Seq(Blocks), NEW s \in Seq(Blocks), NEW r, r = q \o s,
           NEW n \in Nat, n = Len(q), NEW m \in Nat, m = Len(s)
    PROVE  Joined(q, s, r, n, m)
<1>1. r \in Seq(Blocks) /\ DOMAIN r = 1..n + m /\ DOMAIN q = 1..n
  OBVIOUS
<1>2. \A i \in 1..n : i \in DOMAIN r /\ r[i] = q[i]
  BY <1>1
<1>3. \A k \in 1..m : n + k \in DOMAIN r /\ r[n + k] = s[k]
  BY <1>1
<1>4. ASSUME NEW i \in DOMAIN r, i \notin 1..n PROVE \E k \in 1..m : i = n + k
  <2>1. i - n \in 1..m /\ i = n + (i - n)
    BY <1>1, <1>4
  <2> QED BY <2>1, Zenon
<1> QED BY <1>1, <1>2, <1>3, <1>4, Zenon DEF Joined

\* The tasks of a block and the orphans it brings keep parents first.
LEMMA QueuesBranch ==
    ASSUME Library, NEW ch, NEW po, ChainOK(ch, po), NEW q, QueueOK(ch, q), NEW b \in Blocks,
           b \notin ch.stored \cup ch.verifying, Parent[b] \in ch.stored \cup ch.verifying,
           NEW bs, bs = {b} \cup BlocksForParents(po, {b}), NEW s \in VerificationOrders(bs),
           NEW new, new.verifying = ch.verifying \cup bs, new.stored = ch.stored, new.dead = ch.dead
    PROVE  QueueOK(new, q \o s) /\ (Verdicts(ch, q) => Verdicts(new, q \o s))
<1>1. Brings(ch, po, b, bs)
  BY Brought, Zenon
<1>2. bs \in SUBSET Blocks /\ \A x \in bs : x \notin ch.stored \cup ch.verifying
  BY <1>1, Zenon DEF Brings
<1>3. /\ s \in Seq(Blocks) /\ \A i \in 1..Len(s) : s[i] \in bs
      /\ \A x \in bs : \E i \in 1..Len(s) : s[i] = x
      /\ \A i, j \in 1..Len(s) : i < j => s[i] # s[j] /\ Height[s[i]] <= Height[s[j]]
  BY <1>2, OrdersAll, Zenon
<1>4. PICK r : r = q \o s
  BY Zenon
<1>5. q \in Seq(Blocks) /\ ch.verifying \subseteq Elements(q)
  BY Zenon DEF QueueOK
<1>6. PICK n, m \in Nat : n = Len(q) /\ m = Len(s)
  BY <1>3, <1>5, SMTT(60)
<1>7. /\ r \in Seq(Blocks) /\ DOMAIN r = 1..n + m /\ DOMAIN q = 1..n
      /\ \A i \in 1..n : i \in DOMAIN r /\ r[i] = q[i]
      /\ \A k \in 1..m : n + k \in DOMAIN r /\ r[n + k] = s[k]
      /\ \A i \in DOMAIN r : i \in 1..n \/ \E k \in 1..m : i = n + k
  <2>1. Joined(q, s, r, n, m)
    BY <1>3, <1>4, <1>5, <1>6, Appends, Zenon
  <2> QED BY <2>1, Zenon DEF Joined
<1>8. QueueOK(new, r)
  <2>1. \A x \in ch.verifying : \E i \in DOMAIN r : r[i] = x
    BY <1>5, <1>7, ZenonT(60) DEF Elements
  <2>2. ASSUME NEW x \in bs PROVE \E i \in DOMAIN r : r[i] = x
    <3>1. PICK k \in 1..m : s[k] = x
      BY <1>3, <1>6, <2>2, Zenon
    <3>2. n + k \in DOMAIN r /\ r[n + k] = s[k]
      BY <1>7, Zenon
    <3> QED BY <3>1, <3>2, Zenon
  <2>3. \A x \in new.verifying : x \in Elements(r)
    BY <2>1, <2>2, Zenon DEF Elements
  <2> QED BY <1>7, <2>3, Zenon DEF QueueOK
<1>9. ASSUME Verdicts(ch, q) PROVE Verdicts(new, r)
  <2>1. ASSUME NEW i \in 1..n, Good(q[i]) PROVE TaskOK(ch, q, i)
    BY <1>7, <1>9, <2>1, Zenon DEF Verdicts
  <2>2. ASSUME NEW i \in 1..n, NEW k \in 1..m, Good(q[i]) PROVE q[i] # s[k]
    <3>1. q[i] \in ch.verifying
      BY <2>1, <2>2, Zenon DEF TaskOK
    <3> QED BY <1>2, <1>3, <1>6, <3>1, Zenon
  <2>3. ASSUME NEW i \in 1..n, Good(r[i]) PROVE TaskOK(new, r, i)
    <3>1. r[i] = q[i] /\ TaskOK(ch, q, i)
      BY <1>7, <2>1, <2>3, Zenon
    <3>2. ASSUME NEW j \in DOMAIN r, r[j] = r[i] PROVE i = j
      <4>1. CASE j \in 1..n
        BY <1>7, <3>1, <3>2, <4>1, Zenon DEF TaskOK
      <4>2. ASSUME NEW k \in 1..m, j = n + k PROVE FALSE
        BY <1>7, <2>2, <2>3, <3>1, <3>2, <4>2, Zenon
      <4> QED BY <1>7, <4>1, <4>2, Zenon
    <3>3. Parent[r[i]] \in new.stored \/ \E j \in 1..(i - 1) : r[j] = Parent[r[i]]
      <4>1. \A j \in 1..(i - 1) : j \in 1..n
        BY SMTT(60)
      <4> QED BY <1>7, <3>1, <4>1, ZenonT(60) DEF TaskOK
    <3> QED BY <3>1, <3>2, <3>3, Zenon DEF TaskOK
  <2>4. ASSUME NEW k \in 1..m, Good(s[k]) PROVE TaskOK(new, r, n + k)
    <3>1. r[n + k] = s[k] /\ s[k] \in bs /\ s[k] \in new.verifying /\ s[k] \in Blocks
      BY <1>2, <1>3, <1>6, <1>7, <2>4, Zenon
    <3>2. ASSUME NEW j \in DOMAIN r, r[j] = s[k] PROVE n + k = j
      <4>1. CASE j \in 1..n
        BY <1>7, <2>2, <2>4, <3>2, <4>1, ZenonT(60)
      <4>2. ASSUME NEW l \in 1..m, j = n + l PROVE n + k = j
        <5>1. s[l] = s[k]
          BY <1>7, <3>2, <4>2, Zenon
        <5>2. ~(l < k) /\ ~(k < l)
          BY <1>3, <1>6, <5>1, Zenon
        <5> QED BY <4>2, <5>2, SMTT(60)
      <4> QED BY <1>7, <4>1, <4>2, Zenon
    <3>3. Parent[s[k]] \in new.stored \/ \E j \in 1..((n + k) - 1) : r[j] = Parent[s[k]]
      <4>1. CASE s[k] = b
        <5>1. CASE Parent[b] \in ch.stored
          BY <4>1, <5>1, Zenon
        <5>2. CASE Parent[b] \in ch.verifying
          <6>1. PICK i \in 1..n : q[i] = Parent[b]
            BY <1>5, <1>7, <5>2, ZenonT(60) DEF Elements
          <6>2. i \in 1..((n + k) - 1) /\ r[i] = Parent[b]
            BY <1>7, <6>1, SMTT(60)
          <6> QED BY <4>1, <6>2, Zenon
        <5> QED BY <5>1, <5>2, Zenon
      <4>2. CASE s[k] # b
        <5>1. s[k] # Genesis /\ Parent[s[k]] \in bs
          BY <1>1, <3>1, <4>2, Zenon DEF Brings
        <5>2. PICK l \in 1..m : s[l] = Parent[s[k]]
          BY <1>3, <1>6, <5>1, Zenon
        <5>3. Height[s[k]] = Height[s[l]] + 1 /\ Height[s[l]] \in Nat
          BY <1>2, <3>1, <5>1, <5>2, Tree, SMTT(60)
        <5>4. ~(k < l) /\ k # l
          BY <1>3, <1>6, <5>3, SMTT(60)
        <5>5. n + l \in 1..((n + k) - 1)
          BY <5>4, SMTT(60)
        <5> QED BY <1>7, <5>2, <5>5, ZenonT(60)
      <4> QED BY <4>1, <4>2, Zenon
    <3> QED BY <3>1, <3>2, <3>3, Zenon DEF TaskOK
  <2>5. ASSUME NEW i \in DOMAIN r, Good(r[i]) PROVE TaskOK(new, r, i)
    <3>1. CASE i \in 1..n
      BY <2>3, <2>5, <3>1, Zenon
    <3>2. ASSUME NEW k \in 1..m, i = n + k PROVE TaskOK(new, r, i)
      BY <1>7, <2>4, <2>5, <3>2, Zenon
    <3> QED BY <1>7, <3>1, <3>2, Zenon
  <2> QED BY <1>9, <2>5, Zenon DEF Verdicts
<1> QED BY <1>4, <1>8, <1>9, Zenon

\* on_block, the block and its orphans can be verified.
LEMMA ReceivesVerifiable ==
    ASSUME Library, Client, NEW p \in Peers, NEW b \in Blocks, VerifiableBlock(p, b), Hears({p}), RestOK', UNCHANGED state
    PROVE  Kept
<1>1. PICK s : s = OnBlockReceived(tasks, p, b)
  BY Zenon
<1>2. TaskStep(tasks, s, {p}, {b})
  BY <1>1, BlockIsReceived, Zenon DEF Client
<1>3. tasks' = UsefulPeer(s, p)
  BY <1>1, Zenon DEF VerifiableBlock
<1>4. TaskStep(s, tasks', {p}, {})
  BY <1>2, <1>3, PeerIsUseful, Zenon DEF TaskStep
<1>5. TaskStep(tasks, tasks', {p}, {b})
  BY <1>2, <1>4, Zenon DEF TaskStep
<1>6. /\ ChainOK(chain, pool) /\ b \notin chain.stored \cup chain.verifying
      /\ Parent[b] \in chain.stored \cup chain.verifying
  BY UnprocessedIsNew, Zenon DEF Client, VerifiableBlock, BlockState
<1>7. PICK bs : bs = {b} \cup BlocksForParents(pool, {b})
  BY Zenon
<1>8. /\ chain' \in VerifyBlocks(ForgetBlocksLeaveHeader(chain, bs), bs)
      /\ pool' = RemoveBlocksForParents(pool, {b})
      /\ \E o \in VerificationOrders(bs) : queue' = queue \o o
  BY <1>7, Zenon DEF VerifiableBlock
<1>9. /\ ChainOK(chain', pool')
      /\ chain'.verifying = chain.verifying \cup bs /\ chain'.requested = chain.requested \ bs
      /\ chain'.scheduled = chain.scheduled \ bs /\ chain'.stored = chain.stored /\ chain'.dead = chain.dead
  <2>1. PICK r \in VerifyBlocks(ForgetBlocksLeaveHeader(chain, bs), bs) : r = chain'
    BY <1>8, Zenon
  <2>2. Verifies(chain, pool, b, bs, r)
    BY <1>6, <1>7, VerifiesBlocks, Zenon
  <2> QED BY <1>8, <2>1, <2>2, Zenon DEF Verifies
<1>10. PICK o \in VerificationOrders(bs) : queue' = queue \o o
  BY <1>8, Zenon
<1>11. QueueOK(chain', queue') /\ (Verdicts(chain, queue) => Verdicts(chain', queue'))
  <2>1. QueueOK(chain, queue)
    BY Zenon DEF Client
  <2> QED BY <1>6, <1>7, <1>9, <1>10, <2>1, QueuesBranch, Zenon
<1>12. StateOK(chain', state')
  <2>1. chain \in Chain /\ chain' \in Chain /\ Pending(chain') \subseteq Pending(chain) /\ StateOK(chain, state)
    BY <1>9, Zenon DEF Client, ChainOK, Pending
  <2> QED BY <2>1, StateKept, Zenon
<1>13. NewOK(conn', tasks') /\ TasksOK(tasks')
  BY <1>5, Zenon DEF Client, NewOK, Hears, TaskStep
<1>14. pool'.blocks = pool.blocks \ BlocksForParents(pool, {b})
  BY <1>6, <1>8, PoolRemoves, Zenon DEF ChainOK
<1>15. Requested(chain, pool, tasks) => Requested(chain', pool', tasks')
  BY <1>5, <1>7, <1>9, <1>14, Zenon DEF Requested, TaskStep, Client, ChainOK, Chain
<1> QED BY <1>9, <1>11, <1>12, <1>13, <1>15, Zenon DEF Client, Kept

\* on_block, the first half.
LEMMA HandlesBlock ==
    ASSUME Library, Client, NEW p \in Peers, NEW b \in Blocks, OnBlock(p, b)
    PROVE  Kept
<1>1. Hears({p}) /\ conn' \in [Peers -> {"new", "open", "left", "gone"}]
  BY ReceivedFromKnown, Zenon DEF OnBlock
<1>2. UNCHANGED state /\ finishing' \subseteq Peers
  BY Zenon DEF OnBlock, Client, RestOK
<1>3. ASSUME banned' \subseteq Peers, UNCHANGED futures PROVE RestOK'
  BY <1>1, <1>2, <1>3, Zenon DEF Client, RestOK, futures
<1>4. banned \subseteq Peers
  BY Zenon DEF Client, RestOK
<1>5. CASE ProcessedBlock(p, b)
  <2>1. RestOK'
    BY <1>3, <1>4, <1>5, Zenon DEF ProcessedBlock
  <2> QED BY <1>1, <1>2, <1>5, <2>1, ReceivesProcessed, Zenon
<1>6. CASE DeadEndBlock(p, b)
  <2>1. {p} \in SUBSET Peers /\ Ban({p}) /\ UNCHANGED futures
    BY <1>6, Zenon DEF DeadEndBlock
  <2>2. RestOK'
    BY <1>3, <2>1, BansPeers, Zenon
  <2> QED BY <1>1, <1>2, <1>6, <2>2, ReceivesDeadEnd, Zenon
<1>7. CASE UnknownBlock(p, b)
  <2>1. RestOK'
    BY <1>3, <1>4, <1>7, Zenon DEF UnknownBlock
  <2> QED BY <1>1, <1>2, <1>7, <2>1, ReceivesUnknown, Zenon
<1>8. CASE OrphanedBlock(p, b)
  <2>1. RestOK'
    BY <1>3, <1>4, <1>8, Zenon DEF OrphanedBlock
  <2> QED BY <1>1, <1>2, <1>8, <2>1, ReceivesOrphan, Zenon
<1>9. CASE VerifiableBlock(p, b)
  <2>1. PICK bs : bs = {b} \cup BlocksForParents(pool, {b})
    BY Zenon
  <2>2. bs \subseteq Blocks
    BY <2>1, Zenon DEF Client, ChainOK, OrphanPool, BlocksForParents
  <2>3. byPeer' \in [Blocks -> Peers \cup {NoPeer}]
    BY <1>9, Zenon DEF VerifiableBlock, Client, RestOK
  <2>4. waiting' \in BlocksByPeer
    BY <1>9, <2>1, <2>2, Zenon DEF VerifiableBlock, Client, RestOK, BlocksByPeer
  <2>5. RestOK'
    BY <1>1, <1>2, <1>9, <2>3, <2>4, Zenon DEF VerifiableBlock, Client, RestOK
  <2> QED BY <1>1, <1>2, <1>9, <2>5, ReceivesVerifiable, Zenon
<1> QED BY <1>5, <1>6, <1>7, <1>8, <1>9, Zenon DEF OnBlock

-----------------------------------------------------------------------------
(* The second half of on_block and the verification thread.                *)

\* A step that ends in execute_synchronization_tasks(None, None), for a chain whose
\* queues have shrunk.
LEMMA ExecutesAfter ==
    ASSUME Library, Client, NEW ch, ChainOK(ch, pool), ch.requested \subseteq chain.requested,
           ch.scheduled \subseteq chain.scheduled, QueueOK(ch, queue'), RestOK', Hears({}),
           NEW d \in ExecuteSynchronizationTasks(Core(ch, pool, tasks, state), {}, {}), Become(d)
    PROVE  /\ Client' /\ (Requested(chain, pool, tasks) => Requested(chain', pool', tasks'))
           /\ Verdicts(ch, queue') => Verdicts(chain', queue')
<1>1. PICK c : c = Core(ch, pool, tasks, state)
  BY Zenon
<1>2. c.chain = ch /\ c.pool = pool /\ c.tasks = tasks /\ c.state = state /\ c = Core(c.chain, c.pool, c.tasks, c.state)
  BY <1>1, Zenon DEF Core
<1>3. StateOK(ch, state)
  <2>1. chain \in Chain /\ ch \in Chain /\ Pending(ch) \subseteq Pending(chain) /\ StateOK(chain, state)
    BY Zenon DEF Client, ChainOK, Pending
  <2> QED BY <2>1, StateKept, Zenon
<1>4. CoreOK(c)
  BY <1>2, <1>3, Zenon DEF CoreOK, Client
<1>5. CoreOK(d) /\ SameBlocks(c, d) /\ (Tracked(c, {}) => Tracked(d, {}))
  BY <1>1, <1>4, ExecutesFreely, Zenon
<1>6. Requested(chain, pool, tasks) => Tracked(c, {})
  BY <1>2, Zenon DEF Requested, Tracked
<1>7. NewOK(conn', c.tasks) /\ QueueOK(c.chain, queue')
  BY <1>2, Zenon DEF Client, NewOK, Hears
<1>8. /\ Client' /\ (Tracked(d, {}) => Requested(chain', pool', tasks'))
      /\ Verdicts(c.chain, queue') => Verdicts(chain', queue')
  BY <1>5, <1>7, Becomes, Zenon
<1> QED BY <1>2, <1>5, <1>6, <1>8, Zenon

\* The peers stay as they are.
LEMMA HearsNothing ==
    ASSUME UNCHANGED conn
    PROVE  Hears({})
BY Zenon DEF Hears

\* on_block, the second half.
LEMMA FinishesBlock ==
    ASSUME Library, Client, NEW p \in Peers, FinishBlock(p)
    PROVE  Kept
<1>1. UNCHANGED <<conn, banned, futures, queue>> /\ finishing' \subseteq Peers
  BY Zenon DEF FinishBlock, Client, RestOK
<1>2. RestOK' /\ Hears({}) /\ QueueOK(chain, queue')
  BY <1>1, HearsNothing, Zenon DEF Client, RestOK, futures
<1>3. CASE chain.scheduled = {} /\ chain.requested = {}
  <2>1. PICK c : c = Core(chain, pool, tasks, state)
    BY Zenon
  <2>2. /\ c.chain = chain /\ c.pool = pool /\ c.tasks = tasks /\ c.state = state
        /\ c = Core(c.chain, c.pool, c.tasks, c.state)
    BY <2>1, CoreFields
  <2>3. CoreOK(c)
    BY <2>2, Zenon DEF CoreOK, Client
  <2>4. PICK d : d = SwitchToSaturatedState(c)
    BY Zenon
  <2>5. Become(d)
    BY <1>3, <2>1, <2>4, Zenon DEF FinishBlock
  <2>6. CoreOK(d) /\ SameBlocks(c, d) /\ Tracked(d, {})
    BY <2>3, <2>4, Saturates, Zenon
  <2>7. NewOK(conn', c.tasks) /\ QueueOK(c.chain, queue')
    BY <1>1, <1>2, <2>2, Zenon DEF Client
  <2>8. /\ Client' /\ (Tracked(d, {}) => Requested(chain', pool', tasks'))
        /\ Verdicts(c.chain, queue') => Verdicts(chain', queue')
    BY <1>2, <2>5, <2>6, <2>7, Becomes, Zenon
  <2> QED BY <1>1, <2>2, <2>6, <2>8, Zenon DEF Kept
<1>4. CASE ~(chain.scheduled = {} /\ chain.requested = {})
  <2>1. PICK d \in ExecuteSynchronizationTasks(Core(chain, pool, tasks, state), {}, {}) : Become(d)
    BY <1>4, Zenon DEF FinishBlock
  <2>2. ChainOK(chain, pool) /\ chain.requested \subseteq chain.requested /\ chain.scheduled \subseteq chain.scheduled
    BY Zenon DEF Client
  <2>3. /\ Client' /\ (Requested(chain, pool, tasks) => Requested(chain', pool', tasks'))
        /\ Verdicts(chain, queue') => Verdicts(chain', queue')
    BY <1>2, <2>1, <2>2, ExecutesAfter, Zenon
  <2> QED BY <1>1, <2>3, Zenon DEF Kept
<1> QED BY <1>3, <1>4, Zenon

\* after_peer_nearly_blocks_verified.
LEMMA Defers ==
    ASSUME Client, NEW p \in Peers, AfterPeerNearlyBlocksVerified(p)
    PROVE  Kept
BY Zenon DEF Client, AfterPeerNearlyBlocksVerified, Kept, RestOK, core

\* What is wrong below a block is wrong with it.
LEMMA GoodParent ==
    ASSUME NEW b \in Blocks, b # Genesis
    PROVE  Good(b) <=> Good(Parent[b]) /\ b \notin BadBlocks \cup BadHeaders
BY Tree, SMTT(60) DEF Good

\* The verification thread takes a task.
LEMMA Pops ==
    ASSUME NEW ch, NEW q, QueueOK(ch, q), q # <<>>, NEW new, new.verifying \subseteq ch.verifying \ {Head(q)}
    PROVE  /\ QueueOK(new, Tail(q)) /\ Head(q) \in Blocks
           /\ (/\ Verdicts(ch, q) /\ ch.stored \subseteq new.stored
               /\ \A x \in new.stored : Good(x)
               /\ \A x \in new.dead : ~Good(x)
               /\ \A x \in ch.verifying \ {Head(q)} : Good(x) => x \in new.verifying
               /\ Good(Head(q)) => Head(q) \in new.stored)
              => Verdicts(new, Tail(q))
<1>1. q \in Seq(Blocks) /\ ch.verifying \subseteq Elements(q)
  BY Zenon DEF QueueOK
<1>2. PICK n \in Nat : n = Len(q) /\ n # 0
  BY <1>1
<1>3. PICK r : r = Tail(q)
  BY Zenon
<1>4. /\ r \in Seq(Blocks) /\ DOMAIN r = 1..n - 1 /\ DOMAIN q = 1..n /\ Head(q) = q[1] /\ q[1] \in Blocks
      /\ \A i \in 1..n - 1 : r[i] = q[i + 1] /\ i + 1 \in 1..n
  BY <1>1, <1>2, <1>3, SMTT(60)
<1>5. ASSUME NEW i \in 1..n, i # 1 PROVE i - 1 \in DOMAIN r /\ r[i - 1] = q[i]
  <2>1. i - 1 \in 1..n - 1 /\ (i - 1) + 1 = i
    BY <1>5
  <2> QED BY <1>4, <2>1, Zenon
<1>6. QueueOK(new, r)
  <2>1. ASSUME NEW x \in new.verifying PROVE x \in Elements(r)
    <3>1. PICK i \in 1..n : q[i] = x
      BY <1>1, <1>4, <2>1, SMTT(60) DEF Elements
    <3>2. i # 1
      BY <1>4, <2>1, <3>1, Zenon
    <3> QED BY <1>5, <3>1, <3>2, Zenon DEF Elements
  <2> QED BY <1>4, <2>1, Zenon DEF QueueOK
<1>7. ASSUME Verdicts(ch, q), ch.stored \subseteq new.stored,
             \A x \in new.stored : Good(x), \A x \in new.dead : ~Good(x),
             \A x \in ch.verifying \ {Head(q)} : Good(x) => x \in new.verifying,
             Good(Head(q)) => Head(q) \in new.stored
      PROVE  Verdicts(new, r)
  <2>1. ASSUME NEW i \in 1..n - 1, Good(r[i]) PROVE TaskOK(new, r, i)
    <3>1. r[i] = q[i + 1] /\ i + 1 \in 1..n /\ i + 1 # 1 /\ r[i] \in Blocks
      BY <1>4, <2>1, SMTT(60)
    <3>2. TaskOK(ch, q, i + 1)
      BY <1>4, <1>7, <2>1, <3>1, Zenon DEF Verdicts
    <3>3. q[i + 1] \in ch.verifying /\ q[i + 1] # q[1]
      BY <1>4, <3>1, <3>2, SMTT(60) DEF TaskOK
    <3>4. r[i] \in new.verifying
      BY <1>4, <1>7, <2>1, <3>1, <3>3, Zenon
    <3>5. ASSUME NEW j \in DOMAIN r, r[j] = r[i] PROVE i = j
      <4>1. q[j + 1] = q[i + 1] /\ j + 1 \in DOMAIN q
        BY <1>4, <3>1, <3>5, Zenon
      <4>2. i + 1 = j + 1
        BY <3>2, <4>1, Zenon DEF TaskOK
      <4> QED BY <1>4, <4>2, SMTT(60)
    <3>6. Parent[r[i]] \in new.stored \/ \E j \in 1..(i - 1) : r[j] = Parent[r[i]]
      <4>1. CASE Parent[r[i]] \in ch.stored
        BY <1>7, <4>1, Zenon
      <4>2. CASE Parent[r[i]] \notin ch.stored
        <5>1. PICK j \in 1..i : q[j] = Parent[r[i]]
          BY <3>1, <3>2, <4>2, SMTT(60) DEF TaskOK
        <5>2. j \in 1..n /\ q[j] \in Blocks
          BY <1>1, <1>4
        <5>3. r[i] # Genesis
          BY <5>1, <5>2, TreeAssumption, Zenon
        <5>4. CASE j = 1
          <6>1. Good(q[1])
            BY <2>1, <3>1, <5>1, <5>3, <5>4, GoodParent, Zenon
          <6> QED BY <1>4, <1>7, <5>1, <5>4, <6>1, Zenon
        <5>5. CASE j # 1
          <6>1. j - 1 \in 1..(i - 1)
            BY <5>5
          <6> QED BY <1>5, <5>1, <5>2, <5>5, <6>1, Zenon
        <5> QED BY <5>4, <5>5, Zenon
      <4> QED BY <4>1, <4>2, Zenon
    <3> QED BY <3>4, <3>5, <3>6, Zenon DEF TaskOK
  <2> QED BY <1>4, <1>7, <2>1, Zenon DEF Verdicts
<1> QED BY <1>3, <1>4, <1>6, <1>7, Zenon

\* awake_waiting_threads.
LEMMA Awakes ==
    ASSUME Client, NEW b \in Blocks, AwakeWaitingThreads(b), UNCHANGED <<conn, finishing>>, banned' \subseteq Peers
    PROVE  RestOK'
<1>1. byPeer' \in [Blocks -> Peers \cup {NoPeer}]
  BY Zenon DEF Client, RestOK, AwakeWaitingThreads
<1>2. waiting' \in BlocksByPeer
  BY Zenon DEF Client, RestOK, AwakeWaitingThreads, BlocksByPeer
<1>3. deferred' \subseteq Peers
  BY Zenon DEF Client, RestOK, AwakeWaitingThreads
<1> QED BY <1>1, <1>2, <1>3, Zenon DEF Client, RestOK

\* A good block whose task comes first can be stored.
LEMMA FirstTask ==
    ASSUME NEW ch, NEW q, QueueOK(ch, q), q # <<>>, Verdicts(ch, q), Good(Head(q))
    PROVE  Head(q) \in ch.verifying /\ Parent[Head(q)] \in ch.stored
<1>1. q \in Seq(Blocks) /\ Len(q) # 0
  BY DEF QueueOK
<1>2. 1 \in DOMAIN q /\ Head(q) = q[1]
  BY <1>1
<1>3. TaskOK(ch, q, 1)
  BY <1>2, Zenon DEF Verdicts
<1>4. \A j \in 1..(1 - 1) : FALSE
  OBVIOUS
<1> QED BY <1>2, <1>3, <1>4, Zenon DEF TaskOK

\* on_block_verification_success.
LEMMA Succeeds ==
    ASSUME Library, Client, OnBlockVerificationSuccess
    PROVE  Kept
<1>1. PICK b : b = Head(queue)
  BY Zenon
<1>2. /\ QueueOK(chain, queue) /\ queue # <<>> /\ ChainOK(chain, pool) /\ queue' = Tail(queue)
      /\ b \notin BadHeaders \cup BadBlocks /\ Parent[b] \in chain.stored /\ b \notin chain.stored
  BY <1>1, Zenon DEF Client, OnBlockVerificationSuccess, Accepts
<1>3. b \in Blocks /\ b # Genesis
  <2>1. queue \in Seq(Blocks)
    BY <1>2, Zenon DEF QueueOK
  <2> QED BY <1>1, <1>2, <2>1, SMTT(60) DEF ChainOK, StorageOK
<1>4. AwakeWaitingThreads(b) /\ UNCHANGED <<conn, finishing>> /\ UNCHANGED banned
  BY <1>1, Zenon DEF OnBlockVerificationSuccess
<1>5. RestOK' /\ Hears({})
  BY <1>3, <1>4, Awakes, HearsNothing, Zenon DEF Client, RestOK
<1>6. Verdicts(chain, queue) => Good(b)
  BY <1>2, <1>3, GoodParent, Zenon DEF Verdicts
<1>7. CASE b \in chain.verifying
  <2>1. PICK ch : ch = InsertBestBlock([chain EXCEPT !.verifying = @ \ {b}], b)
    BY Zenon
  <2>2. /\ ChainOK(ch, pool) /\ ch.stored = chain.stored \cup {b} /\ ch.verifying = chain.verifying \ {b}
        /\ ch.requested = chain.requested /\ ch.scheduled = chain.scheduled /\ ch.dead = chain.dead
    BY <1>2, <1>7, <2>1, StoresBlock
  <2>3. PICK d \in ExecuteSynchronizationTasks(Core(ch, pool, tasks, state), {}, {}) : Become(d)
    BY <1>1, <1>7, <2>1, Zenon DEF OnBlockVerificationSuccess
  <2>4. QueueOK(ch, queue')
    BY <1>1, <1>2, <2>2, Pops, Zenon
  <2>5. ASSUME Verdicts(chain, queue) PROVE Verdicts(ch, queue')
    <3>1. chain.stored \subseteq ch.stored /\ \A x \in ch.stored : Good(x)
      BY <1>6, <2>2, <2>5, Zenon DEF Verdicts
    <3>2. \A x \in ch.dead : ~Good(x)
      BY <2>2, <2>5, Zenon DEF Verdicts
    <3>3. /\ \A x \in chain.verifying \ {Head(queue)} : Good(x) => x \in ch.verifying
          /\ Good(Head(queue)) => Head(queue) \in ch.stored
          /\ ch.verifying \subseteq chain.verifying \ {Head(queue)}
      BY <1>1, <2>2, Zenon
    <3> QED BY <1>2, <2>5, <3>1, <3>2, <3>3, Pops, Zenon
  <2>6. /\ Client' /\ (Requested(chain, pool, tasks) => Requested(chain', pool', tasks'))
        /\ Verdicts(ch, queue') => Verdicts(chain', queue')
    <3>1. ch.requested \subseteq chain.requested /\ ch.scheduled \subseteq chain.scheduled
      BY <2>2, Zenon
    <3> QED BY <1>5, <2>2, <2>3, <2>4, <3>1, ExecutesAfter, Zenon
  <2> QED BY <2>5, <2>6, Zenon DEF Kept
<1>8. CASE b \notin chain.verifying
  <2>1. PICK d \in ExecuteSynchronizationTasks(Core(chain, pool, tasks, state), {}, {}) : Become(d)
    BY <1>1, <1>8, Zenon DEF OnBlockVerificationSuccess
  <2>2. chain.verifying \subseteq chain.verifying \ {Head(queue)}
    BY <1>1, <1>8, Zenon
  <2>3. QueueOK(chain, queue')
    BY <1>2, <2>2, Pops, Zenon
  <2>4. ~Verdicts(chain, queue)
    BY <1>1, <1>2, <1>6, <1>8, FirstTask, Zenon
  <2>5. Client' /\ (Requested(chain, pool, tasks) => Requested(chain', pool', tasks'))
    <3>1. chain.requested \subseteq chain.requested /\ chain.scheduled \subseteq chain.scheduled
      BY Zenon
    <3> QED BY <1>2, <1>5, <2>1, <2>3, <3>1, ExecutesAfter, Zenon
  <2> QED BY <2>4, <2>5, Zenon DEF Kept
<1> QED BY <1>7, <1>8, Zenon

\* on_block_verification_error.
LEMMA Fails ==
    ASSUME Library, Client, OnBlockVerificationError
    PROVE  Kept
<1>1. PICK b : b = Head(queue)
  BY Zenon
<1>2. /\ QueueOK(chain, queue) /\ queue # <<>> /\ ChainOK(chain, pool) /\ queue' = Tail(queue)
      /\ b \in BadHeaders \cup BadBlocks \/ Parent[b] \notin chain.stored
  BY <1>1, Zenon DEF Client, OnBlockVerificationError, Accepts
<1>3. b \in Blocks
  <2>1. queue \in Seq(Blocks)
    BY <1>2, Zenon DEF QueueOK
  <2> QED BY <1>1, <1>2, <2>1
<1>4. AwakeWaitingThreads(b) /\ UNCHANGED <<conn, finishing>>
  BY <1>1, Zenon DEF OnBlockVerificationError
<1>5. banned' \subseteq Peers
  <2>1. byPeer[b] \in Peers \cup {NoPeer}
    BY <1>3, Zenon DEF Client, RestOK
  <2>2. PICK ps \in SUBSET Peers : Ban(ps)
    BY <1>1, <2>1, Zenon DEF OnBlockVerificationError
  <2> QED BY <2>2, BansPeers, Zenon
<1>6. RestOK' /\ Hears({})
  BY <1>3, <1>4, <1>5, Awakes, HearsNothing, Zenon
<1>7. PICK hs : hs = WithFollowers(chain, {b})
  BY Zenon
<1>8. b \in hs /\ \A h \in hs : h = b \/ (h \in Blocks /\ b \in Ancestors[h])
  BY <1>2, <1>7, Zenon DEF WithFollowers, ChainOK, Chain
<1>9. PICK x : x = ForgetBlocks(chain, hs)
  BY Zenon
<1>10. ChainOK(x, pool) /\ Forgets(chain, hs, x)
  BY <1>2, <1>9, ForgetsBlocks, Zenon
<1>11. PICK ch : ch = MarkDeadEndBlock(x, b)
  BY Zenon
<1>12. /\ ChainOK(ch, pool) /\ ch.dead = chain.dead \cup {b} /\ ch.scheduled = chain.scheduled \ hs
       /\ ch.requested = chain.requested \ hs /\ ch.verifying = chain.verifying \ hs /\ ch.stored = chain.stored
  <2>1. /\ ChainOK(ch, pool) /\ ch.dead = x.dead \cup {b} /\ ch.scheduled = x.scheduled
        /\ ch.requested = x.requested /\ ch.verifying = x.verifying /\ ch.stored = x.stored
    BY <1>3, <1>10, <1>11, MarksDeadEnd, SMTT(60)
  <2> QED BY <1>10, <2>1, Zenon DEF Forgets
<1>13. PICK d \in ExecuteSynchronizationTasks(Core(ch, pool, tasks, state), {}, {}) : Become(d)
  BY <1>1, <1>7, <1>9, <1>11, Zenon DEF OnBlockVerificationError, ForgetBlocksWithChildren
<1>14. ch.verifying \subseteq chain.verifying \ {Head(queue)}
  BY <1>1, <1>8, <1>12, Zenon
<1>15. QueueOK(ch, queue')
  BY <1>2, <1>14, Pops, Zenon
<1>16. ASSUME Verdicts(chain, queue) PROVE Verdicts(ch, queue')
  <2>1. ~Good(b)
    <3>1. Good(b) => Parent[b] \in chain.stored
      BY <1>1, <1>2, <1>16, FirstTask, Zenon
    <3>2. Good(b) => b \notin BadHeaders \cup BadBlocks
      BY <1>3, Tree, Zenon DEF Good
    <3> QED BY <1>2, <3>1, <3>2, Zenon
  <2>2. \A h \in hs : ~Good(h)
    BY <1>8, <2>1, Tree, Zenon DEF Good
  <2>3. chain.stored \subseteq ch.stored /\ \A y \in ch.stored : Good(y)
    BY <1>12, <1>16, Zenon DEF Verdicts
  <2>4. \A y \in ch.dead : ~Good(y)
    BY <1>12, <1>16, <2>1, Zenon DEF Verdicts
  <2>5. /\ \A y \in chain.verifying \ {Head(queue)} : Good(y) => y \in ch.verifying
        /\ Good(Head(queue)) => Head(queue) \in ch.stored
    BY <1>1, <1>12, <2>1, <2>2, Zenon
  <2> QED BY <1>2, <1>14, <1>16, <2>3, <2>4, <2>5, Pops, Zenon
<1>17. /\ Client' /\ (Requested(chain, pool, tasks) => Requested(chain', pool', tasks'))
       /\ Verdicts(ch, queue') => Verdicts(chain', queue')
  <2>1. ch.requested \subseteq chain.requested /\ ch.scheduled \subseteq chain.scheduled
    BY <1>12, Zenon
  <2> QED BY <1>6, <1>12, <1>13, <1>15, <2>1, ExecutesAfter, Zenon
<1> QED BY <1>16, <1>17, Zenon DEF Kept

-----------------------------------------------------------------------------
(* The management worker.                                                  *)

\* The tasks are finite in number.
LEMMA FiniteEntries ==
    ASSUME Library, NEW ps \in SUBSET Peers, NEW S \in SUBSET (Blocks \X ps)
    PROVE  IsFiniteSet(S)
<1>1. IsFiniteSet(Blocks) /\ IsFiniteSet(ps)
  BY SyncAssumption, Subsets, Zenon
<1>2. IsFiniteSet(Blocks \X ps)
  BY <1>1, Unions, Zenon
<1> QED BY <1>2, Subsets, Zenon

\* What % returns.
LEMMA Remainder ==
    ASSUME NEW m \in Int, NEW i \in Int, i > 0
    PROVE  m % i \in 0..(i - 1)
BY SMT

\* The failures of a block stay in their range.
LEMMA FailuresInRange ==
    ASSUME NEW t \in PeersTasks, NEW b \in Blocks, NEW n \in Nat
    PROVE  FailuresAfter(t, b, n) \in 0..MaxBlocksFailures
<1>1. MaxBlocksFailures \in Nat /\ t.blockFailures[b] \in Nat
  BY Counters
<1>2. MaxBlocksFailures + 1 \in Int /\ MaxBlocksFailures + 1 > 0 /\ (MaxBlocksFailures + 1) - 1 = MaxBlocksFailures
  BY <1>1
<1>3. t.blockFailures[b] + n \in Int
  BY <1>1
<1>4. (t.blockFailures[b] + n) % (MaxBlocksFailures + 1) \in 0..MaxBlocksFailures
  BY <1>2, <1>3, Remainder, Zenon
<1>5. 0 \in 0..MaxBlocksFailures
  BY <1>1
<1> QED BY <1>4, <1>5, Zenon DEF FailuresAfter

\* If no failures are counted, no block is given up.
LEMMA NothingFails ==
    ASSUME Library, GiveUp = FALSE, NEW ps \in SUBSET Peers, NEW entries \in SUBSET (Blocks \X ps),
           NEW failed \in FailedEntries(entries)
    PROVE  failed = {}
<1>1. failed \subseteq entries /\ \A b \in Blocks : Copies(failed, b) = 0
  BY Zenon DEF FailedEntries, FailedAfter
<1>2. ASSUME NEW e \in failed PROVE FALSE
  <2>1. PICK b \in Blocks : b = e[1]
    BY <1>1, Zenon
  <2>2. PICK S : S = {f \in failed : f[1] = b}
    BY Zenon
  <2>3. S \in SUBSET (Blocks \X ps) /\ S # {}
    BY <1>1, <2>1, <2>2, Zenon
  <2>4. Cardinality(S) # 0
    BY <2>3, FiniteEntries, Sizes, Zenon
  <2> QED BY <1>1, <2>2, <2>4, Zenon DEF Copies
<1> QED BY <1>2, Zenon

\* manage_synchronization_peers_blocks and manage_synchronization_peers_headers.
LEMMA Manages ==
    ASSUME Library, Client, NEW stalled \in SUBSET Asked(tasks), ManagePeers(stalled)
    PROVE  Kept
<1>1. TasksOK(tasks) /\ tasks \in PeersTasks /\ stalled \in SUBSET Peers /\ ChainOK(chain, pool)
  BY Zenon DEF Client, TasksOK, Asked
<1>2. PICK entries : entries = EntriesOf(tasks, stalled)
  BY Zenon
<1>3. entries \in SUBSET (Blocks \X stalled)
  BY <1>2, Zenon DEF EntriesOf
<1>4. PICK excluded : excluded = Excluded(tasks, stalled)
  BY Zenon
<1>5. excluded \subseteq stalled /\ excluded \in SUBSET Peers
  BY <1>1, <1>4, Zenon DEF Excluded
<1>6. PICK f : f = [b \in Blocks |-> FailuresAfter(tasks, b, Copies(entries, b))]
  BY Zenon
<1>7. f \in [Blocks -> 0..MaxBlocksFailures]
  <2>1. ASSUME NEW b \in Blocks PROVE Copies(entries, b) \in Nat
    <3>1. {e \in entries : e[1] = b} \in SUBSET (Blocks \X stalled)
      BY <1>3, Zenon
    <3>2. IsFiniteSet({e \in entries : e[1] = b})
      BY <1>1, <3>1, FiniteEntries, Zenon
    <3> QED BY <3>2, Sizes, Zenon DEF Copies
  <2>2. \A b \in Blocks : FailuresAfter(tasks, b, Copies(entries, b)) \in 0..MaxBlocksFailures
    BY <1>1, <2>1, FailuresInRange, Zenon
  <2> QED BY <1>6, <2>2, Zenon
<1>8. PICK t1 : t1 = ResetBlocksTasks(tasks, stalled)
  BY Zenon
<1>9. TaskStep(tasks, t1, {}, BlocksIn(entries)) /\ Asked(t1) = Asked(tasks) \ stalled /\ Known(t1) = Known(tasks)
  BY <1>1, <1>2, <1>8, BlocksTasksAreReset, Zenon
<1>10. PICK t2 : t2 = Penalize(t1, stalled)
  BY Zenon
<1>11. TaskStep(t1, t2, {}, {}) /\ Asked(t2) = Asked(t1)
  BY <1>1, <1>9, <1>10, PeersArePenalized, Zenon DEF TaskStep
<1>12. PICK t3 : t3 = UnusefulPeers(t2, excluded)
  BY Zenon
<1>13. TaskStep(t2, t3, excluded, {})
  <2>1. TasksOK(t2) /\ excluded \cap Asked(t2) = {}
    BY <1>5, <1>9, <1>11, Zenon DEF TaskStep
  <2> QED BY <1>5, <1>12, <2>1, PeersAreUnuseful, Zenon
<1>14. PICK t : t = [t3 EXCEPT !.blockFailures = f]
  BY Zenon
<1>15. TaskStep(t3, t, {}, {})
  BY <1>7, <1>13, <1>14, FailuresAreCounted, Zenon DEF TaskStep
<1>16. TaskStep(tasks, t, {}, BlocksIn(entries))
  <2>1. excluded \subseteq Known(tasks)
    BY <1>1, <1>5, Zenon DEF TasksOK, UsefulPeers, Known
  <2> QED BY <1>9, <1>11, <1>13, <1>15, <2>1, Zenon DEF TaskStep
<1>17. /\ t = [UnusefulPeers(Penalize(ResetBlocksTasks(tasks, stalled), stalled), excluded) EXCEPT
                 !.blockFailures = f]
       /\ UNCHANGED <<conn, futures, queue, finishing>>
  BY <1>8, <1>10, <1>12, <1>14, Zenon DEF ManagePeers
<1>18. PICK failed \in FailedEntries(entries) :
         \E c \in ExecuteSynchronizationTasks(
                    Core(ForgetBlocksWithChildren(chain, BlocksIn(failed)), pool, t, state),
                    Option(entries \ failed), Option(failed)) :
           \E late \in SUBSET ((tasks.headersRequests \cap c.tasks.headersRequests) \ Asked(c.tasks)) :
             /\ Become([c EXCEPT !.tasks = Penalize(OnPeerHeadersFailure(@, late), late)])
             /\ Ban(excluded \cup Excluded(c.tasks, late))
  BY <1>2, <1>4, <1>6, <1>17, ZenonT(60) DEF ManagePeers
<1>19. PICK hs : hs = WithFollowers(chain, BlocksIn(failed))
  BY Zenon
<1>20. PICK ch : ch = ForgetBlocks(chain, hs)
  BY Zenon
<1>21. ChainOK(ch, pool) /\ Forgets(chain, hs, ch)
  BY <1>1, <1>20, ForgetsBlocks, Zenon
<1>22. PICK e : e = Core(ch, pool, t, state)
  BY Zenon
<1>23. e.chain = ch /\ e.pool = pool /\ e.tasks = t /\ e.state = state /\ e = Core(e.chain, e.pool, e.tasks, e.state)
  BY <1>22, CoreFields, SMTT(60)
<1>24. CoreOK(e)
  <2>1. chain \in Chain /\ ch \in Chain /\ Pending(ch) \subseteq Pending(chain) /\ StateOK(chain, state)
    BY <1>21, Zenon DEF Client, ChainOK, Pending, Forgets
  <2>2. StateOK(ch, state)
    BY <2>1, StateKept, Zenon
  <2> QED BY <1>16, <1>21, <1>23, <2>2, Zenon DEF CoreOK, TaskStep
<1>25. PICK c \in ExecuteSynchronizationTasks(e, Option(entries \ failed), Option(failed)) :
         \E late \in SUBSET ((tasks.headersRequests \cap c.tasks.headersRequests) \ Asked(c.tasks)) :
           /\ Become([c EXCEPT !.tasks = Penalize(OnPeerHeadersFailure(@, late), late)])
           /\ Ban(excluded \cup Excluded(c.tasks, late))
  BY <1>18, <1>19, <1>20, <1>22, Zenon DEF ForgetBlocksWithChildren
<1>26. PICK late \in SUBSET ((tasks.headersRequests \cap c.tasks.headersRequests) \ Asked(c.tasks)) :
         /\ Become([c EXCEPT !.tasks = Penalize(OnPeerHeadersFailure(@, late), late)])
         /\ Ban(excluded \cup Excluded(c.tasks, late))
  BY <1>25, Zenon
<1>27. /\ UNION Option(entries \ failed) = entries \ failed /\ UNION Option(failed) = failed
       /\ failed \subseteq entries
  BY Zenon DEF Option, FailedEntries
<1>28. CoreOK(c) /\ SameBlocks(e, c) /\ (Tracked(e, BlocksIn(entries \ failed)) => Tracked(c, {}))
  <2>1. BlocksIn(entries \ failed) \subseteq Blocks /\ BlocksIn(failed) \subseteq Blocks
    BY <1>3, <1>27, SMTT(60) DEF BlocksIn
  <2>2. PICK forced, final : forced = Option(entries \ failed) /\ final = Option(failed)
    BY Zenon
  <2>3. /\ BlocksIn(UNION forced) \subseteq Blocks /\ BlocksIn(UNION final) \subseteq Blocks
        /\ c \in ExecuteSynchronizationTasks(e, forced, final)
    BY <1>25, <1>27, <2>1, <2>2, Zenon
  <2>4. CoreOK(c) /\ SameBlocks(e, c) /\ (Tracked(e, BlocksIn(UNION forced)) => Tracked(c, {}))
    BY <1>24, <2>3, Executes, Zenon
  <2> QED BY <1>27, <2>2, <2>4, Zenon
<1>29. PICK u : u = OnPeerHeadersFailure(c.tasks, late)
  BY Zenon
<1>30. TasksOK(c.tasks) /\ late \in SUBSET c.tasks.headersRequests /\ late \in SUBSET Peers
  BY <1>28, Zenon DEF CoreOK, TasksOK, PeersTasks
<1>31. TaskStep(c.tasks, u, {}, {})
  BY <1>29, <1>30, HeadersAreLate, Zenon
<1>32. PICK v : v = Penalize(u, late)
  BY Zenon
<1>33. TaskStep(c.tasks, v, {}, {})
  <2>1. TaskStep(u, v, {}, {})
    BY <1>30, <1>31, <1>32, PeersArePenalized, Zenon DEF TaskStep
  <2> QED BY <1>31, <2>1, Zenon DEF TaskStep
<1>34. PICK d : d = Core(c.chain, c.pool, v, c.state)
  BY Zenon
<1>35. Become(d)
  <2>1. d = [c EXCEPT !.tasks = v]
    BY <1>28, <1>34 DEF CoreOK, Core
  <2>2. [c EXCEPT !.tasks = Penalize(OnPeerHeadersFailure(@, late), late)] = [c EXCEPT !.tasks = v]
    BY <1>29, <1>32, Zenon
  <2> QED BY <1>26, <2>1, <2>2, Zenon
<1>36. CoreOK(d) /\ SameBlocks(c, d) /\ TracksToo(c, d)
  <2>1. PICK heard \in SUBSET Known(c.tasks) : TaskStep(c.tasks, v, heard, {})
    BY <1>33, Zenon
  <2> QED BY <1>28, <1>34, <2>1, CoreTasks, Zenon
<1>37. SameBlocks(e, d)
  BY <1>28, <1>36, Zenon DEF SameBlocks
<1>38. banned' \subseteq Peers
  <2>1. PICK ps \in SUBSET Peers : Ban(ps)
    BY <1>5, <1>26, <1>30, Zenon DEF Excluded
  <2> QED BY <2>1, BansPeers, Zenon
<1>39. RestOK' /\ Hears({})
  BY <1>17, <1>38, HearsNothing, Zenon DEF Client, RestOK, futures
<1>40. NewOK(conn', e.tasks) /\ QueueOK(e.chain, queue')
  BY <1>16, <1>17, <1>21, <1>23, Zenon DEF Client, NewOK, TaskStep, QueueOK, Forgets
<1>41. /\ Client' /\ (Tracked(d, {}) => Requested(chain', pool', tasks'))
       /\ Verdicts(e.chain, queue') => Verdicts(chain', queue')
  BY <1>35, <1>36, <1>37, <1>39, <1>40, Becomes, Zenon
<1>42. ASSUME Requested(chain, pool, tasks) PROVE Requested(chain', pool', tasks')
  <2>1. ASSUME NEW h \in ch.requested, h \notin pool.blocks, ~IsAsked(t, h)
        PROVE  h \in BlocksIn(entries \ failed)
    <3>1. h \in chain.requested /\ h \notin hs /\ h \in Blocks
      BY <1>21, <2>1, Zenon DEF Forgets, ChainOK, Chain
    <3>2. IsAsked(tasks, h)
      BY <1>42, <2>1, <3>1, Zenon DEF Requested
    <3>3. h \in BlocksIn(entries)
      BY <1>16, <2>1, <3>1, <3>2, Zenon DEF TaskStep
    <3>4. h \notin BlocksIn(failed)
      BY <1>19, <3>1, Zenon DEF WithFollowers
    <3> QED BY <3>3, <3>4, Zenon DEF BlocksIn
  <2>2. Tracked(e, BlocksIn(entries \ failed))
    BY <1>23, <2>1, Zenon DEF Tracked
  <2> QED BY <1>28, <1>36, <1>41, <2>2, Zenon DEF TracksToo
<1>43. ASSUME GiveUp = FALSE, Verdicts(chain, queue) PROVE Verdicts(chain', queue')
  <2>1. failed = {}
    BY <1>1, <1>3, <1>43, NothingFails, Zenon
  <2>2. hs = {}
    BY <1>19, <2>1, Zenon DEF WithFollowers, BlocksIn
  <2>3. e.chain.verifying = chain.verifying /\ e.chain.stored = chain.stored /\ e.chain.dead = chain.dead
    BY <1>21, <1>23, <2>2, Zenon DEF Forgets
  <2>4. Verdicts(e.chain, queue)
    BY <1>43, <2>3, SameVerdicts, Zenon
  <2> QED BY <1>17, <1>41, <2>4, Zenon
<1> QED BY <1>41, <1>42, <1>43, PeersAssumption, Zenon DEF Kept

\* manage_unknown_orphaned_blocks.
LEMMA ManagesUnknown ==
    ASSUME Client, ManageUnknownOrphanedBlocks
    PROVE  Kept
<1>1. PICK old : /\ chain' = ForgetBlocks(chain, RemovedBlocks(pool, old))
                 /\ pool' = RemoveBlocks(pool, old)
  BY Zenon DEF ManageUnknownOrphanedBlocks
<1>2. UNCHANGED <<conn, banned, tasks, state, futures, queue, finishing>> /\ state = "Saturated"
  BY Zenon DEF ManageUnknownOrphanedBlocks
<1>3. PICK gone : gone = RemovedBlocks(pool, old)
  BY Zenon
<1>4. ChainOK(chain, pool)
  BY Zenon DEF Client
<1>5. pool' \in OrphanPool /\ pool'.blocks \subseteq pool.blocks /\ gone \subseteq pool.blocks
  BY <1>1, <1>3, <1>4, PoolRemoves, Zenon DEF ChainOK
<1>6. ChainOK(chain', pool) /\ Forgets(chain, gone, chain')
  BY <1>1, <1>3, <1>4, ForgetsBlocks, Zenon
<1>7. ChainOK(chain', pool')
  BY <1>5, <1>6, PoolShrinks, Zenon
<1>8. gone \cap chain.verifying = {}
  BY <1>4, <1>5, Zenon DEF ChainOK, OrphansOK
<1>9. /\ chain'.verifying = chain.verifying /\ chain'.stored = chain.stored /\ chain'.dead = chain.dead
      /\ Pending(chain') = {}
  <2>1. Pending(chain) = {}
    BY <1>2, Zenon DEF Client, StateOK
  <2> QED BY <1>6, <1>8, <2>1, Zenon DEF Forgets, Pending
<1>10. StateOK(chain', state') /\ QueueOK(chain', queue')
  BY <1>2, <1>9, Zenon DEF Client, StateOK, QueueOK
<1>11. Client'
  BY <1>2, <1>7, <1>10, Zenon DEF Client, RestOK, futures, NewOK
<1>12. Requested(chain', pool', tasks')
  BY <1>9, Zenon DEF Requested, Pending
<1>13. Verdicts(chain, queue) => Verdicts(chain', queue')
  BY <1>2, <1>9, SameVerdicts, Zenon
<1> QED BY <1>11, <1>12, <1>13, Zenon DEF Kept

-----------------------------------------------------------------------------
(* The theorems.                                                           *)

\* SynchronizationClientCore::new.
LEMMA Starts ==
    ASSUME Init
    PROVE  Client /\ Requested(chain, pool, tasks) /\ Verdicts(chain, queue)
<1>1. /\ conn = [p \in Peers |-> "new"] /\ banned = {} /\ deferred = {} /\ finishing = {}
      /\ byPeer = [b \in Blocks |-> NoPeer] /\ waiting = [p \in Peers |-> {}]
      /\ chain = NewChain /\ pool = NoOrphans /\ tasks = NoTasks /\ state = "Saturated" /\ queue = <<>>
  BY Zenon DEF Init
<1>2. /\ chain \in Chain /\ chain.stored = {Genesis} /\ chain.best = Genesis /\ chain.dead = {}
      /\ chain.scheduled = {} /\ chain.requested = {} /\ chain.verifying = {} /\ chain.headers = {}
  BY <1>1, SyncAssumption, TreeAssumption, Zenon DEF NewChain, Chain
<1>3. pool \in OrphanPool /\ pool.blocks = {}
  BY <1>1, Zenon DEF NoOrphans, OrphanPool
<1>4. ChainOK(chain, pool)
  BY <1>2, <1>3, Zenon DEF ChainOK, QueuesOK, HeadersOK, StorageOK, OrphansOK, Pending
<1>5. TasksOK(tasks) /\ Known(tasks) = {}
  <2>1. /\ tasks.blocksRequests = [p \in Peers |-> {}] /\ tasks.idleBlocks = {}
        /\ tasks.all = {} /\ tasks.idleHeaders = {} /\ tasks.headersRequests = {}
    BY <1>1, Zenon DEF NoTasks
  <2>2. tasks \in PeersTasks
    BY <1>1, PeersAssumption DEF NoTasks, PeersTasks, BlocksByPeer
  <2>3. Asked(tasks) = {} /\ Known(tasks) = {}
    BY <2>1, Zenon DEF Asked, Known
  <2> QED BY <2>1, <2>2, <2>3, Zenon DEF TasksOK
<1>6. RestOK /\ NewOK(conn, tasks)
  BY <1>1, <1>5, Zenon DEF RestOK, NewOK, BlocksByPeer
<1>7. QueueOK(chain, queue) /\ StateOK(chain, state)
  BY <1>1, <1>2, SMTT(60) DEF QueueOK, StateOK, Pending
<1>8. Requested(chain, pool, tasks)
  BY <1>2, Zenon DEF Requested
<1>9. Verdicts(chain, queue)
  <2>1. Good(Genesis)
    BY SyncAssumption, AncestorsAssumption, Zenon DEF Good
  <2>2. DOMAIN queue = {}
    BY <1>1
  <2> QED BY <1>2, <2>1, <2>2, Zenon DEF Verdicts
<1> QED BY <1>4, <1>5, <1>6, <1>7, <1>8, <1>9, Zenon DEF Client

\* What every handler, thread and timer of the client keeps.
LEMMA Keeps ==
    ASSUME Library, Client, [Next]_vars
    PROVE  Kept
<1>1. CASE UNCHANGED vars
  BY <1>1, Zenon DEF vars, Kept, Client, RestOK
<1>2. ASSUME NEW p \in Peers, OnConnect(p) PROVE Kept
  BY <1>2, Connects, Zenon
<1>3. ASSUME NEW p \in Peers, OnDisconnect(p) PROVE Kept
  BY <1>3, Disconnects, Zenon
<1>4. ASSUME NEW p \in Peers, OnNotFound(p) PROVE Kept
  BY <1>4, FindsNot, Zenon
<1>5. ASSUME NEW p \in Peers, NEW list \in HeaderLists, OnHeaders(p, list) PROVE Kept
  BY <1>5, HandlesHeaders, Zenon
<1>6. ASSUME NEW p \in Peers, NEW b \in Blocks, OnBlock(p, b) PROVE Kept
  BY <1>6, HandlesBlock, Zenon
<1>7. ASSUME NEW p \in Peers, FinishBlock(p) PROVE Kept
  BY <1>7, FinishesBlock, Zenon
<1>8. ASSUME NEW p \in Peers, AfterPeerNearlyBlocksVerified(p) PROVE Kept
  BY <1>8, Defers, Zenon
<1>9. CASE OnBlockVerificationSuccess
  BY <1>9, Succeeds, Zenon
<1>10. CASE OnBlockVerificationError
  BY <1>10, Fails, Zenon
<1>11. CASE ManageSynchronization
  <2>1. PICK stalled \in SUBSET Asked(tasks) : ManagePeers(stalled)
    BY <1>11, Zenon DEF ManageSynchronization
  <2> QED BY <2>1, Manages, Zenon
<1>12. CASE ManageUnknownOrphanedBlocks
  BY <1>12, ManagesUnknown, Zenon
<1> QED BY <1>1, <1>2, <1>3, <1>4, <1>5, <1>6, <1>7, <1>8, <1>9, <1>10, <1>11, <1>12, Zenon DEF Next

\* What the invariants say of the queues, the requests and the verdicts.
LEMMA ClientAgrees ==
    ASSUME Client
    PROVE  QueuesAgree /\ AskedPeersAreBusy
<1>1. TypeOK
  BY Zenon DEF Client, TypeOK, RestOK, ChainOK, TasksOK, StateOK, QueueOK
<1>2. QueuesDisjoint /\ HeadersAreQueued
  BY Zenon DEF Client, ChainOK, QueuesOK, HeadersOK, QueuesDisjoint, HeadersAreQueued
<1>3. VerifyingIsQueued /\ StateMatchesQueues
  BY Zenon DEF Client, QueueOK, StateOK, VerifyingIsQueued, StateMatchesQueues
<1>4. OrphansAreUnprocessed
  BY Zenon DEF Client, ChainOK, OrphansOK, OrphansAreUnprocessed
<1>5. AskedPeersAreBusy
  BY Zenon DEF Client, TasksOK, AskedPeersAreBusy
<1> QED BY <1>1, <1>2, <1>3, <1>4, <1>5, Zenon DEF QueuesAgree

\* What Verdicts says of the verification thread's next task and of dead ends.
LEMMA VerdictsAgree ==
    ASSUME Client, Verdicts(chain, queue)
    PROVE  NoKnownBlock /\ DeadEndsAreInvalid
<1>1. ASSUME queue # <<>>, Head(queue) \in chain.stored PROVE FALSE
  <2>1. Good(Head(queue))
    BY <1>1, Zenon DEF Verdicts
  <2>2. Head(queue) \in chain.verifying
    BY <1>1, <2>1, FirstTask, Zenon DEF Client
  <2> QED BY <1>1, <2>2, Zenon DEF Client, ChainOK, QueuesOK
<1> QED BY <1>1, Zenon DEF NoKnownBlock, DeadEndsAreInvalid, Verdicts, Good

-----------------------------------------------------------------------------
(* The facts of the library, and the theorems.                             *)

INSTANCE FiniteSetTheorems

\* Every set of natural numbers has a least one: < is well-founded.
LEMMA LeastNumber ==
    ASSUME NEW S \in SUBSET Nat, S # {}
    PROVE  \E n \in S : \A m \in S : n <= m
<1>1. \A m, n \in Nat : m < n => <<m, n>> \in OpToRel(<, Nat)
  BY DEF OpToRel
<1>2. PICK R : IsWellFoundedOn(R, Nat) /\ \A m, n \in Nat : m < n => <<m, n>> \in R
  BY <1>1, NatLessThanWellFounded, Zenon
<1>3. PICK n \in S : \A m \in S : <<m, n>> \notin R
  <2>1. IsWellFoundedOn(R, Nat)
    BY <1>2, Zenon
  <2>2. \E x \in S : \A y \in S : ~(<<y, x>> \in R)
    BY <2>1, WFMin, Zenon
  <2> QED BY <2>2, Zenon
<1>4. \A m \in S : ~(m < n)
  BY <1>2, <1>3, Zenon
<1> QED BY <1>3, <1>4

\* What the lemmas assume of numbers and finite sets holds.
LEMMA Facts == Library
<1>1. \A S \in SUBSET Nat : S # {} => \E n \in S : \A m \in S : n <= m
  BY LeastNumber, Zenon
<1>2. \A S : IsFiniteSet(S) => Cardinality(S) \in Nat /\ (Cardinality(S) = 0 <=> S = {})
  BY FS_CardinalityType, FS_EmptySet, Zenon
<1>3. \A n \in Nat : IsFiniteSet(1..n) /\ Cardinality(1..n) = n
  <2>1. SUFFICES ASSUME NEW n \in Nat PROVE IsFiniteSet(1..n) /\ Cardinality(1..n) = n
    BY Zenon
  <2>2. IsFiniteSet(1..n) /\ Cardinality(1..n) = IF 1 > n THEN 0 ELSE n - 1 + 1
    BY FS_Interval
  <2> QED BY <2>2
<1>4. \A S : IsFiniteSet(S) =>
        \A T \in SUBSET S : IsFiniteSet(T) /\ Cardinality(T) <= Cardinality(S)
  BY FS_Subset, Zenon
<1>5. \A S : IsFiniteSet(S) => \A x \in S : Cardinality(S \ {x}) = Cardinality(S) - 1
  BY FS_RemoveElement
<1>6. ASSUME NEW S, NEW T, IsFiniteSet(S), IsFiniteSet(T)
      PROVE  Cardinality(S \cup T) <= Cardinality(S) + Cardinality(T)
  <2>1. IsFiniteSet(S \cap T)
    BY <1>6, FS_Subset
  <2>2. Cardinality(S) \in Nat /\ Cardinality(T) \in Nat /\ Cardinality(S \cap T) \in Nat
    BY <1>6, <2>1, FS_CardinalityType
  <2>3. Cardinality(S \cup T) = Cardinality(S) + Cardinality(T) - Cardinality(S \cap T)
    BY <1>6, FS_Union, SMTT(30)
  <2> QED BY <2>2, <2>3
<1>7. ASSUME NEW S, NEW T, IsFiniteSet(S), IsFiniteSet(T)
      PROVE  IsFiniteSet(S \cup T) /\ IsFiniteSet(S \X T)
  BY <1>7, FS_Union, FS_Product, Zenon
<1>8. ASSUME NEW S, NEW T, IsFiniteSet(S), IsFiniteSet(T)
      PROVE  PigeonHole(S, T)
  BY <1>8, FS_PigeonHole, Zenon DEF PigeonHole
<1> QED BY <1>1, <1>2, <1>3, <1>4, <1>5, <1>6, <1>7, <1>8, ZenonT(60) DEF Library

\* The queues of the chain, the orphan pool, the verification thread's channel
\* and the state agree, whatever the peers send, and in whatever order answers,
\* timeouts, verdicts and disconnections come: no HashQueue::push_back panics.
THEOREM ClientQueuesAgree == Spec => []QueuesAgree
<1>1. Init => Client
  BY Starts
<1>2. Client /\ [Next]_vars => Client'
  BY Keeps, Facts DEF Kept
<1>3. Client => QueuesAgree
  BY ClientAgrees
<1> QED BY <1>1, <1>2, <1>3, PTL DEF Spec

\* Where peers are kept after an invalid block (close_connection_on_bad_block is
\* off, as on regtest), every requested block is asked of some peer or waits in the
\* orphan pool, and who is asked is busy: no sequence of timeouts, disconnections,
\* late answers and verdicts leaves the client waiting for a block that no one was
\* asked for.
THEOREM ClientRequestsAreTracked ==
    ASSUME CloseOnBadBlock = FALSE
    PROVE  Spec => []RequestsAreTracked
<1> DEFINE Inv == Client /\ Requested(chain, pool, tasks)
<1>1. Init => Inv
  BY Starts
<1>2. Inv /\ [Next]_vars => Inv'
  <2>1. SUFFICES ASSUME Inv, [Next]_vars PROVE Inv'
    OBVIOUS
  <2>2. Kept
    BY <2>1, Keeps, Facts, Zenon
  <2> QED BY <2>1, <2>2 DEF Kept
<1>3. Inv => RequestsAreTracked
  BY ClientAgrees DEF RequestsAreTracked, RequestedIsAsked, Requested, IsAsked
<1> QED BY <1>1, <1>2, <1>3, PTL DEF Spec

\* As long as the client does not give up a block that peers fail to send, the
\* verification thread is never handed a block that is stored by the time it gets
\* to it, where ChainVerifier::verify_block would end in unreachable!().
THEOREM ClientHandsOutNoKnownBlock ==
    ASSUME GiveUp = FALSE
    PROVE  Spec => []NoKnownBlock
<1> DEFINE Inv == Client /\ Verdicts(chain, queue)
<1>1. Init => Inv
  BY Starts
<1>2. Inv /\ [Next]_vars => Inv'
  <2>1. SUFFICES ASSUME Inv, [Next]_vars PROVE Inv'
    OBVIOUS
  <2>2. Kept
    BY <2>1, Keeps, Facts, Zenon
  <2> QED BY <2>1, <2>2 DEF Kept
<1>3. Inv => NoKnownBlock
  BY VerdictsAgree, SMTT(60)
<1> QED BY <1>1, <1>2, <1>3, PTL DEF Spec

\* Under the same condition a block is marked as a dead end only if it, or a block
\* below it, is invalid: no order of verdicts condemns a valid block.
THEOREM ClientDeadEndsAreInvalid ==
    ASSUME GiveUp = FALSE
    PROVE  Spec => []DeadEndsAreInvalid
<1> DEFINE Inv == Client /\ Verdicts(chain, queue)
<1>1. Init => Inv
  BY Starts
<1>2. Inv /\ [Next]_vars => Inv'
  <2>1. SUFFICES ASSUME Inv, [Next]_vars PROVE Inv'
    OBVIOUS
  <2>2. Kept
    BY <2>1, Keeps, Facts, Zenon
  <2> QED BY <2>1, <2>2 DEF Kept
<1>3. Inv => DeadEndsAreInvalid
  BY VerdictsAgree
<1> QED BY <1>1, <1>2, <1>3, PTL DEF Spec
=============================================================================
