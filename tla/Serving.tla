------------------------------ MODULE Serving ------------------------------
(***************************************************************************)
(* What the node does for its peers.  The threads of the network layer     *)
(* receive messages (p2p/src/protocol, sync/src/inbound_connection.rs and  *)
(* local_node.rs), the worker of the server answers requests               *)
(* (synchronization_server.rs), the client relays what it has verified     *)
(* (synchronization_executor.rs), and all of them write through the peers  *)
(* (synchronization_peers.rs) and their contexts (peer_context.rs).        *)
(*                                                                         *)
(* Every peer sends the messages of a script, one after the other.  A      *)
(* message is numbered by its place in it, and what is sent because of it  *)
(* carries the number in `n`; what is relayed carries 0.  Verification is  *)
(* what SyncClient and ChainVerifier describe: here a block or transaction *)
(* waits in `verifying` and comes out good or bad.                         *)
(***************************************************************************)
EXTENDS RelayFilter, Responses

CONSTANTS Peers, Worlds,         \* the peers; the cases: scripts, initial chain, what may happen
          Parent,                \* the tree of blocks: the hash of the parent of each
          BlockTxs,              \* the transactions of every block, a sequence of hashes
          Tx,                    \* the transaction behind every hash
          FeeRate,               \* and its fee rate
          MaxInventory,          \* INV_MAX_INVENTORY_LEN, GETDATA_MAX_INVENTORY_LEN, HEADERS_MAX_HEADERS_LEN
          MaxResponse,           \* GETBLOCKS_MAX_RESPONSE_HASHES, GETHEADERS_MAX_RESPONSE_HEADERS
          MaxFilterLen, MaxHashFuncs, MaxDataLen      \* the limits of filterload and filteradd

VARIABLES world,                 \* the case that is played
          pc,                    \* for every peer, the next message of its script
          conn,                  \* and its channel: none, created, open, closing, closed
          peers,                 \* PeersImpl::peers
          ctx,                   \* the PeerContext of every peer
          queue, worker,         \* the queue of the server and its thread
          canon, stored, pool,   \* the storage and the memory pool
          verifying, held,       \* the client: what is verified, verifying_blocks_futures
          relay,                 \* what the client is relaying, and to whom still
          synchronizing,         \* SynchronizationState::is_synchronizing
          switches,              \* how often it has changed
          sent,                  \* the messages handed to the thread pool for every peer
          declared, served,      \* history: requests with a response id; requests served
          seen, wanted,          \* history: items exchanged; items a peer's filter asks for
          missed, turns          \* history: transactions withheld; turns of other peers

netVars == <<pc, conn, ctx, declared>>
serverVars == <<queue, worker, served, turns>>
clientVars == <<canon, stored, pool, verifying, held, relay>>
filterVars == <<seen, wanted, missed>>
vars == <<world, netVars, peers, serverVars, clientVars, synchronizing, switches, sent, filterVars>>

NoHash == 0

-----------------------------------------------------------------------------
(* The tasks of the server, sync/src/synchronization_server.rs.  tasks holds *)
(* a queue of tasks for every peer that has any; peers says whose task is    *)
(* next.  `ok` turns FALSE if an expect() of the code fails.                 *)

EmptyQueue == [stopping |-> FALSE, peers |-> <<>>, tasks |-> <<>>, ok |-> TRUE]

HasNext(q) == q.peers # <<>>

\* next_task: the first task of the first peer; the peer goes to the back of the
\* line if it has more.
NextTask(q) ==
    LET peer == Head(q.peers)
        found == peer \in DOMAIN q.tasks /\ q.tasks[peer] # <<>>
        rest == Tail(q.tasks[peer])
    IN  IF ~found THEN [task |-> <<>>, queue |-> [q EXCEPT !.ok = FALSE]]
        ELSE [task |-> Head(q.tasks[peer]),
              queue |-> IF rest # <<>>
                        THEN [q EXCEPT !.tasks[peer] = rest, !.peers = Append(Tail(@), peer)]
                        ELSE [q EXCEPT !.tasks = [p \in DOMAIN @ \ {peer} |-> @[p]],
                                           !.peers = Tail(@)]]

(* add_task and add_task_front differ in the end the task is pushed to. *)
PushTask(q, task, tasksAfter) ==
    LET peer == task.peer
        queued == peer \in DOMAIN q.tasks /\ q.tasks[peer] # <<>>
    IN  [q EXCEPT !.tasks = (peer :> tasksAfter) @@ @,
                      !.peers = IF queued THEN @ ELSE Append(@, peer)]

TasksOf(q, peer) == IF peer \in DOMAIN q.tasks THEN q.tasks[peer] ELSE <<>>

AddTask(q, task) == PushTask(q, task, Append(TasksOf(q, task.peer), task))

\* Mutant: the rest of a request waits behind the peer's later requests.
AddTaskFrontBack(q, task) == PushTask(q, task, Append(TasksOf(q, task.peer), task))

AddTaskFront(q, task) == PushTask(q, task, <<task>> \o TasksOf(q, task.peer))

-----------------------------------------------------------------------------
(* The peers: PeersImpl. *)

NewPeer == [filter |-> EmptyFilter, blockAnn |-> "SendInventory", txAnn |-> "SendInventory"]

Connected(p) == p \in DOMAIN peers

\* misbehaving and dos: the peer is forgotten and its channel is closed later.
Punish(p) ==
    /\ peers' = Without(peers, p)
    /\ conn' = IF Connected(p) /\ conn[p] = "open" THEN [conn EXCEPT ![p] = "closing"] ELSE conn

HashIsKnownAs(ps, p, hash, type) ==
    IF p \in DOMAIN ps THEN [ps EXCEPT ![p].filter = HashKnownAs(@, hash, type)] ELSE ps

Remember(p, hash) ==
    IF Connected(p) /\ \A i \in DOMAIN seen[p] : seen[p][i] # hash
    THEN [seen EXCEPT ![p] = Append(@, hash)] ELSE seen

\* Whatever is no response is handed to the pool at once.
SendRequest(p, messages) == [sent EXCEPT ![p] = @ \o messages]

\* The executor: nothing is sent to a peer that is not connected.
Send(p, messages) == IF Connected(p) THEN SendRequest(p, messages) ELSE sent

\* filter_block and filter_transaction: how to announce, if at all.
BlockAnnouncement(p, hash) ==
    IF Connected(p) /\ FilterBlock(peers[p].filter, hash) THEN peers[p].blockAnn ELSE "DoNotAnnounce"

TransactionAnnouncement(p, asked) ==
    IF Connected(p) /\ asked.hit THEN peers[p].txAnn ELSE "DoNotAnnounce"

-----------------------------------------------------------------------------
(* Receiving a message.  The session is closed for good only when its channel *)
(* is; until then the messages that arrive are handled.                       *)

Message(p) == world.scripts[p][pc[p]]

Receive(p, type) ==
    /\ conn[p] \in {"open", "closing"}
    /\ pc[p] <= Len(world.scripts[p])
    /\ Message(p).type = type
    /\ pc' = [pc EXCEPT ![p] = @ + 1]
    /\ UNCHANGED <<world, synchronizing, switches>>

\* The client is behind one lock, which it holds while it relays.
ClientFree == relay = <<>>

Notified(w) == IF w.state = "waiting" THEN [w EXCEPT !.state = "woken"] ELSE w

\* Mutant: a task is queued and the worker is not woken.
EnqueueUnnoticed(task) ==
    /\ queue' = AddTask(queue, task)
    /\ turns' = IF task.peer \in DOMAIN queue.tasks THEN turns
                ELSE [turns EXCEPT ![task.peer] = [q \in Peers |-> 0]]
    /\ UNCHANGED <<worker, served>>

\* ServerImpl::execute.
Enqueue(task) ==
    /\ queue' = AddTask(queue, task)
    /\ worker' = Notified(worker)
    /\ turns' = IF task.peer \in DOMAIN queue.tasks THEN turns
                ELSE [turns EXCEPT ![task.peer] = [q \in Peers |-> 0]]
    /\ UNCHANGED served

Request(p) == [peer |-> p, n |-> pc[p], ask |-> Message(p)]

OnGetData(p) ==
    /\ Receive(p, "getdata")
    /\ LET count == Len(Message(p).items)
       IN  IF synchronizing \/ count = 0 THEN UNCHANGED <<peers, conn, serverVars>>
           ELSE IF count > MaxInventory THEN Punish(p) /\ UNCHANGED serverVars
           ELSE Enqueue(Request(p)) /\ UNCHANGED <<peers, conn>>
    /\ UNCHANGED <<ctx, declared, clientVars, sent, filterVars>>

(* getblocks, mempool and getblocktxn go to the server as they are. *)
OnServed(p, type) ==
    /\ Receive(p, type)
    /\ IF synchronizing THEN UNCHANGED serverVars ELSE Enqueue(Request(p))
    /\ UNCHANGED <<conn, ctx, declared, peers, clientVars, sent, filterVars>>

OnGetBlocks(p) == OnServed(p, "getblocks")
OnMempool(p) == OnServed(p, "mempool")
OnGetBlockTxn(p) == OnServed(p, "getblocktxn")

\* after_peer_nearly_blocks_verified
AfterBlocksVerified(p, task) ==
    IF p \in DOMAIN held
    THEN held' = [held EXCEPT ![p].tasks = Append(@, task)] /\ UNCHANGED serverVars
    ELSE Enqueue(task) /\ UNCHANGED held

(* A response id is declared, and the task waits for the blocks of this peer  *)
(* that are being verified.                                                   *)
OnGetHeaders(p) ==
    LET task == Request(p) @@ [id |-> ctx[p].declared]
    IN  /\ Receive(p, "getheaders")
        /\ ClientFree
        /\ IF synchronizing THEN UNCHANGED <<ctx, declared, held, serverVars>>
           ELSE /\ ctx' = [ctx EXCEPT ![p] = DeclareResponse(@)]
                /\ declared' = [declared EXCEPT ![p] = Append(@, pc[p])]
                /\ AfterBlocksVerified(p, task)
        /\ UNCHANGED <<conn, peers, canon, stored, pool, verifying, relay, sent, filterVars>>

(* ping and getaddr are answered at once, in the order of the responses. *)
OnAnswered(p, type, reply) ==
    LET result == SendResponseInline(ctx[p], [type |-> reply, n |-> pc[p]])
    IN  /\ Receive(p, type)
        /\ ctx' = [ctx EXCEPT ![p] = result.ctx]
        /\ declared' = [declared EXCEPT ![p] = Append(@, pc[p])]
        /\ sent' = [sent EXCEPT ![p] = @ \o result.out]
        /\ UNCHANGED <<conn, peers, serverVars, clientVars, filterVars>>

OnPing(p) == OnAnswered(p, "ping", "pong")
OnGetAddr(p) == OnAnswered(p, "getaddr", "addr")

\* A block whose parent is stored or verified goes to verification.
OnBlock(p) ==
    LET hash == Message(p).hash
        known == hash \in stored \/ \E i \in DOMAIN verifying : verifying[i].item = hash
        before == IF p \in DOMAIN held THEN held[p] ELSE [waiting |-> {}, tasks |-> <<>>]
    IN  /\ Receive(p, "block")
        /\ ClientFree
        /\ peers' = HashIsKnownAs(peers, p, hash, "Block")
        /\ seen' = Remember(p, hash)
        /\ IF known THEN UNCHANGED <<verifying, held>>
           ELSE /\ verifying' = Append(verifying, [kind |-> "block", item |-> hash, peer |-> p])
                /\ held' = (p :> [before EXCEPT !.waiting = @ \cup {hash}]) @@ held
        /\ UNCHANGED <<conn, ctx, declared, serverVars, canon, stored, pool, relay, sent, wanted, missed>>

OnTx(p) ==
    LET hash == Message(p).hash
        known == hash \in pool \/ \E i \in DOMAIN verifying : verifying[i].item = hash
    IN  /\ Receive(p, "tx")
        /\ ClientFree
        /\ IF synchronizing THEN UNCHANGED <<peers, seen, verifying>>
           ELSE /\ peers' = HashIsKnownAs(peers, p, hash, "Transaction")
                /\ seen' = Remember(p, hash)
                /\ verifying' = IF known THEN verifying
                                ELSE Append(verifying, [kind |-> "tx", item |-> hash, peer |-> p])
        /\ UNCHANGED <<conn, ctx, declared, serverVars, canon, stored, pool, held, relay, sent, wanted, missed>>

-----------------------------------------------------------------------------
(* The messages that set what is relayed. *)

SetPeer(p, peer) == peers' = IF Connected(p) THEN [peers EXCEPT ![p] = peer] ELSE peers

OnFilterLoad(p) ==
    LET message == Message(p)
    IN  /\ Receive(p, "filterload")
        /\ IF Len(message.filter) > MaxFilterLen \/ message.funcs > MaxHashFuncs
           THEN Punish(p) /\ UNCHANGED wanted
           ELSE /\ SetPeer(p, [peers[p] EXCEPT !.filter.bloom = SetBloom(@, message)])
                /\ wanted' = [wanted EXCEPT ![p] = message.items]
                /\ UNCHANGED conn
        /\ UNCHANGED <<ctx, declared, serverVars, clientVars, sent, seen, missed>>

OnFilterAdd(p) ==
    LET message == Message(p)
    IN  /\ Receive(p, "filteradd")
        /\ IF message.len > MaxDataLen THEN Punish(p) /\ UNCHANGED wanted
           ELSE /\ SetPeer(p, [peers[p] EXCEPT !.filter.bloom = UpdateBloom(@, message.item)])
                /\ wanted' = IF Connected(p) /\ peers[p].filter.bloom.set
                             THEN [wanted EXCEPT ![p] = @ \cup {message.item}] ELSE wanted
                /\ UNCHANGED conn
        /\ UNCHANGED <<ctx, declared, serverVars, clientVars, sent, seen, missed>>

\* filterclear, feefilter, sendheaders and sendcmpct set one field of the peer.
OnSetting(p, type, peer) ==
    /\ Receive(p, type)
    /\ SetPeer(p, peer)
    /\ wanted' = IF type = "filterclear" THEN [wanted EXCEPT ![p] = {}] ELSE wanted
    /\ UNCHANGED <<conn, ctx, declared, serverVars, clientVars, sent, seen, missed>>

OnFilterClear(p) == OnSetting(p, "filterclear", [peers[p] EXCEPT !.filter.bloom = RemoveBloom(@)])
OnFeeFilter(p) == OnSetting(p, "feefilter", [peers[p] EXCEPT !.filter.feeRate = Message(p).rate])
OnSendHeaders(p) == OnSetting(p, "sendheaders", [peers[p] EXCEPT !.blockAnn = "SendHeaders"])
OnSendCompact(p) ==
    OnSetting(p, "sendcmpct",
        [peers[p] EXCEPT !.blockAnn = IF Message(p).second = 1 /\ Message(p).first
                                      THEN "SendCompactBlock" ELSE @])

(* A merkleblock, cmpctblock or blocktxn was never asked for; too long an inv *)
(* or headers message is refused, an empty one ignored.  What the client does *)
(* with the others is the subject of SyncClient.                              *)
Unwelcome(message) ==
    \/ message.type \in {"merkleblock", "cmpctblock", "blocktxn"}
    \/ message.type \in {"inv", "headers"} /\ message.count > MaxInventory

OnUnserved(p) ==
    \E type \in {"merkleblock", "cmpctblock", "blocktxn", "inv", "headers"} :
        /\ Receive(p, type)
        /\ IF Unwelcome(Message(p)) /\ ~(type = "inv" /\ synchronizing) THEN Punish(p)
           ELSE UNCHANGED <<peers, conn>>
        /\ UNCHANGED <<ctx, declared, serverVars, clientVars, sent, filterVars>>

-----------------------------------------------------------------------------
(* Connections.  SyncProtocol::new inserts the peer; initialize starts the    *)
(* session, and may turn the announcement of transactions off.                *)

CreateSession(p) ==
    /\ conn[p] = "none"
    /\ peers' = (p :> NewPeer) @@ peers
    /\ conn' = [conn EXCEPT ![p] = "created"]
    /\ UNCHANGED <<world, pc, ctx, declared, serverVars, clientVars, synchronizing, switches, sent, filterVars>>

OnConnect(p) ==
    /\ conn[p] = "created"
    /\ SetPeer(p, [peers[p] EXCEPT !.txAnn = IF p \in world.light THEN "DoNotAnnounce" ELSE @])
    /\ conn' = [conn EXCEPT ![p] = "open"]
    /\ UNCHANGED <<world, pc, ctx, declared, serverVars, clientVars, synchronizing, switches, sent, filterVars>>

\* close_channel, after a punishment or because the peer has left: close_session.
CloseSession(p) ==
    /\ conn[p] = "closing" \/ (conn[p] = "open" /\ p \in world.leaves)
    /\ conn' = [conn EXCEPT ![p] = "closed"]
    /\ peers' = Without(peers, p)
    /\ UNCHANGED <<world, pc, ctx, declared, serverVars, clientVars, synchronizing, switches, sent, filterVars>>

-----------------------------------------------------------------------------
(* The worker of the server. *)

IdleWorker == [state |-> "idle"]
Running(task) == [state |-> "running", task |-> task]

\* next_task, and what the worker does with it.
Take(empty) ==
    IF HasNext(queue)
    THEN LET next == NextTask(queue)
             peer == Head(queue.peers)
         IN  /\ queue' = next.queue
             /\ worker' = Running(next.task)
             /\ turns' = [q \in Peers |-> IF q = peer THEN [o \in Peers |-> 0]
                                             ELSE [turns[q] EXCEPT ![peer] = @ + 1]]
    ELSE worker' = empty /\ UNCHANGED <<queue, turns>>

WorkerNext ==
    /\ worker.state = "idle"
    /\ IF queue.stopping THEN worker' = [state |-> "stopped"] /\ UNCHANGED <<queue, turns>>
       ELSE Take([state |-> "waiting"])
    /\ UNCHANGED <<world, netVars, peers, served, clientVars, synchronizing, switches, sent, filterVars>>

WorkerWoken ==
    /\ worker.state = "woken"
    /\ Take(IdleWorker)
    /\ UNCHANGED <<world, netVars, peers, served, clientVars, synchronizing, switches, sent, filterVars>>

Doing(type) == worker.state = "running" /\ worker.task.ask.type = type

Done == /\ worker' = IdleWorker
        /\ served' = IF Connected(worker.task.peer)
                     THEN served \cup {<<worker.task.peer, worker.task.n>>} ELSE served

(* serve_get_data only turns the inventory round; serve_reversed_get_data     *)
(* then takes the items from its end.  Both hand the task back.               *)
ServeGetData ==
    /\ Doing("getdata")
    /\ worker' = [state |-> "requeue",
                  task |-> [worker.task EXCEPT !.ask = [type |-> "reversed", notfound |-> <<>>,
                                                        items |-> [i \in DOMAIN @.items |-> @.items[Len(@.items) + 1 - i]]]]]
    /\ UNCHANGED <<world, netVars, peers, queue, served, turns, clientVars, synchronizing, switches, sent, filterVars>>

WorkerRequeue ==
    /\ worker.state = "requeue"
    /\ queue' = AddTaskFront(queue, worker.task)
    /\ turns' = IF worker.task.peer \in DOMAIN queue.tasks THEN turns
                ELSE [turns EXCEPT ![worker.task.peer] = [q \in Peers |-> 0]]
    /\ worker' = IdleWorker
    /\ UNCHANGED <<world, netVars, peers, served, clientVars, synchronizing, switches, sent, filterVars>>

Block(hash) == [txs |-> [i \in DOMAIN BlockTxs[hash] |-> Tx[BlockTxs[hash][i]]]]

(* The answer to one item, a record: whether it is found, the messages, the   *)
(* peers after it and the type the hash is known as.                          *)
Answer(p, n, item) ==
    LET hash == item.hash
        data(type) == [type |-> type, n |-> n, hash |-> hash, of |-> NoHash]
        plain(type, as) == [found |-> TRUE, out |-> <<data(type)>>, known |-> <<hash>>,
                            peers |-> HashIsKnownAs(peers, p, hash, as)]
        missing == [found |-> FALSE, out |-> <<>>, known |-> <<>>, peers |-> peers]
        nothing == [missing EXCEPT !.found = TRUE]
    IN  CASE item.kind = "Tx" /\ hash \in pool -> plain("tx", "Transaction")
          [] item.kind = "WitnessTx" /\ hash \in pool -> plain("witnesstx", "Transaction")
          [] item.kind = "Block" /\ hash \in stored -> plain("block", "Block")
          [] item.kind = "WitnessBlock" /\ hash \in stored -> plain("witnessblock", "Block")
          [] item.kind = "FilteredBlock" /\ hash \in stored /\ Connected(p) /\ peers[p].filter.bloom.set ->
                LET built == BuildMerkleBlock(peers[p].filter, Block(hash))
                    txs == [i \in DOMAIN built.matching |-> BlockTxs[hash][built.matching[i] + 1]]
                    step[i \in 0 .. Len(txs)] ==
                        IF i = 0 THEN HashIsKnownAs([peers EXCEPT ![p].filter = built.filter], p, hash, "Block")
                        ELSE HashIsKnownAs(step[i - 1], p, txs[i], "Transaction")
                IN  [found |-> TRUE, peers |-> step[Len(txs)], known |-> <<hash>> \o txs,
                     out |-> <<data("merkleblock") @@ [total |-> built.total, hashes |-> built.hashes,
                                                       flags |-> built.flags, txs |-> txs]>>
                             \o [i \in DOMAIN txs |-> [type |-> "tx", n |-> n, hash |-> txs[i], of |-> hash]]]
          [] item.kind = "CompactBlock" /\ hash \in stored ->
                IF Connected(p)
                THEN LET built == BuildCompactBlock(peers[p].filter, Block(hash))
                     IN  [plain("cmpctblock", "CompactBlock") EXCEPT !.out = <<data("cmpctblock") @@ built>>]
                ELSE nothing
          [] item.kind \in {"Error", "WitnessFilteredBlock"} -> nothing
          [] OTHER -> missing

RememberAll(p, hashes) ==
    LET new == SelectSeq(hashes, LAMBDA h : \A i \in DOMAIN seen[p] : seen[p][i] # h)
    IN  IF Connected(p) THEN [seen EXCEPT ![p] = @ \o new] ELSE seen

ServeReversedGetData ==
    LET task == worker.task
        items == task.ask.items
        item == items[Len(items)]
        answer == Answer(task.peer, task.n, item)
    IN  /\ Doing("reversed")
        /\ IF items = <<>>
           THEN /\ sent' = IF task.ask.notfound = <<>> THEN sent
                           ELSE Send(task.peer, <<[type |-> "notfound", n |-> task.n, items |-> task.ask.notfound]>>)
                /\ Done
                /\ UNCHANGED <<peers, seen>>
           ELSE /\ sent' = Send(task.peer, answer.out)
                /\ peers' = answer.peers
                /\ seen' = RememberAll(task.peer, answer.known)
                /\ worker' = [state |-> "requeue",
                              task |-> [task EXCEPT !.ask.items = SubSeq(items, 1, Len(items) - 1),
                                                    !.ask.notfound = IF answer.found THEN @ ELSE Append(@, item)]]
                /\ UNCHANGED served
        /\ UNCHANGED <<world, netVars, queue, turns, clientVars, synchronizing, switches, wanted, missed>>

(* locate_best_common_block: the height of the first block of the locator     *)
(* that is in the main chain, or of the fork point of the first one that is   *)
(* stored beside it; -1 if there is none.                                     *)
HeightOf(hash) == IF \E i \in DOMAIN canon : canon[i] = hash
                  THEN (CHOOSE i \in DOMAIN canon : canon[i] = hash) - 1 ELSE -1

ForkHeight(hash) ==
    LET walk[k \in 0 .. Cardinality(stored)] ==
            IF k = 0 THEN hash
            ELSE IF walk[k - 1] \in stored /\ HeightOf(walk[k - 1]) = -1 THEN Parent[walk[k - 1]]
            ELSE walk[k - 1]
    IN  HeightOf(walk[Cardinality(stored)])

LocateBestCommonBlock(hashes) ==
    LET known == {i \in DOMAIN hashes : ForkHeight(hashes[i]) # -1}
    IN  IF known = {} THEN -1
        ELSE ForkHeight(hashes[CHOOSE i \in known : \A j \in known : i <= j])

(* The hashes are read one height at a time, while the chain may change. *)
ServeListing ==
    LET ask == worker.task.ask
        height == LocateBestCommonBlock(Append(ask.locator, ask.stop))
    IN  /\ Doing("getblocks") \/ Doing("getheaders")
        /\ IF height = -1
           THEN Punish(worker.task.peer) /\ worker' = IdleWorker
           ELSE /\ worker' = [state |-> "listing", task |-> worker.task, from |-> height,
                              got |-> <<>>, torn |-> FALSE]
                /\ UNCHANGED <<peers, conn>>
        /\ UNCHANGED <<world, pc, ctx, declared, queue, served, turns, clientVars, synchronizing, switches,
                       sent, filterVars>>

ListingEnds ==
    LET index == worker.from + 2 + Len(worker.got)
    IN  IF Len(worker.got) = MaxResponse \/ index > Len(canon) THEN TRUE
        ELSE canon[index] = worker.task.ask.stop

ListNext ==
    /\ worker.state = "listing"
    /\ ~ListingEnds
    /\ worker' = [worker EXCEPT !.got = Append(@, canon[worker.from + 2 + Len(@)])]
    /\ UNCHANGED <<world, netVars, peers, queue, served, turns, clientVars, synchronizing, switches, sent, filterVars>>

ListDone ==
    LET task == worker.task
        p == task.peer
        reply == [type |-> IF task.ask.type = "getheaders" THEN "headers" ELSE "inv", n |-> task.n,
                  blocks |-> worker.got, torn |-> worker.torn, ask |-> task.ask]
        response == SendResponse(ctx[p], reply, task.id, TRUE)
    IN  /\ worker.state = "listing"
        /\ ListingEnds
        /\ Done
        /\ IF task.ask.type = "getheaders" /\ Connected(p)
           THEN /\ ctx' = [ctx EXCEPT ![p] = response.ctx]
                /\ sent' = Send(p, response.out)
           ELSE /\ sent' = IF task.ask.type = "getheaders" \/ worker.got = <<>> THEN sent ELSE Send(p, <<reply>>)
                /\ UNCHANGED ctx
        /\ UNCHANGED <<world, pc, conn, declared, peers, queue, turns, clientVars, synchronizing, switches, filterVars>>

ServeMempool ==
    LET task == worker.task
    IN  /\ Doing("mempool")
        /\ sent' = IF pool = {} THEN sent
                   ELSE Send(task.peer, <<[type |-> "txinv", n |-> task.n, txs |-> pool, fresh |-> TRUE]>>)
        /\ Done
        /\ UNCHANGED <<world, netVars, peers, queue, turns, clientVars, synchronizing, switches, filterVars>>

ServeGetBlockTxn ==
    LET task == worker.task
        p == task.peer
        ask == task.ask
        txs == IF ask.hash \in stored THEN BlockTxs[ask.hash] ELSE <<>>
        distinct == \A i, j \in DOMAIN ask.indexes : ask.indexes[i] = ask.indexes[j] => i = j
        inRange == \A i \in DOMAIN ask.indexes : ask.indexes[i] < Len(txs)
        allowed == Connected(p) /\ ContainsKnown(peers[p].filter.known, ask.hash, "CompactBlock")
    IN  /\ Doing("getblocktxn")
        /\ IF allowed /\ distinct /\ inRange
           THEN /\ sent' = Send(p, <<[type |-> "blocktxn", n |-> task.n, hash |-> ask.hash, of |-> NoHash,
                                      txs |-> [i \in DOMAIN ask.indexes |-> txs[ask.indexes[i] + 1]]]>>)
                /\ Done
                /\ UNCHANGED <<peers, conn>>
           ELSE Punish(p) /\ worker' = IdleWorker /\ UNCHANGED <<sent, served>>
        /\ UNCHANGED <<world, pc, ctx, declared, queue, turns, clientVars, synchronizing, switches, filterVars>>

\* Drop: the worker is told to stop and, if it waits, woken.
Stop ==
    /\ world.stops /\ ~queue.stopping
    /\ queue' = [queue EXCEPT !.stopping = TRUE]
    /\ worker' = Notified(worker)
    /\ UNCHANGED <<world, netVars, peers, served, turns, clientVars, synchronizing, switches, sent, filterVars>>

-----------------------------------------------------------------------------
(* The client: verification ends, waiting getheaders are released, and what   *)
(* is new is relayed.                                                         *)

PathTo(hash) ==
    LET path[k \in 0 .. Cardinality(DOMAIN Parent)] ==
            IF k = 0 THEN <<hash>>
            ELSE IF Parent[Head(path[k - 1])] = NoHash THEN path[k - 1]
            ELSE <<Parent[Head(path[k - 1])]>> \o path[k - 1]
    IN  path[Cardinality(DOMAIN Parent)]

Canonized(hash) == IF Len(PathTo(hash)) > Len(canon)
                   THEN SelectSeq(PathTo(hash), LAMBDA h : HeightOf(h) = -1) ELSE <<>>

(* awake_waiting_threads *)
AwakeWaiting(p, hash) ==
    LET entry == held[p]
    IN  IF p \notin DOMAIN held THEN [held |-> held, tasks |-> <<>>]
        ELSE IF entry.waiting \subseteq {hash}
        THEN [held |-> Without(held, p), tasks |-> entry.tasks]
        ELSE [held |-> [held EXCEPT ![p].waiting = @ \ {hash}], tasks |-> <<>>]

EnqueueAll(tasks) ==
    LET add[i \in 0 .. Len(tasks)] == IF i = 0 THEN queue ELSE AddTask(add[i - 1], tasks[i])
    IN  /\ queue' = add[Len(tasks)]
        /\ worker' = LET w == IF tasks = <<>> THEN worker ELSE Notified(worker)
                     IN  IF w.state = "listing" /\ canon' # canon THEN [w EXCEPT !.torn = TRUE] ELSE w
        /\ turns' = [q \in Peers |-> IF \E i \in DOMAIN tasks : tasks[i].peer = q /\ q \notin DOMAIN queue.tasks
                                        THEN [o \in Peers |-> 0] ELSE turns[q]]

BlockVerified ==
    LET entry == Head(verifying)
        hash == entry.item
        new == Canonized(hash)
        good == hash \notin world.bad
        awake == AwakeWaiting(entry.peer, hash)
    IN  /\ ClientFree /\ verifying # <<>> /\ entry.kind = "block"
        /\ verifying' = Tail(verifying)
        /\ held' = awake.held
        /\ IF good
           THEN /\ stored' = stored \cup {hash}
                /\ canon' = IF new = <<>> THEN canon ELSE PathTo(hash)
                /\ pool' = pool \ UNION {{BlockTxs[h][i] : i \in DOMAIN BlockTxs[h]} : h \in {new[i] : i \in DOMAIN new}}
                /\ relay' = IF synchronizing THEN <<>>
                            ELSE [i \in DOMAIN new |-> [kind |-> "block", item |-> new[i], left |-> {}, begun |-> FALSE]]
                /\ UNCHANGED <<peers, conn>>
           ELSE Punish(entry.peer) /\ UNCHANGED <<stored, canon, pool, relay>>
        /\ EnqueueAll(awake.tasks)
        /\ UNCHANGED <<world, pc, ctx, declared, served, synchronizing, switches, sent, filterVars>>

TxVerified ==
    LET hash == Head(verifying).item
    IN  /\ ClientFree /\ verifying # <<>> /\ Head(verifying).kind = "tx"
        /\ verifying' = Tail(verifying)
        /\ IF hash \in world.bad THEN UNCHANGED <<pool, relay>>
           ELSE /\ pool' = pool \cup {hash}
                /\ relay' = <<[kind |-> "tx", item |-> hash, left |-> {}, begun |-> FALSE]>>
        /\ UNCHANGED <<world, netVars, peers, serverVars, canon, stored, held, synchronizing, switches, sent, filterVars>>

\* execute_relay_block and execute_relay_transaction: the peers are listed first.
RelayBegin ==
    /\ relay # <<>> /\ ~Head(relay).begun
    /\ relay' = [relay EXCEPT ![1].left = DOMAIN peers, ![1].begun = TRUE]
    /\ UNCHANGED <<world, netVars, peers, serverVars, canon, stored, pool, verifying, held, synchronizing, switches,
                   sent, filterVars>>

RelayEnd ==
    /\ relay # <<>> /\ Head(relay).begun /\ Head(relay).left = {}
    /\ relay' = Tail(relay)
    /\ UNCHANGED <<world, netVars, peers, serverVars, canon, stored, pool, verifying, held, synchronizing, switches,
                   sent, filterVars>>

\* The last items exchanged with a peer, as many as it is remembered to know.
Recent(p) == LET s == seen[p]
             IN  {s[i] : i \in {j \in DOMAIN s : j > Len(s) - MaxKnownHashes}}

RelayBlock(p) ==
    LET hash == Head(relay).item
        peer == peers[p]
        how == BlockAnnouncement(p, hash)
        fresh == hash \notin Recent(p)
    IN  /\ relay # <<>> /\ Head(relay).begun /\ Head(relay).kind = "block" /\ p \in Head(relay).left
        /\ relay' = [relay EXCEPT ![1].left = @ \ {p}]
        /\ \/ how = "DoNotAnnounce" /\ UNCHANGED <<sent, peers, seen>>
           \/ /\ how = "SendInventory"
              /\ sent' = Send(p, <<[type |-> "blockinv", n |-> 0, hash |-> hash, fresh |-> fresh]>>)
              /\ UNCHANGED <<peers, seen>>
           \/ /\ how = "SendHeaders"
              /\ sent' = Send(p, <<[type |-> "newheader", n |-> 0, hash |-> hash, fresh |-> fresh]>>)
              /\ UNCHANGED <<peers, seen>>
           \/ /\ how = "SendCompactBlock"
              /\ sent' = Send(p, <<[type |-> "cmpctblock", n |-> 0, hash |-> hash, of |-> NoHash, fresh |-> fresh]
                                   @@ BuildCompactBlock(peer.filter, Block(hash))>>)
              /\ peers' = HashIsKnownAs(peers, p, hash, "CompactBlock")
              /\ seen' = Remember(p, hash)
        /\ UNCHANGED <<world, netVars, serverVars, canon, stored, pool, verifying, held, synchronizing, switches,
                       wanted, missed>>

\* What of a transaction a bloom filter is asked about.
Elements(tx) == {tx.hash} \cup UNION {tx.outs[i].data : i \in DOMAIN tx.outs}
                \cup {tx.ins[i].prev : i \in DOMAIN tx.ins} \cup UNION {tx.ins[i].data : i \in DOMAIN tx.ins}

RelayTx(p) ==
    LET hash == Head(relay).item
        peer == peers[p]
        asked == FilterTransaction(peer.filter, Tx[hash], FeeRate[hash])
        announce == TransactionAnnouncement(p, asked) = "SendInventory"
        due == /\ Connected(p) /\ peer.txAnn = "SendInventory" /\ FeeRate[hash] >= peer.filter.feeRate
               /\ hash \notin {seen[p][i] : i \in DOMAIN seen[p]}
               /\ ~peer.filter.bloom.set \/ Elements(Tx[hash]) \cap wanted[p] # {}
    IN  /\ relay # <<>> /\ Head(relay).begun /\ Head(relay).kind = "tx" /\ p \in Head(relay).left
        /\ relay' = [relay EXCEPT ![1].left = @ \ {p}]
        /\ peers' = IF Connected(p) THEN [peers EXCEPT ![p].filter = asked.filter] ELSE peers
        /\ sent' = IF announce
                   THEN Send(p, <<[type |-> "txinv", n |-> 0, txs |-> {hash}, fresh |-> hash \notin Recent(p)]>>)
                   ELSE sent
        /\ missed' = IF due /\ ~announce THEN missed \cup {<<p, hash>>} ELSE missed
        /\ UNCHANGED <<world, netVars, serverVars, canon, stored, pool, verifying, held, synchronizing, switches,
                       seen, wanted>>

\* The client starts or ends a synchronization.
SwitchState ==
    /\ ClientFree
    /\ switches < world.switches
    /\ switches' = switches + 1
    /\ synchronizing' = ~synchronizing
    /\ UNCHANGED <<world, netVars, peers, serverVars, clientVars, sent, filterVars>>

-----------------------------------------------------------------------------

Init ==
    /\ world \in Worlds
    /\ pc = [p \in Peers |-> 1]
    /\ conn = [p \in Peers |-> IF p \in world.late THEN "none" ELSE "open"]
    /\ peers = [p \in Peers \ world.late |-> NewPeer]
    /\ ctx = [p \in Peers |-> NewContext]
    /\ queue = EmptyQueue /\ worker = IdleWorker
    /\ canon = PathTo(world.best) /\ stored = world.stored /\ pool = world.pool
    /\ verifying = <<>> /\ held = <<>> /\ relay = <<>>
    /\ synchronizing = FALSE /\ switches = 0
    /\ sent = [p \in Peers |-> <<>>] /\ declared = [p \in Peers |-> <<>>] /\ served = {}
    /\ seen = [p \in Peers |-> <<>>] /\ wanted = [p \in Peers |-> {}]
    /\ missed = {} /\ turns = [p \in Peers |-> [q \in Peers |-> 0]]

PeerStep(p) ==
    \/ OnGetData(p) \/ OnGetBlocks(p) \/ OnMempool(p) \/ OnGetBlockTxn(p) \/ OnGetHeaders(p)
    \/ OnPing(p) \/ OnGetAddr(p) \/ OnBlock(p) \/ OnTx(p)
    \/ OnFilterLoad(p) \/ OnFilterAdd(p) \/ OnFilterClear(p) \/ OnFeeFilter(p)
    \/ OnSendHeaders(p) \/ OnSendCompact(p) \/ OnUnserved(p)

WorkerStep ==
    \/ WorkerNext \/ WorkerWoken \/ WorkerRequeue \/ ServeGetData \/ ServeReversedGetData
    \/ ServeListing \/ ListNext \/ ListDone \/ ServeMempool \/ ServeGetBlockTxn

ClientStep ==
    \/ BlockVerified \/ TxVerified \/ RelayBegin \/ RelayEnd
    \/ \E p \in Peers : RelayBlock(p) \/ RelayTx(p)

Next ==
    \/ \E p \in Peers : PeerStep(p) \/ CreateSession(p) \/ OnConnect(p) \/ CloseSession(p)
    \/ WorkerStep \/ ClientStep \/ SwitchState \/ Stop

Spec == Init /\ [][Next]_vars

(* The threads of the network layer read what arrives, the worker and the     *)
(* client run; whether a peer leaves or the node stops is left open.  Weak    *)
(* fairness is spelled out: each of the four keeps being unable to move, or   *)
(* keeps moving.                                                              *)
WorkerCan == worker.state \notin {"waiting", "stopped"}
WorkerMoves == /\ worker.state # "waiting"
               /\ worker'.state # worker.state \/ (worker.state = "listing" /\ worker'.got # worker.got)
ClientCan == relay # <<>> \/ verifying # <<>>
ClientMoves == relay' # relay \/ Len(verifying') < Len(verifying)
PeerCan(p) == /\ conn[p] \in {"open", "closing"} /\ pc[p] <= Len(world.scripts[p])
              /\ Message(p).type \in {"getheaders", "block", "tx"} => ClientFree
PeerMoves(p) == pc'[p] # pc[p]
CloseMoves(p) == conn'[p] = "closed"

Fairness ==
    /\ []<>~WorkerCan \/ []<><<WorkerMoves>>_vars
    /\ []<>~ClientCan \/ []<><<ClientMoves>>_vars
    /\ \A p \in Peers : /\ []<>~PeerCan(p) \/ []<><<PeerMoves(p)>>_vars
                        /\ []<>(conn[p] # "closing") \/ []<><<CloseMoves(p)>>_vars

FairSpec == Spec /\ Fairness

-----------------------------------------------------------------------------
(* Properties. *)

WorkerStates == {"idle", "waiting", "woken", "running", "requeue", "listing", "stopped"}
KnownTypes == {"Transaction", "Block", "CompactBlock"}

\* Every variable has its type, and a peer is remembered to know no more
\* hashes than MAX_KNOWN_HASHES_LEN.
TypeOK ==
    /\ \A p \in Peers : pc[p] \in 1 .. Len(world.scripts[p]) + 1
    /\ conn \in [Peers -> {"none", "created", "open", "closing", "closed"}]
    /\ DOMAIN peers \subseteq {p \in Peers : conn[p] \in {"created", "open"}}
    /\ \A p \in DOMAIN peers :
          /\ Len(peers[p].filter.known) <= MaxKnownHashes
          /\ \A i \in DOMAIN peers[p].filter.known : peers[p].filter.known[i].type \in KnownTypes
    /\ \A p \in Peers : ctx[p].declared \in Ids /\ ctx[p].next \in Ids
    /\ worker.state \in WorkerStates
    /\ synchronizing \in BOOLEAN

Numbers(p, types) == LET chosen == SelectSeq(sent[p], LAMBDA m : m.n > 0 /\ m.type \in types)
                     IN  [i \in DOMAIN chosen |-> chosen[i].n]

IsPrefixOf(s, t) == Len(s) <= Len(t) /\ \A i \in DOMAIN s : s[i] = t[i]

\* The responses to getheaders, ping and getaddr leave in the order in which
\* the requests came, none twice and none passed over, although the server
\* prepares the headers in a thread of its own and may have to wait for a
\* block of the same peer (PeerContext::send_response and send_awaiting).
ResponsesInOrder ==
    \A p \in Peers : IsPrefixOf(Numbers(p, {"headers", "pong", "addr"}), declared[p])

\* Neither the expect() of ServerQueue::next_task nor the assertions of
\* ResponseQueue and send_awaiting fail.  A peer stands in the line of the
\* server exactly once if it has tasks, and not at all if it has none.
QueuesSound ==
    /\ queue.ok /\ \A p \in Peers : ctx[p].ok
    /\ \A p \in Peers :
          Cardinality({i \in DOMAIN queue.peers : queue.peers[i] = p})
            = (IF p \in DOMAIN queue.tasks THEN 1 ELSE 0)
    /\ \A p \in DOMAIN queue.tasks : queue.tasks[p] # <<>>

\* No peer waits while another one is served twice: a request of many items
\* is served one item at a time and goes to the back of the line.
PeersTakeTurns ==
    \A p \in DOMAIN queue.tasks : \A q \in Peers \ {p} : turns[p][q] <= 1

\* The answers to getdata, getblocks, mempool and getblocktxn leave in the
\* order of the requests of the peer, although a getdata goes back to the
\* queue after each item (add_task_front).
RequestsServedInOrder ==
    \A p \in Peers :
       LET ns == Numbers(p, {"tx", "witnesstx", "block", "witnessblock", "merkleblock", "cmpctblock",
                             "notfound", "inv", "txinv", "blocktxn"})
       IN  \A i \in 1 .. Len(ns) - 1 : ns[i] <= ns[i + 1]

Hashes(items) == [i \in DOMAIN items |-> items[i].hash]
Chosen(s, S) == LET indexes == SelectSeq([i \in DOMAIN s |-> i], LAMBDA i : i \in S)
                IN  [k \in DOMAIN indexes |-> s[indexes[k]]]

\* A getdata that is served is answered in full: every item it asks for is
\* sent or listed in the notfound message, never both, and both keep the
\* order of the request (serve_get_data turns the inventory round because
\* the items are taken from its end).
GetDataComplete ==
    \A p \in Peers, n \in 1 .. 4 :
       <<p, n>> \in served /\ world.scripts[p][n].type = "getdata" =>
          LET mine == SelectSeq(sent[p], LAMBDA m : m.n = n)
              data == Hashes(SelectSeq(mine, LAMBDA m : m.type # "notfound" /\ m.of = NoHash))
              notfound == SelectSeq(mine, LAMBDA m : m.type = "notfound")
              absent == IF notfound = <<>> THEN <<>> ELSE Hashes(notfound[1].items)
              asked == Hashes(SelectSeq(world.scripts[p][n].items, LAMBDA i : i.kind # "Error"))
          IN  /\ Len(notfound) <= 1
              /\ \E S \in SUBSET DOMAIN asked :
                    Chosen(asked, S) = data /\ Chosen(asked, DOMAIN asked \ S) = absent

Listings(p) == SelectSeq(sent[p], LAMBDA m : m.type = "headers" \/ m.type = "inv")

\* The blocks of an answer to getheaders or getblocks follow one another, and
\* the first of them follows a block that the locator names, or the fork
\* point of one, unless the chain was reorganized while they were read; they
\* never reach the block at which the peer asked to stop.
ListingsLinked ==
    \A p \in Peers : \A i \in DOMAIN Listings(p) :
       LET m == Listings(p)[i]
           named == {m.ask.locator[j] : j \in DOMAIN m.ask.locator} \cup {m.ask.stop}
       IN  /\ \A j \in DOMAIN m.blocks : m.blocks[j] # m.ask.stop
           /\ ~m.torn =>
                 /\ \A j \in 2 .. Len(m.blocks) : Parent[m.blocks[j]] = m.blocks[j - 1]
                 /\ m.blocks # <<>> =>
                       \E h \in named \cap DOMAIN Parent :
                          LET path == PathTo(h)
                          IN  \E j \in DOMAIN path : path[j] = Parent[m.blocks[1]]

\* A peer is never told of a block or transaction that is among the last ones
\* it has sent or been sent, as many as its filter remembers.
NoEcho ==
    \A p \in Peers : \A i \in DOMAIN sent[p] :
       sent[p][i].n = 0 => sent[p][i].fresh

\* A peer learns of every accepted transaction that pays the rate it asks for
\* and touches an element its filter was given, whatever was loaded and added
\* and in whatever order: the bloom filter has no false negatives.
NothingWithheld == missed = {}

FlagBits(bytes) == [i \in 1 .. 8 * Len(bytes) |-> (i - 1) % 8 \in bytes[(i - 1) \div 8 + 1]]

\* A merkleblock proves what it claims: read as BIP37 reads it, with at most
\* seven flags left over, it yields the merkle root of the block and exactly
\* the transactions that are sent after it.
MerkleBlocksProve ==
    \A p \in Peers : \A i \in DOMAIN sent[p] :
       sent[p][i].type = "merkleblock" =>
          LET m == sent[p][i]
              flags == FlagBits(m.flags)
              txs == BlockTxs[m.hash]
              Read(len) == ParseTree([count |-> m.total, hashes |-> m.hashes, flags |-> SubSeq(flags, 1, len)])
          IN  \E len \in Len(flags) - 7 .. Len(flags) :
                 /\ \A j \in len + 1 .. Len(flags) : ~flags[j]
                 /\ Read(len).ok
                 /\ Read(len).hash = MerkleRoot([j \in DOMAIN txs |-> Leaf(txs[j])])
                 /\ m.txs = Chosen(txs, {k + 1 : k \in Read(len).found})

\* A compact block names every transaction of the block once: putting the
\* prefilled ones at their places and the short ids into the gaps gives the
\* block back.
CompactBlocksRestore ==
    \A p \in Peers : \A i \in DOMAIN sent[p] :
       sent[p][i].type = "cmpctblock" =>
          LET m == sent[p][i]
              txs == BlockTxs[m.hash]
              given == {m.prefilled[j].index + 1 : j \in DOMAIN m.prefilled}
          IN  /\ \A j \in DOMAIN m.prefilled : m.prefilled[j].tx = txs[m.prefilled[j].index + 1]
              /\ m.shortIds = Chosen(txs, DOMAIN txs \ given)

\* A getheaders of a peer is not answered while a block that peer has sent
\* before it is still being verified (after_peer_nearly_blocks_verified).
HeadersAfterBlocks ==
    \A p \in Peers : \A n \in {sent[p][i].n : i \in {j \in DOMAIN sent[p] : sent[p][j].type = "headers"}} :
       \A i \in DOMAIN verifying :
          verifying[i].kind = "block" /\ verifying[i].peer = p =>
             \E k \in DOMAIN world.scripts[p] :
                k > n /\ world.scripts[p][k].type = "block" /\ world.scripts[p][k].hash = verifying[i].item

\* Whatever the threads do, answers keep their order: declared responses that of
\* their ids (on any three ids also across the wrap), the requests of a peer that
\* of their arrival, headers wait for the peer's blocks, the peers take turns,
\* and no assertion of the queues fails.
AnswersInOrder ==
    /\ TypeOK /\ QueuesSound
    /\ ResponsesInOrder /\ RequestsServedInOrder /\ HeadersAfterBlocks /\ PeersTakeTurns
    /\ (\A p \in Peers : pc[p] = 1 /\ conn[p] = "none") => ResponsesSorted /\ ThresholdIsWindow

\* An answer says all it should: of a getdata every item, of a getblocks or
\* getheaders the blocks after the fork point, of a merkleblock or compact block
\* what its reader needs to rebuild or check the block.
AnswersComplete ==
    GetDataComplete /\ ListingsLinked /\ MerkleBlocksProve /\ CompactBlocksRestore

\* A peer is told of everything its filters let through and of nothing it knows.
RelayIsExact == NoEcho /\ NothingWithheld

\* In the end every response that was declared has been sent and every
\* request taken has been served, unless the peer is gone or the node stops;
\* and a server that is dropped comes to an end: its worker thread sees the flag.
ServerProgresses ==
    /\ <>[](\/ worker.state = "stopped"
            \/ /\ worker.state = "waiting" /\ ~HasNext(queue) /\ held = <<>>
               /\ \A p \in Peers : conn[p] = "open" =>
                     Len(Numbers(p, {"headers", "pong", "addr"})) = Len(declared[p]))
    /\ queue.stopping ~> worker.state = "stopped"
=============================================================================
