------------------------------- MODULE Network -------------------------------
(***************************************************************************)
(* The connections of a node (crate p2p): dialling and accepting, the      *)
(* handshake and its deadline, the open channels with their ping, addr and *)
(* seednode protocols, the ways a channel is closed, the counters of       *)
(* connections, the tick that dials more peers and saves the node table,   *)
(* and restarts.                                                           *)
(*                                                                         *)
(* A connection is one record of "conns" from the dial to its end.  Reads, *)
(* closes and dials are futures on a pool of threads: each of their steps  *)
(* is an action, and a spawned close is a task.  Time passes in units; a   *)
(* unit ends only when what is due has been done, so the pool is assumed   *)
(* never to be a whole unit late.                                          *)
(***************************************************************************)
EXTENDS NodeTable

CONSTANTS
  Worlds,             \* configurations: limits, addresses, inputs and bounds
  TickInterval,       \* 10 s: the interval of autoconnect
  HandshakeDeadline,  \* 5 s: the deadline of connect and accept_connection
  PingInterval,       \* 60 s: PING_INTERVAL_S
  MaxPingResponse,    \* 60 s: MAX_PING_RESPONSE_TIME_S
  SeednodeDelay,      \* 60 s: the delay of SeednodeProtocol
  ProtocolVersion, ProtocolMinimum

ASSUME IntervalsAssumption ==
  /\ {TickInterval, HandshakeDeadline, PingInterval, MaxPingResponse, SeednodeDelay} \subseteq Nat
  /\ HandshakeDeadline < TickInterval
  /\ MaxPingResponse <= PingInterval

ASSUME VersionsAssumption ==
  ProtocolVersion \in Int /\ ProtocolMinimum \in Int /\ ProtocolMinimum <= ProtocolVersion

\* What a configuration is: limits, addresses, a file of earlier nodes with one
\* row for each, the addr and version messages of peers, services.
AddrEntry == [addr : Address, time : Int, services : ServiceSets]
AddrLists == Seq(AddrEntry)

\* The commands that matter here, and what may be wrong with a message.
Commands == {"none", "version", "verack", "getaddr", "addr", "pong", "other"}
Faults   == {"none", "magic", "checksum", "payload"}

WorldOK(w) ==
  /\ w.inbound \in Nat /\ w.outbound \in Nat
  /\ w.peers \in Seq(Address) /\ w.addresses \subseteq Address
  /\ w.file \in Seq(FileRow)
  /\ \A i \in DOMAIN w.file : w.file[i].time <= 0
  /\ \A i, j \in DOMAIN w.file : w.file[i].addr = w.file[j].addr => i = j
  /\ w.book \subseteq AddrLists /\ w.faults \subseteq Faults
  /\ \A v \in w.versions : v.version \in Int /\ v.services \in ServiceSets
  /\ w.services \in ServiceSets /\ w.preferable \in ServiceSets

ASSUME WorldsAssumption == \A w \in Worlds : WorldOK(w)

VARIABLES
  world,        \* the configuration of this behaviour
  now,          \* the clock
  up,           \* "down", "up", or "refused" when the table cannot be loaded
  table, file,  \* the node table, and the file it is saved in
  conns,        \* the connections since the start, in the order of their dials
  channels,     \* Connections.channels: the connections stored by peer id
  peerCounter,  \* Connections.peer_counter
  inbound, outbound,   \* ConnectionCounter
  lookups,      \* seednodes whose lookup has not finished
  nextTick, ticking, dialing,  \* autoconnect: when, whether at work, still to dial
  closes,       \* spawned and delayed calls of close_channel
  inputs        \* what has been asked of the node so far

vars == <<world, now, up, table, file, conns, channels, peerCounter, inbound, outbound, lookups, nextTick,
          ticking, dialing, closes, inputs>>

clock   == <<world, now>>
tick    == <<nextTick, ticking, dialing>>
storage == <<table, file>>
counter == <<inbound, outbound>>

-----------------------------------------------------------------------------
Handshaking == {"tcp", "sendVersion", "receiveVersion", "sendVerack", "receiveVerack"}
Phases      == Handshaking \cup {"failed", "open", "removed", "closed"}

\* A message, a ping not yet answered, and a connection.
MessageRecord == [command : Commands, fault : Faults, nonce : Nat, entries : AddrLists]

PingRecord == [nonce : Nat, at : Nat]

Connection ==
  [addr : Address, dir : {"in", "out"}, kind : {"normal", "seed"}, auto : BOOLEAN, phase : Phases,
   since : Nat, sent : Seq(Commands), version : Int, services : ServiceSets, id : Int,
   ping : [waits : {"timeout", "pong"}, at : Nat], nonce : Nat, pings : Nat, owed : SUBSET PingRecord,
   heard : Nat, got : Nat, reader : {"none", "reading", "handling", "stopped"}, msg : MessageRecord,
   disconnecting : BOOLEAN, addrAt : Int, failed : BOOLEAN, ended : Nat, honest : BOOLEAN]

\* A connection at its beginning, dialled or accepted.
NewConnection(addr, dir, kind, auto, phase) ==
  [addr |-> addr, dir |-> dir, kind |-> kind, auto |-> auto, phase |-> phase,
   since |-> now, sent |-> <<>>, version |-> 0, services |-> {}, id |-> -1,
   ping |-> [waits |-> "timeout", at |-> now], nonce |-> 0, pings |-> 0, owed |-> {},
   heard |-> now, got |-> 0, reader |-> "none", msg |-> [command |-> "none", fault |-> "none", nonce |-> 0, entries |-> <<>>],
   disconnecting |-> FALSE, addrAt |-> -1, failed |-> FALSE, ended |-> 0, honest |-> TRUE]

Dialled(addr, kind, auto) == NewConnection(addr, "out", kind, auto, "tcp")
Accepted(addr)            == NewConnection(addr, "in", "normal", FALSE, "receiveVersion")

InboundConnectionsNeeded == world.inbound - (IF inbound < world.inbound THEN inbound ELSE world.inbound)

OutboundConnectionsNeeded == world.outbound - (IF outbound < world.outbound THEN outbound ELSE world.outbound)

NoteClose(c) ==
  IF conns[c].dir = "in"
  THEN inbound' = inbound - 1 /\ outbound' = outbound
  ELSE outbound' = outbound - 1 /\ inbound' = inbound

\* Dialling counts the connection at once and spawns the handshake.
Connect(addr, kind, auto) ==
  /\ conns' = Append(conns, Dialled(addr, kind, auto))
  /\ outbound' = outbound + 1

Room == Len(conns) < world.dials
Asks(what) == what \in world.inputs /\ what \notin inputs

-----------------------------------------------------------------------------
\* The start: the table is loaded, the configured peers are dialled, the
\* seednodes looked up, and the tick and the listener begin.
Start ==
  /\ up = "down"
  /\ IF Loads(file)
     THEN /\ up' = "up"
          /\ table' = Load(file, world.preferable)
          /\ conns' = [i \in 1..Len(world.peers) |-> Dialled(world.peers[i], "normal", FALSE)]
          /\ outbound' = Len(world.peers)
          /\ lookups' = world.seeds
     ELSE /\ up' = "refused"
          /\ UNCHANGED <<table, conns, outbound, lookups>>
  /\ nextTick' = now
  /\ UNCHANGED <<clock, file, channels, peerCounter, inbound, ticking, dialing, closes, inputs>>

\* The end of the process, by a stop or by a crash: the file is what remains.
Ends ==
  /\ up' = "down"
  /\ table' = NoNodes /\ conns' = <<>> /\ channels' = {} /\ peerCounter' = 0
  /\ inbound' = 0 /\ outbound' = 0 /\ lookups' = {}
  /\ ticking' = FALSE /\ dialing' = <<>> /\ closes' = {}
  /\ UNCHANGED <<clock, nextTick>>

Stop ==
  /\ up = "up" /\ Asks("stop")
  /\ inputs' = inputs \cup {"stop"}
  /\ Ends
  /\ UNCHANGED file

\* The crash that hits while the table is written.
CrashInSave ==
  /\ up = "up" /\ ticking /\ dialing = <<>> /\ Asks("crash")
  /\ inputs' = inputs \cup {"crash"}
  /\ file' \in TornFiles(Save(table))
  /\ Ends

\* The lookup of a seednode, which may fail.
ResolveSeednode(a) ==
  /\ up = "up" /\ a \in lookups
  /\ lookups' = lookups \ {a}
  /\ \/ Room /\ Connect(a, "seed", FALSE)
     \/ UNCHANGED <<conns, outbound>>
  /\ UNCHANGED <<clock, up, storage, channels, peerCounter, inbound, tick, closes, inputs>>

\* The rpc calls addnode add, remove and onetry.
AddNode(a) ==
  /\ up = "up" /\ Asks("add")
  /\ inputs' = inputs \cup {"add"}
  /\ table' = Add(table, a, world.services, world.preferable, now)
  /\ UNCHANGED <<clock, up, file, conns, channels, peerCounter, counter, lookups, tick, closes>>

RemoveNode(a) ==
  /\ up = "up" /\ Asks("remove")
  /\ inputs' = inputs \cup {"remove"}
  /\ table' = Remove(table, a)
  /\ UNCHANGED <<clock, up, file, conns, channels, peerCounter, counter, lookups, tick, closes>>

ConnectNormal(a) ==
  /\ up = "up" /\ Asks("onetry") /\ Room
  /\ inputs' = inputs \cup {"onetry"}
  /\ Connect(a, "normal", FALSE)
  /\ UNCHANGED <<clock, up, storage, channels, peerCounter, inbound, lookups, tick, closes>>

\* The listener, one stream at a time: at the limit the stream is shut down.
Listen(a) ==
  /\ up = "up" /\ a \in world.hosts /\ Room
  /\ InboundConnectionsNeeded > 0
  /\ conns' = Append(conns, Accepted(a))
  /\ inbound' = inbound + 1
  /\ UNCHANGED <<clock, up, storage, channels, peerCounter, outbound, lookups, tick, closes, inputs>>

-----------------------------------------------------------------------------
\* PingProtocol::maintain: a ping with a fresh nonce when nothing was heard.
Maintain(c) ==
  IF c.ping.waits = "timeout" /\ now - c.ping.at > PingInterval
  THEN [c EXCEPT !.ping = [waits |-> "pong", at |-> now], !.pings = @ + 1, !.nonce = c.pings + 1,
                 !.owed = @ \cup {[nonce |-> c.pings + 1, at |-> now]}]
  ELSE c

\* Mutant: the answer is awaited for a moment less.
PingUnansweredEarly(c) == c.ping.waits = "pong" /\ now - c.ping.at >= MaxPingResponse

\* Its other case: the connection is closed when the answer is overdue.
PingUnanswered(c) == c.ping.waits = "pong" /\ now - c.ping.at > MaxPingResponse

CloseTask(id, at) == [id |-> id, at |-> at]

\* A tick of autoconnect: every session is maintained, and the addresses to
\* dial are chosen among those without a stored channel.
Tick ==
  /\ up = "up" /\ now = nextTick /\ ~ticking
  /\ conns' = [i \in DOMAIN conns |-> IF i \in channels THEN Maintain(conns[i]) ELSE conns[i]]
  /\ closes' = closes \cup {CloseTask(conns[i].id, now) : i \in {j \in channels : PingUnanswered(conns[j])}}
  /\ LET used  == {conns[i].addr : i \in channels}
         peers == NodesWithServices(table, {}, world.protocol, used, OutboundConnectionsNeeded)
     IN  dialing' = [i \in 1..Len(peers) |-> peers[i].addr]
  /\ ticking' = TRUE
  /\ nextTick' = nextTick + TickInterval
  /\ UNCHANGED <<clock, up, storage, channels, peerCounter, counter, lookups, inputs>>

TickConnect ==
  /\ ticking /\ dialing # <<>> /\ Room
  /\ Connect(Head(dialing), "normal", TRUE)
  /\ dialing' = Tail(dialing)
  /\ UNCHANGED <<clock, up, storage, channels, peerCounter, inbound, lookups, nextTick, ticking, closes, inputs>>

\* The bound on dials: the rest of the list is dropped.
TickBound ==
  /\ ticking /\ dialing # <<>> /\ ~Room
  /\ dialing' = <<>>
  /\ UNCHANGED <<clock, up, storage, conns, channels, peerCounter, counter, lookups, nextTick, ticking, closes, inputs>>

TickSave ==
  /\ ticking /\ dialing = <<>>
  /\ file' = Save(table)
  /\ ticking' = FALSE
  /\ UNCHANGED <<clock, up, table, conns, channels, peerCounter, counter, lookups, nextTick, dialing, closes, inputs>>

-----------------------------------------------------------------------------
\* Reading a message from the stream.  A message is sound or has one fault: a
\* foreign magic, a wrong checksum, or a payload that does not decode.
ReadHeader(m)            == m.fault # "magic"
ReadPayload(m)           == m.fault \notin {"checksum", "payload"}
ReadMessage(m, command)  == ReadHeader(m) /\ m.command = command /\ ReadPayload(m)
ReadAnyMessage(m)        == ReadHeader(m) /\ m.fault # "checksum"

\* Session::initialize: the ping protocol is maintained (a ping is not due yet),
\* and a dialled node is asked for addresses.
Initialize(conn) ==
  LET pinged == Maintain(conn)
  IN  IF conn.dir = "out" THEN [pinged EXCEPT !.sent = Append(@, "getaddr")] ELSE pinged

DeadlinePassed(conn) == now = conn.since + HandshakeDeadline

\* The handshake is done: the node enters the table, the channel is stored
\* under the next id, its session is initialized and its first read begins.
StoreChannel(c, conn) ==
  /\ conns' = [conns EXCEPT ![c] = Initialize([conn EXCEPT !.phase = "open", !.id = peerCounter, !.heard = now,
                                                           !.reader = "reading",
                                                           !.ping = [waits |-> "timeout", at |-> now]])]
  /\ table' = Insert(table, conn.addr, conn.services, world.preferable, now)
  /\ channels' = channels \cup {c}
  /\ peerCounter' = peerCounter + 1
  /\ UNCHANGED counter

\* It goes on in the next state, or fails: the address is noted and the
\* connection no longer counts.
Continue(c, conn) == conns' = [conns EXCEPT ![c] = conn] /\ UNCHANGED <<table, channels, peerCounter, counter>>

HandshakeFailed(c) ==
  /\ conns' = [conns EXCEPT ![c] = [conns[c] EXCEPT !.phase = "failed"]]
  /\ table' = NoteFailure(table, conns[c].addr)
  /\ NoteClose(c)
  /\ UNCHANGED <<channels, peerCounter>>

\* The tcp connect or a write is done.
HandshakeWrite(c) ==
  LET conn == conns[c] IN
  /\ up = "up" /\ conn.phase \in {"tcp", "sendVersion", "sendVerack"}
  /\ CASE conn.phase = "tcp" -> Continue(c, [conn EXCEPT !.phase = "sendVersion"])
       [] conn.phase = "sendVersion" ->
            Continue(c, [conn EXCEPT !.phase = IF conn.dir = "out" THEN "receiveVersion" ELSE "sendVerack",
                                     !.sent = Append(@, "version")])
       [] conn.phase = "sendVerack" /\ conn.dir = "out" ->
            Continue(c, [conn EXCEPT !.phase = "receiveVerack", !.sent = Append(@, "verack")])
       [] conn.phase = "sendVerack" /\ conn.dir = "in" ->
            StoreChannel(c, [conn EXCEPT !.sent = Append(@, "verack")])
  /\ UNCHANGED <<clock, up, file, lookups, tick, closes, inputs>>

NegotiateVersion(local, other) == IF local < other THEN local ELSE other

\* A version message from a node that is recent enough, and not this one.
Acceptable(v) == v.version >= ProtocolMinimum /\ ~v.own

ReceiveVersion(c, v) ==
  LET conn == conns[c] IN
  /\ up = "up" /\ conn.phase = "receiveVersion"
  /\ IF ReadMessage(v, "version") /\ Acceptable(v)
     THEN Continue(c, [conn EXCEPT !.phase = IF conn.dir = "out" THEN "sendVerack" ELSE "sendVersion",
                                   !.version = NegotiateVersion(ProtocolVersion, v.version),
                                   !.services = v.services])
     ELSE HandshakeFailed(c)
  /\ UNCHANGED <<clock, up, file, lookups, tick, closes, inputs>>

\* Whatever message arrives is taken for the verack.
ReceiveVerack(c) ==
  /\ up = "up" /\ conns[c].phase = "receiveVerack"
  /\ StoreChannel(c, conns[c])
  /\ UNCHANGED <<clock, up, file, lookups, tick, closes, inputs>>

\* A network error, where peers break connections; and the deadline.
HandshakeBreaks(c) ==
  /\ up = "up" /\ conns[c].phase \in Handshaking
  /\ "breaks" \in world.inputs \/ DeadlinePassed(conns[c])
  /\ HandshakeFailed(c)
  /\ UNCHANGED <<clock, up, file, lookups, tick, closes, inputs>>

-----------------------------------------------------------------------------
\* close_channel and close_channel_with_error take the channel out of the map;
\* the caller that found it there finishes the close.
RemoveChannel(c, conn, failed) ==
  IF c \in channels
  THEN /\ channels' = channels \ {c}
       /\ conns' = [conns EXCEPT ![c] = [conn EXCEPT !.phase = "removed", !.failed = failed]]
  ELSE /\ conns' = [conns EXCEPT ![c] = conn]
       /\ UNCHANGED channels

Ended(conn) == [conn EXCEPT !.phase = "closed", !.ended = conn.ended + 1]

\* Mutant: the counter is not decreased.
FinishCloseUncounted(c) ==
  /\ up = "up" /\ conns[c].phase = "removed"
  /\ conns' = [conns EXCEPT ![c] = Ended(conns[c])]
  /\ table' = IF conns[c].failed THEN NoteFailure(table, conns[c].addr) ELSE table
  /\ UNCHANGED <<clock, up, file, channels, peerCounter, counter, lookups, tick, closes, inputs>>

\* The rest of the close: the session is told, the stream shut down, the
\* failure noted and the connection no longer counts.
FinishClose(c) ==
  /\ up = "up" /\ conns[c].phase = "removed"
  /\ conns' = [conns EXCEPT ![c] = Ended(conns[c])]
  /\ table' = IF conns[c].failed THEN NoteFailure(table, conns[c].addr) ELSE table
  /\ NoteClose(c)
  /\ UNCHANGED <<clock, up, file, channels, peerCounter, lookups, tick, closes, inputs>>

\* A spawned or delayed close runs.
RunClose(t) ==
  /\ up = "up" /\ t \in closes /\ t.at <= now
  /\ closes' = closes \ {t}
  /\ IF \E c \in channels : conns[c].id = t.id
     THEN LET c == CHOOSE c \in channels : conns[c].id = t.id IN RemoveChannel(c, conns[c], FALSE)
     ELSE UNCHANGED <<conns, channels>>
  /\ UNCHANGED <<clock, up, storage, peerCounter, counter, lookups, tick, inputs>>

\* The synchronization gives a peer up: the node is penalized, a close spawned.
SyncClose(c) ==
  /\ up = "up" /\ c \in channels /\ "sync" \in world.inputs /\ conns[c].kind = "normal" /\ conns[c].honest
  /\ conns' = [conns EXCEPT ![c] = [conns[c] EXCEPT !.honest = FALSE]]
  /\ table' = NoteFailure(table, conns[c].addr)
  /\ closes' = closes \cup {CloseTask(conns[c].id, now)}
  /\ UNCHANGED <<clock, up, file, channels, peerCounter, counter, lookups, tick, inputs>>

-----------------------------------------------------------------------------
Message(command, fault, nonce, entries) == [command |-> command, fault |-> fault, nonce |-> nonce, entries |-> entries]

\* What the peer of a connection may send: a pong answers a ping it owes, or
\* none; "other" stands for ping, getaddr and the messages of SyncProtocol,
\* which change nothing here beyond being heard.
Messages(conn) ==
  {Message("pong", "none", p.nonce, <<>>) : p \in conn.owed} \cup
  {Message(k, "none", 0, <<>>) : k \in {"other", "pong"} \cap world.inputs} \cup
  {Message("addr", "none", 0, e) : e \in world.book} \cup
  {Message("other", f, 0, <<>>) : f \in world.faults}

\* The peer is no longer a punctual one after a fault or an unasked pong.
Sound(m) == m.fault = "none" /\ (m.command = "pong" => m.nonce # 0)

\* The connection with the message read from it.
Hears(conn, m) ==
  [conn EXCEPT !.reader = "handling", !.msg = m, !.got = conn.got + 1,
               !.addrAt = IF conn.kind = "seed" /\ m.command = "addr" /\ conn.addrAt < 0 THEN now ELSE @,
               !.owed = {p \in conn.owed : m.command # "pong" \/ p.nonce # m.nonce},
               !.honest = conn.honest /\ Sound(m)]

\* A message is read.  The stream of a closed channel may still hold some.
Read(c, m) ==
  /\ up = "up" /\ conns[c].reader = "reading" /\ conns[c].got < world.messages
  /\ m \in Messages(conns[c]) /\ ReadAnyMessage(m)
  /\ conns' = [conns EXCEPT ![c] = Hears(conns[c], m)]
  /\ UNCHANGED <<clock, up, storage, channels, peerCounter, counter, lookups, tick, closes, inputs>>

\* The read fails: the message is malformed or the stream ended.
ReadFails(c) ==
  /\ up = "up" /\ conns[c].reader = "reading"
  /\ IF conns[c].phase = "closed" THEN TRUE
     ELSE "breaks" \in world.inputs \/ \E m \in Messages(conns[c]) : ~ReadAnyMessage(m)
  /\ RemoveChannel(c, [conns[c] EXCEPT !.reader = "stopped", !.honest = FALSE], TRUE)
  /\ UNCHANGED <<clock, up, storage, peerCounter, counter, lookups, tick, closes, inputs>>

\* PingProtocol::on_message: any message restarts the wait, a pong takes the
\* nonce it must match.
PingOnMessage(conn) ==
  [conn EXCEPT !.ping = [waits |-> "timeout", at |-> now], !.heard = now,
               !.nonce = IF conn.msg.command = "pong" THEN 0 ELSE @]

PongMatches(conn) == conn.msg.command = "pong" => conn.nonce # 0 /\ conn.msg.nonce = conn.nonce

\* SeednodeProtocol::on_message: the first addr schedules the disconnect.
SeednodeOnMessage(conn) ==
  IF conn.kind = "seed" /\ conn.msg.command = "addr" /\ ~conn.disconnecting
  THEN [conn EXCEPT !.disconnecting = TRUE] ELSE conn

\* AddrProtocol::on_message: the addresses enter the table, and more than one
\* from a seednode closes the connection.
AddrOnMessage(conn) ==
  IF conn.msg.command = "addr" THEN InsertMany(table, conn.msg.entries, world.preferable, now) ELSE table

AddrCloses(conn) == conn.kind = "seed" /\ conn.msg.command = "addr" /\ Len(conn.msg.entries) > 1

\* Session::on_message: the protocols see the message in turn until one refuses.
SessionRefuses(conn) == conn.msg.fault = "payload" \/ ~PongMatches(conn)

\* A refused message closes the channel; any other marks the node used and the
\* next one is read.
OnMessage(c) ==
  LET conn == conns[c]
      next == SeednodeOnMessage(PingOnMessage(conn))
  IN
  /\ up = "up" /\ conn.reader = "handling"
  /\ IF SessionRefuses(conn)
     THEN /\ RemoveChannel(c, [PingOnMessage(conn) EXCEPT !.reader = "stopped"], TRUE)
          /\ UNCHANGED <<table, closes>>
     ELSE /\ conns' = [conns EXCEPT ![c] = [next EXCEPT !.reader = "reading"]]
          /\ table' = NoteUsed(AddrOnMessage(conn), conn.addr, now)
          /\ closes' = closes
               \cup (IF AddrCloses(conn) THEN {CloseTask(conn.id, now)} ELSE {})
               \cup (IF next.disconnecting /\ ~conn.disconnecting THEN {CloseTask(conn.id, now + SeednodeDelay)} ELSE {})
          /\ UNCHANGED channels
  /\ UNCHANGED <<clock, up, file, peerCounter, counter, lookups, tick, inputs>>

-----------------------------------------------------------------------------
\* A peer that owes a pong for longer than the code waits is no longer punctual.
Later(conn) ==
  [conn EXCEPT !.honest = conn.honest /\ \A p \in conn.owed : now + 1 - p.at <= MaxPingResponse]

\* A unit of time passes once everything due is done.
Advance ==
  /\ up = "up" /\ now < world.horizon
  /\ now < nextTick /\ ~ticking
  /\ \A t \in closes : now < t.at
  /\ \A c \in DOMAIN conns : LET conn == conns[c] IN
       /\ conn.phase \in Handshaking => now < conn.since + HandshakeDeadline
       /\ conn.phase # "removed" /\ conn.reader # "handling"
       /\ conn.phase = "closed" => conn.reader = "stopped"
  /\ now' = now + 1
  /\ conns' = [c \in DOMAIN conns |-> Later(conns[c])]
  /\ UNCHANGED <<world, up, storage, channels, peerCounter, counter, lookups, tick, closes, inputs>>

Init ==
  /\ world \in Worlds
  /\ now = 0 /\ up = "down"
  /\ table = NoNodes /\ file = world.file
  /\ conns = <<>> /\ channels = {} /\ peerCounter = 0
  /\ inbound = 0 /\ outbound = 0 /\ lookups = {}
  /\ nextTick = 0 /\ ticking = FALSE /\ dialing = <<>>
  /\ closes = {} /\ inputs = {}

Next ==
  \/ Start \/ Stop \/ CrashInSave \/ Advance
  \/ Tick \/ TickConnect \/ TickBound \/ TickSave
  \/ \E a \in world.addresses :
       ResolveSeednode(a) \/ AddNode(a) \/ RemoveNode(a) \/ ConnectNormal(a) \/ Listen(a)
  \/ \E t \in closes : RunClose(t)
  \/ \E c \in DOMAIN conns :
       \/ HandshakeWrite(c) \/ ReceiveVerack(c) \/ HandshakeBreaks(c)
       \/ \E v \in world.versions : ReceiveVersion(c, v)
       \/ FinishClose(c) \/ SyncClose(c) \/ ReadFails(c) \/ OnMessage(c)
       \/ \E m \in Messages(conns[c]) : Read(c, m)

Spec == Init /\ [][Next]_vars

-----------------------------------------------------------------------------
Live(c) == conns[c].phase \in Handshaking \cup {"open", "removed"}

\* The type invariant: phases, and channels exactly for the open connections,
\* each with an id of its own.
TypeOK ==
  /\ now \in Nat /\ up \in {"down", "up", "refused"} /\ ticking \in BOOLEAN
  /\ conns \in Seq(Connection)
  /\ channels = {c \in DOMAIN conns : conns[c].phase = "open"}
  /\ \A c, d \in DOMAIN conns : conns[c].id = conns[d].id /\ c # d => conns[c].id = -1

\* However the closes of a connection race (a failed read, a wrong pong, an
\* overdue ping, the synchronization, a seednode timer), its session is told
\* once that it ended, and both counters (ConnectionCounter) hold exactly the
\* connections that handshake, are open or are being closed: no underflow.
CountersExact ==
  /\ \A c \in DOMAIN conns : conns[c].ended = IF conns[c].phase = "closed" THEN 1 ELSE 0
  /\ inbound  = Cardinality({c \in DOMAIN conns : Live(c) /\ conns[c].dir = "in"})
  /\ outbound = Cardinality({c \in DOMAIN conns : Live(c) /\ conns[c].dir = "out"})

\* Context::listen never accepts more than the configured inbound connections,
\* which is more than its comment promises: only the listener adds to the
\* counter, and it checks and adds in one go.
InboundBounded == inbound <= world.inbound

\* Whatever is dialled by hand meanwhile, autoconnect by itself never holds more
\* than the configured outbound connections.
OutboundBounded == Cardinality({c \in DOMAIN conns : Live(c) /\ conns[c].auto}) <= world.outbound

\* autoconnect looks only at stored channels when it excludes addresses; since
\* a handshake ends before the next tick it still never holds two connections
\* to one address.
AutoDialsDistinct ==
  \A c, d \in DOMAIN conns :
    (c # d /\ conns[c].auto /\ conns[d].auto /\ conns[c].addr = conns[d].addr) =>
      \E e \in {c, d} : conns[e].phase \notin Handshaking \cup {"open"}

\* A peer that answers every ping in time, sends nothing malformed and stays is
\* kept: no race of a pong with the next ping closes it (PingProtocol).
PunctualPeersKept ==
  \A c \in DOMAIN conns :
    (conns[c].kind = "normal" /\ conns[c].honest) => conns[c].phase \notin {"removed", "closed"}

\* A channel on which nothing arrives is closed within the ping interval, the
\* time given to answer, and a tick for either to be noticed.
SilentPeersDropped ==
  \A c \in channels : now - conns[c].heard <= PingInterval + MaxPingResponse + 2 * TickInterval

\* A seednode that sent addresses is left within the delay.
SeednodesLeft ==
  \A c \in channels : conns[c].addrAt >= 0 => now - conns[c].addrAt <= SeednodeDelay

\* A stored channel had its whole handshake: our version and verack, and after
\* them a getaddr to a node we dialled, were sent in this order, the peer is not older than the minimum, and the version used
\* is one that both sides know.
HandshakesComplete ==
  \A c \in channels :
    /\ conns[c].sent = <<"version", "verack">> \o (IF conns[c].dir = "out" THEN <<"getaddr">> ELSE <<>>)
    /\ conns[c].version \in ProtocolMinimum..ProtocolVersion

\* The indexes of the node table agree, and its assertions hold.
IndexesAgree == IndexesAgreeIn(table)

\* No node of the table was last seen in the future (insert_many).
NodesSeenInThePast == \A n \in Nodes(table) : n.time <= now

\* The tick dials the best nodes that are not connected.
BestChosen ==
  BestChosenIn(table, {}, world.protocol, {conns[c].addr : c \in channels}, OutboundConnectionsNeeded)

\* getaddr is answered with the most recently active nodes.
RecentAdvertised == RecentAdvertisedIn(table, world.protocol)

\* The saved table reads back, and a torn file is refused or sound.
SavedTableReloads == SavedTableReloadsIn(table, world.preferable)

\* However connects, handshakes and closes interleave, the counters of connections
\* are exact and within their limits, a channel is stored after a whole handshake
\* only, and autoconnect dials no address twice.
ConnectionsSound ==
  /\ TypeOK /\ CountersExact /\ InboundBounded /\ OutboundBounded
  /\ AutoDialsDistinct /\ HandshakesComplete

\* The deadlines of the ping and seednode protocols: a punctual peer is kept, a
\* silent one is dropped in time, a seednode is left once it has answered.
DeadlinesKept == PunctualPeersKept /\ SilentPeersDropped /\ SeednodesLeft

\* The node table keeps its indexes under every update, gives out the best and
\* the most recent nodes, and survives its file.
NodeTableSound ==
  IndexesAgree /\ NodesSeenInThePast /\ BestChosen /\ RecentAdvertised /\ SavedTableReloads

\* Stated by the help of the option --connect, "Connect only to the specified node.", and not
\* kept: autoconnect dials others as well.
ConnectsOnlyToPeers ==
  world.peers # <<>> =>
    \A c \in DOMAIN conns : conns[c].dir = "out" => \E i \in DOMAIN world.peers : conns[c].addr = world.peers[i]
=============================================================================
