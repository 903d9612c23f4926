----------------------------- MODULE NetworkSteps -----------------------------
(***************************************************************************)
(* The inductive invariants behind the theorems of NetworkProofs, and what *)
(* the steps of Network do to a connection and to its deadlines.           *)
(* NetworkSafety shows that they keep the invariant Safe, the second part  *)
(* of this module that they keep Deadlines.                                *)
(***************************************************************************)
EXTENDS Network, TLAPS

-----------------------------------------------------------------------------
(* The inductive invariant, by what a conjunct is about.                   *)

\* The clock and the tick: a tick works at the time it was due.
ClockOK ==
  /\ world \in Worlds /\ now \in Nat /\ nextTick \in Nat /\ ticking \in BOOLEAN
  /\ up \in {"down", "up", "refused"}
  /\ up = "up" => nextTick - TickInterval <= now /\ now <= nextTick
  /\ ticking => up = "up" /\ now = nextTick - TickInterval

\* The table and the file hold nodes that were seen before.
StorageOK ==
  /\ TableOK(table, now) /\ RowsOK(file, now)

\* Connections by themselves: those not yet stored have no id and no reader.
StageOK(conn, time, count) ==
  /\ conn.since <= time /\ conn.heard <= time /\ conn.ping.at <= time
  /\ conn.ended = IF conn.phase = "closed" THEN 1 ELSE 0
  /\ conn.auto => conn.dir = "out"
  /\ IF conn.phase \in Handshaking \cup {"failed"}
     THEN /\ conn.id = -1 /\ conn.reader = "none" /\ conn.owed = {} /\ conn.nonce = 0
          /\ conn.addrAt = -1 /\ conn.disconnecting = FALSE
     ELSE conn.id \in 0..(count - 1) /\ conn.reader # "none"

ConnsOK ==
  /\ conns \in Seq(Connection) /\ peerCounter \in Nat
  /\ channels = {c \in DOMAIN conns : conns[c].phase = "open"}
  /\ \A c \in DOMAIN conns : StageOK(conns[c], now, peerCounter)
  /\ \A c, d \in DOMAIN conns : conns[c].id = conns[d].id /\ c # d => conns[c].id = -1

\* The rest: the work of the tick, and nothing at all while the node is down.
WorkOK ==
  /\ inbound \in Int /\ outbound \in Int
  /\ dialing \in Seq(Address) /\ (~ticking => dialing = <<>>)
  /\ up # "up" => conns = <<>> /\ closes = {} /\ inbound = 0 /\ outbound = 0

Base == ClockOK /\ StorageOK /\ ConnsOK /\ WorkOK

\* What was sent and agreed, by the state of the handshake.
HandshakeOK(conn) ==
  /\ conn.dir = "in" => conn.phase \notin {"tcp", "receiveVerack"}
  /\ conn.phase \in {"tcp", "sendVersion"} \/ (conn.phase = "receiveVersion" /\ conn.dir = "in") => conn.sent = <<>>
  /\ conn.phase = "sendVerack" \/ (conn.phase = "receiveVersion" /\ conn.dir = "out") => conn.sent = <<"version">>
  /\ conn.phase = "receiveVerack" => conn.sent = <<"version", "verack">>
  /\ conn.phase = "open" =>
       conn.sent = <<"version", "verack">> \o (IF conn.dir = "out" THEN <<"getaddr">> ELSE <<>>)
  /\ \/ conn.phase \in {"sendVerack", "receiveVerack", "open"}
     \/ conn.phase = "sendVersion" /\ conn.dir = "in"
     => conn.version \in ProtocolMinimum..ProtocolVersion

Handshakes == \A c \in DOMAIN conns : HandshakeOK(conns[c])

\* The counters, and autoconnect within its limit with what it has still to dial.
Outgoing == {c \in DOMAIN conns : Live(c) /\ conns[c].dir = "out"}
Incoming == {c \in DOMAIN conns : Live(c) /\ conns[c].dir = "in"}
Automatic == {c \in DOMAIN conns : Live(c) /\ conns[c].auto}

Counted ==
  /\ inbound = Cardinality(Incoming) /\ outbound = Cardinality(Outgoing)
  /\ inbound <= world.inbound
  /\ Cardinality(Automatic) + Len(dialing) <= world.outbound

\* A handshake is within its deadline, and a dial of autoconnect was at a tick;
\* what is still to dial is dialled nowhere else.
Busy(c) == conns[c].auto /\ conns[c].phase \in Handshaking \cup {"open"}

Dials ==
  /\ \A c \in DOMAIN conns :
       /\ conns[c].phase \in Handshaking => now <= conns[c].since + HandshakeDeadline
       /\ conns[c].auto => conns[c].since <= nextTick - TickInterval
  /\ \A i, j \in DOMAIN dialing : dialing[i] = dialing[j] => i = j
  /\ \A c \in DOMAIN conns, i \in DOMAIN dialing : Busy(c) => conns[c].addr # dialing[i]
  /\ \A c, d \in DOMAIN conns : c # d /\ Busy(c) /\ Busy(d) => conns[c].addr # conns[d].addr

\* The pings of a stored channel, and the wait for a pong.
PingOK(conn, time, next, tasks) ==
  conn.phase = "open" =>
    /\ conn.ping.waits = "timeout" =>
         conn.ping.at = conn.heard /\ next - TickInterval - conn.heard <= PingInterval
    /\ conn.ping.waits = "pong" =>
         /\ conn.heard <= conn.ping.at /\ conn.ping.at - conn.heard <= PingInterval + TickInterval
         /\ \/ next - TickInterval - conn.ping.at <= MaxPingResponse
            \/ \E t \in tasks : t.id = conn.id /\ t.at <= time
    /\ time - conn.heard <= PingInterval + MaxPingResponse + 2 * TickInterval

\* A seednode that sent addresses has a close scheduled, or is about to.
SeedOK(conn, time, tasks) ==
  conn.phase = "open" =>
    /\ conn.addrAt < 0 =>
         /\ conn.disconnecting = FALSE
         /\ ~(conn.kind = "seed" /\ conn.reader = "handling" /\ conn.msg.command = "addr")
    /\ conn.addrAt >= 0 =>
         /\ time - conn.addrAt <= SeednodeDelay
         /\ \/ \E t \in tasks : t.id = conn.id /\ t.at <= conn.addrAt + SeednodeDelay
            \/ /\ conn.disconnecting = FALSE /\ conn.kind = "seed" /\ conn.addrAt = time
               /\ conn.reader = "handling" /\ conn.msg.command = "addr" /\ conn.msg.fault = "none"

\* A punctual peer owes at most the answer to the last ping, for not longer
\* than is waited for it, and no close is on its way to it.
PunctualOK(conn, time, tasks) ==
  conn.kind = "normal" /\ conn.honest =>
    /\ conn.phase \notin {"removed", "closed"}
    /\ \A t \in tasks : t.id # conn.id
    /\ \A p \in conn.owed : /\ p.nonce = conn.nonce /\ p.nonce # 0
                            /\ p.at <= conn.ping.at /\ time - p.at <= MaxPingResponse
    /\ conn.ping.waits = "pong" =>
         /\ time - conn.ping.at <= MaxPingResponse
         /\ conn.reader # "handling" => \E p \in conn.owed : p.at = conn.ping.at
    /\ conn.reader = "handling" =>
         /\ Sound(conn.msg)
         /\ conn.msg.command = "pong" =>
              /\ conn.msg.nonce = conn.nonce /\ conn.owed = {}
              /\ time - conn.ping.at <= MaxPingResponse

Deadlines ==
  /\ \A t \in closes : t.id \in 0..(peerCounter - 1) /\ t.at \in Nat
  /\ \A c \in DOMAIN conns : /\ PingOK(conns[c], now, nextTick, closes)
                           /\ SeedOK(conns[c], now, closes) /\ PunctualOK(conns[c], now, closes)

\* The invariant behind ConnectionsSound and NodeTableSound.
Safe == Base /\ Handshakes /\ Counted /\ Dials

-----------------------------------------------------------------------------
(* Connections as records.                                                 *)

\* What was sent stays a sequence of commands when one more is written.
LEMMA SentType ==
  ASSUME NEW s \in Seq(Commands), NEW k \in Commands
  PROVE  Append(s, k) \in Seq(Commands)
OBVIOUS

IsNew(r, a, dir, kind, auto, phase, time) ==
  /\ r \in Connection /\ r.addr = a /\ r.dir = dir /\ r.kind = kind /\ r.auto = auto
  /\ r.phase = phase /\ r.since = time /\ r.sent = <<>> /\ r.id = -1 /\ r.ping.waits = "timeout"
  /\ r.ping.at = time /\ r.nonce = 0 /\ r.owed = {} /\ r.heard = time /\ r.reader = "none"
  /\ r.disconnecting = FALSE /\ r.addrAt = -1 /\ r.ended = 0

\* A connection just dialled or accepted is a connection with nothing sent or read.
LEMMA NewConnectionType ==
  ASSUME now \in Nat, NEW a \in Address, NEW dir \in {"in", "out"}, NEW kind \in {"normal", "seed"},
         NEW auto \in BOOLEAN, NEW phase \in Handshaking, NEW r, r = NewConnection(a, dir, kind, auto, phase)
  PROVE  IsNew(r, a, dir, kind, auto, phase, now)
<1>1. {} \in ServiceSets
  BY Zenon DEF ServiceSets
<1>2. [command |-> "none", fault |-> "none", nonce |-> 0, entries |-> <<>>] \in MessageRecord
  <2>1. <<>> \in AddrLists /\ "none" \in Commands /\ "none" \in Faults
    BY DEF AddrLists, Commands, Faults
  <2> QED BY <2>1, Zenon DEF MessageRecord
<1>3. phase \in Phases
  BY Zenon DEF Phases
<1>4. r \in Connection
  BY <1>1, <1>2, <1>3 DEF NewConnection, Connection
<1> QED BY <1>4, Zenon DEF NewConnection, IsNew

\* PingProtocol::maintain sends a ping after the ping interval and changes nothing else.
LEMMA MaintainType ==
  ASSUME now \in Nat, NEW q \in Connection, NEW r, r = Maintain(q)
  PROVE  /\ r \in Connection /\ r.addr = q.addr /\ r.dir = q.dir /\ r.kind = q.kind /\ r.auto = q.auto
         /\ r.phase = q.phase /\ r.since = q.since /\ r.sent = q.sent /\ r.version = q.version
         /\ r.services = q.services /\ r.id = q.id /\ r.heard = q.heard /\ r.reader = q.reader
         /\ r.msg = q.msg /\ r.disconnecting = q.disconnecting /\ r.addrAt = q.addrAt
         /\ r.ended = q.ended /\ r.honest = q.honest
         /\ IF q.ping.waits = "timeout" /\ now - q.ping.at > PingInterval
            THEN /\ r.ping.waits = "pong" /\ r.ping.at = now /\ r.nonce = q.pings + 1
                 /\ r.owed = q.owed \cup {[nonce |-> q.pings + 1, at |-> now]}
            ELSE r = q
<1>1. PICK n \in Nat : n = q.pings + 1
  BY DEF Connection
<1>2. PICK p \in [waits : {"timeout", "pong"}, at : Nat] : p = [waits |-> "pong", at |-> now]
  BY Zenon
<1>3. PICK o \in SUBSET PingRecord : o = q.owed \cup {[nonce |-> n, at |-> now]}
  <2>1. q.owed \in SUBSET PingRecord /\ [nonce |-> n, at |-> now] \in PingRecord
    BY Zenon DEF Connection, PingRecord
  <2> QED BY <2>1, Zenon
<1>4. CASE q.ping.waits = "timeout" /\ now - q.ping.at > PingInterval
  <2>1. r = [q EXCEPT !.ping = p, !.pings = n, !.nonce = n, !.owed = o]
    BY <1>1, <1>2, <1>3, <1>4, Zenon DEF Maintain
  <2>2. r \in Connection
    BY <2>1, ZenonT(60) DEF Connection
  <2>3. r.ping = p /\ r.nonce = n /\ r.owed = o
    BY <2>1, Zenon DEF Connection
  <2>4. r.phase = q.phase
    BY <2>1, Zenon DEF Connection
  <2> QED BY <1>1, <1>2, <1>3, <1>4, <2>1, <2>2 DEF Connection
<1>5. CASE ~(q.ping.waits = "timeout" /\ now - q.ping.at > PingInterval)
  BY <1>5, Zenon DEF Maintain
<1> QED BY <1>4, <1>5, Zenon

\* What no step changes in a connection.
Same(q, r) ==
  /\ r.addr = q.addr /\ r.dir = q.dir /\ r.kind = q.kind /\ r.auto = q.auto /\ r.since = q.since

IsStored(q, r, id, time) ==
  /\ r \in Connection /\ Same(q, r) /\ r.phase = "open" /\ r.id = id /\ r.heard = time
  /\ r.reader = "reading" /\ r.ping.waits = "timeout" /\ r.ping.at = time /\ r.version = q.version
  /\ r.sent = (IF q.dir = "out" THEN Append(q.sent, "getaddr") ELSE q.sent)
  /\ r.owed = q.owed /\ r.nonce = q.nonce /\ r.addrAt = q.addrAt
  /\ r.disconnecting = q.disconnecting /\ r.ended = q.ended /\ r.honest = q.honest

\* What store_connection leaves: an open connection with the id it was given, just heard.
LEMMA StoredType ==
  ASSUME now \in Nat, NEW id \in Nat, NEW q \in Connection, NEW r,
         r = Initialize([q EXCEPT !.phase = "open", !.id = id, !.heard = now, !.reader = "reading",
                                  !.ping = [waits |-> "timeout", at |-> now]])
  PROVE  IsStored(q, r, id, now)
<1>1. PICK p \in [waits : {"timeout", "pong"}, at : Nat] : p = [waits |-> "timeout", at |-> now]
  BY Zenon
<1>2. PICK x : x = [q EXCEPT !.phase = "open", !.id = id, !.heard = now, !.reader = "reading", !.ping = p]
  BY Zenon
<1>3. x \in Connection
  <2>1. id \in Int /\ "open" \in Phases
    BY DEF Phases
  <2> QED BY <1>2, <2>1, ZenonT(60) DEF Connection
<1>4. /\ Same(q, x) /\ x.phase = "open" /\ x.id = id /\ x.heard = now /\ x.reader = "reading"
      /\ x.ping = p /\ x.version = q.version /\ x.sent = q.sent
      /\ x.owed = q.owed /\ x.nonce = q.nonce /\ x.addrAt = q.addrAt
      /\ x.disconnecting = q.disconnecting /\ x.ended = q.ended /\ x.honest = q.honest
  BY <1>2, Zenon DEF Connection, Same
<1>5. Maintain(x) = x
  BY <1>1, <1>4, IntervalsAssumption DEF Maintain
<1>6. r = IF x.dir = "out" THEN [x EXCEPT !.sent = Append(@, "getaddr")] ELSE x
  BY <1>1, <1>2, <1>5, Zenon DEF Initialize
<1>7. CASE x.dir = "out"
  <2>1. PICK t \in Seq(Commands) : t = Append(x.sent, "getaddr")
    <3>1. x.sent \in Seq(Commands) /\ "getaddr" \in Commands
      BY <1>3, Zenon DEF Connection, Commands
    <3> QED BY <3>1, SentType, Zenon
  <2>2. r = [x EXCEPT !.sent = t]
    BY <1>6, <1>7, <2>1, Zenon
  <2>3. r \in Connection
    BY <1>3, <2>2, ZenonT(60) DEF Connection
  <2>4. /\ Same(x, r) /\ r.phase = x.phase /\ r.id = x.id /\ r.heard = x.heard /\ r.reader = x.reader
        /\ r.ping = x.ping /\ r.version = x.version /\ r.sent = t /\ r.owed = x.owed /\ r.nonce = x.nonce
        /\ r.addrAt = x.addrAt /\ r.disconnecting = x.disconnecting /\ r.ended = x.ended /\ r.honest = x.honest
    BY <1>3, <2>2, ZenonT(60) DEF Connection, Same
  <2> QED BY <1>1, <1>4, <1>7, <2>1, <2>3, <2>4 DEF Same, IsStored
<1>8. CASE x.dir # "out"
  BY <1>1, <1>3, <1>4, <1>6, <1>8 DEF Same, IsStored
<1> QED BY <1>7, <1>8, Zenon

\* A message read is handed to the sessions; it answers the ping whose nonce it carries.
LEMMA HearsType ==
  ASSUME now \in Nat, NEW q \in Connection, NEW m \in MessageRecord, NEW r, r = Hears(q, m)
  PROVE  /\ r \in Connection /\ Same(q, r) /\ r.phase = q.phase /\ r.sent = q.sent /\ r.version = q.version
         /\ r.id = q.id /\ r.ping = q.ping /\ r.nonce = q.nonce /\ r.heard = q.heard
         /\ r.disconnecting = q.disconnecting /\ r.ended = q.ended
         /\ r.reader = "handling" /\ r.msg = m
         /\ r.owed = {p \in q.owed : m.command # "pong" \/ p.nonce # m.nonce}
         /\ r.addrAt = (IF q.kind = "seed" /\ m.command = "addr" /\ q.addrAt < 0 THEN now ELSE q.addrAt)
         /\ r.honest = (q.honest /\ Sound(m))
<1>1. PICK g \in Nat : g = q.got + 1
  BY DEF Connection
<1>2. PICK k \in Int : k = IF q.kind = "seed" /\ m.command = "addr" /\ q.addrAt < 0 THEN now ELSE q.addrAt
  BY DEF Connection
<1>3. PICK o \in SUBSET PingRecord : o = {p \in q.owed : m.command # "pong" \/ p.nonce # m.nonce}
  BY Zenon DEF Connection
<1>4. PICK h \in BOOLEAN : h = (q.honest /\ Sound(m))
  BY Zenon
<1>5. r = [q EXCEPT !.reader = "handling", !.msg = m, !.got = g, !.addrAt = k, !.owed = o, !.honest = h]
  BY <1>1, <1>2, <1>3, <1>4, Zenon DEF Hears
<1>6. r \in Connection
  <2>1. PICK u : u = [q EXCEPT !.reader = "handling", !.msg = m, !.got = g]
    BY Zenon
  <2>2. u \in Connection
    BY <2>1, ZenonT(60) DEF Connection
  <2>3. PICK w : w = [u EXCEPT !.addrAt = k, !.owed = o]
    BY Zenon
  <2>4. w \in Connection
    BY <2>2, <2>3, ZenonT(60) DEF Connection
  <2>5. r = [w EXCEPT !.honest = h]
    BY <1>5, <2>1, <2>3, Zenon DEF Connection
  <2> QED BY <2>4, <2>5, ZenonT(60) DEF Connection
<1>7. /\ Same(q, r) /\ r.phase = q.phase /\ r.sent = q.sent /\ r.version = q.version
      /\ r.id = q.id /\ r.ping = q.ping /\ r.nonce = q.nonce /\ r.heard = q.heard
      /\ r.disconnecting = q.disconnecting /\ r.ended = q.ended
      /\ r.reader = "handling" /\ r.msg = m /\ r.owed = o /\ r.addrAt = k /\ r.honest = h
  BY <1>5, ZenonT(60) DEF Connection, Same
<1> QED BY <1>2, <1>3, <1>4, <1>6, <1>7, Zenon

\* The connection after the session has seen a message.
LEMMA HandledType ==
  ASSUME now \in Nat, NEW q \in Connection, NEW x, x = PingOnMessage(q), NEW y, y = SeednodeOnMessage(x)
  PROVE  /\ x \in Connection /\ Same(q, x) /\ x.phase = q.phase /\ x.sent = q.sent /\ x.version = q.version
         /\ x.id = q.id /\ x.owed = q.owed /\ x.addrAt = q.addrAt /\ x.ended = q.ended /\ x.honest = q.honest
         /\ x.heard = now /\ x.ping.waits = "timeout" /\ x.ping.at = now /\ x.reader = q.reader /\ x.msg = q.msg
         /\ x.nonce = (IF q.msg.command = "pong" THEN 0 ELSE q.nonce)
         /\ x.disconnecting = q.disconnecting
         /\ y = IF q.kind = "seed" /\ q.msg.command = "addr" /\ ~q.disconnecting
                THEN [x EXCEPT !.disconnecting = TRUE] ELSE x
<1>1. PICK p \in [waits : {"timeout", "pong"}, at : Nat] : p = [waits |-> "timeout", at |-> now]
  BY Zenon
<1>2. PICK n \in Nat : n = IF q.msg.command = "pong" THEN 0 ELSE q.nonce
  BY Zenon DEF Connection
<1>3. x = [q EXCEPT !.ping = p, !.heard = now, !.nonce = n]
  BY <1>1, <1>2, Zenon DEF PingOnMessage
<1>4. x \in Connection
  BY <1>3, ZenonT(60) DEF Connection
<1>5. /\ Same(q, x) /\ x.phase = q.phase /\ x.sent = q.sent /\ x.version = q.version
      /\ x.id = q.id /\ x.owed = q.owed /\ x.addrAt = q.addrAt /\ x.ended = q.ended /\ x.honest = q.honest
      /\ x.heard = now /\ x.ping = p /\ x.reader = q.reader /\ x.msg = q.msg
      /\ x.nonce = n /\ x.disconnecting = q.disconnecting
  BY <1>3, ZenonT(60) DEF Connection, Same
<1> QED BY <1>1, <1>2, <1>4, <1>5 DEF SeednodeOnMessage, Same
-----------------------------------------------------------------------------
(* The connections as a whole.                                             *)

\* One connection changes; the clock and the tick do not.
Moves(c, r) ==
  /\ c \in DOMAIN conns /\ r \in Connection /\ conns' = [conns EXCEPT ![c] = r] /\ Same(conns[c], r)
  /\ up = "up" /\ UNCHANGED <<clock, up, tick>>

\* A connection's stage stays right while time passes and ids are given out.
LEMMA StageStays ==
  ASSUME NEW q \in Connection, NEW m \in Nat, NEW n \in Nat, m <= n, NEW t \in Nat, NEW u \in Nat, t <= u,
         StageOK(q, t, m)
  PROVE  StageOK(q, u, n) /\ q.id \in Int /\ q.id < m /\ -1 <= q.id
<1>1. q.since \in Nat /\ q.heard \in Nat /\ q.ping.at \in Nat /\ q.id \in Int
  BY Zenon DEF Connection
<1>2. q.since <= u /\ q.heard <= u /\ q.ping.at <= u
  BY <1>1 DEF StageOK
<1>3. q.id \in 0..(m - 1) => q.id \in 0..(n - 1)
  BY <1>1
<1>4. q.id < m /\ -1 <= q.id
  BY <1>1 DEF StageOK
<1> QED BY <1>1, <1>2, <1>3, <1>4, Zenon DEF StageOK

\* One connection moves to a stage that is right: the connections stay well-formed.
LEMMA ConnsMove ==
  ASSUME ConnsOK, ClockOK, NEW c, NEW r, Moves(c, r), peerCounter' \in Nat, peerCounter <= peerCounter',
         StageOK(r, now, peerCounter'), r.id = conns[c].id \/ r.id = peerCounter,
         \A d : d \in channels' <=> IF d = c THEN r.phase = "open" ELSE d \in channels
  PROVE  ConnsOK'
<1>1. /\ conns' \in Seq(Connection) /\ DOMAIN conns' = DOMAIN conns /\ now' = now
      /\ \A d \in DOMAIN conns : conns'[d] = IF d = c THEN r ELSE conns[d]
  BY DEF ConnsOK, Moves, clock
<1>2. channels' = {d \in DOMAIN conns' : conns'[d].phase = "open"}
  BY <1>1, Zenon DEF ConnsOK, Moves
<1>3. ASSUME NEW d \in DOMAIN conns PROVE StageOK(conns'[d], now, peerCounter')
  <2>1. CASE d = c
    BY <1>1, <2>1, Zenon
  <2>2. CASE d # c
    <3>1. StageOK(conns[d], now, peerCounter) /\ conns'[d] = conns[d] /\ conns[d] \in Connection
      BY <1>1, <2>2 DEF ConnsOK
    <3>2. peerCounter \in Nat /\ now \in Nat /\ now <= now
      BY DEF ConnsOK, ClockOK
    <3> QED BY <3>1, <3>2, StageStays, Zenon
  <2> QED BY <2>1, <2>2, Zenon
<1>4. ASSUME NEW d \in DOMAIN conns PROVE conns[d].id \in Int /\ conns[d].id < peerCounter /\ -1 <= conns[d].id
  <2>1. StageOK(conns[d], now, peerCounter) /\ conns[d] \in Connection
    BY DEF ConnsOK
  <2> QED BY <2>1, StageStays DEF ConnsOK, ClockOK
<1>5. ASSUME NEW d \in DOMAIN conns, NEW e \in DOMAIN conns, conns'[d].id = conns'[e].id, d # e
      PROVE  conns'[d].id = -1
  BY <1>1, <1>4, <1>5 DEF ConnsOK, Moves
<1> QED BY <1>1, <1>2, <1>3, <1>5, Zenon DEF ConnsOK

\* A new connection.
LEMMA ConnsGrow ==
  ASSUME ConnsOK, ClockOK, now' = now, NEW a \in Address, NEW dir \in {"in", "out"}, NEW kind \in {"normal", "seed"},
         NEW auto \in BOOLEAN, auto => dir = "out", NEW phase \in Handshaking,
         conns' = Append(conns, NewConnection(a, dir, kind, auto, phase)), UNCHANGED <<channels, peerCounter>>
  PROVE  ConnsOK'
<1>1. PICK r : r = NewConnection(a, dir, kind, auto, phase)
  BY Zenon
<1>2. now \in Nat /\ peerCounter \in Nat /\ conns \in Seq(Connection)
  BY Zenon DEF ClockOK, ConnsOK
<1>3. IsNew(r, a, dir, kind, auto, phase, now) /\ r \in Connection
  <2>1. IsNew(r, a, dir, kind, auto, phase, now)
    BY <1>1, <1>2, NewConnectionType, Zenon
  <2> QED BY <2>1, Zenon DEF IsNew
<1>4. StageOK(r, now, peerCounter) /\ r.phase # "open"
  BY <1>2, <1>3 DEF StageOK, Handshaking, IsNew
<1>5. conns' = Append(conns, r)
  BY <1>1, Zenon
<1>6. /\ conns' \in Seq(Connection) /\ DOMAIN conns' = 1..(Len(conns) + 1) /\ DOMAIN conns = 1..Len(conns)
      /\ conns'[Len(conns) + 1] = r /\ \A d \in DOMAIN conns : conns'[d] = conns[d]
  BY <1>2, <1>3, <1>5
<1>7. ASSUME NEW d \in DOMAIN conns' PROVE StageOK(conns'[d], now, peerCounter)
  <2>1. CASE d = Len(conns) + 1
    BY <1>4, <1>6, <2>1, Zenon
  <2>2. CASE d # Len(conns) + 1
    <3>1. d \in DOMAIN conns
      BY <1>2, <1>6, <2>2
    <3> QED BY <1>6, <3>1, Zenon DEF ConnsOK
  <2> QED BY <2>1, <2>2, Zenon
<1>8. channels = {d \in DOMAIN conns' : conns'[d].phase = "open"}
  <2>1. \A d \in DOMAIN conns' : d \in DOMAIN conns \/ d = Len(conns) + 1
    BY <1>2, <1>6
  <2>2. \A d \in DOMAIN conns : d \in DOMAIN conns'
    BY <1>2, <1>6
  <2> QED BY <1>4, <1>6, <2>1, <2>2, Zenon DEF ConnsOK
<1>9. ASSUME NEW d \in DOMAIN conns', NEW e \in DOMAIN conns', conns'[d].id = conns'[e].id, d # e
      PROVE  conns'[d].id = -1
  <2>1. \A f \in DOMAIN conns' : f \in DOMAIN conns \/ f = Len(conns) + 1
    BY <1>2, <1>6
  <2> QED BY <1>3, <1>6, <1>9, <2>1 DEF ConnsOK, IsNew
<1> QED BY <1>2, <1>6, <1>7, <1>8, <1>9, Zenon DEF ConnsOK

\* Every connection changes, but not in its place.
LEMMA ConnsAll ==
  ASSUME ConnsOK, now' \in Nat, DOMAIN conns' = DOMAIN conns, conns' \in Seq(Connection),
         UNCHANGED <<channels, peerCounter>>,
         \A d \in DOMAIN conns : /\ conns'[d].phase = conns[d].phase /\ conns'[d].id = conns[d].id
                                 /\ StageOK(conns'[d], now', peerCounter)
  PROVE  ConnsOK'
BY Zenon DEF ConnsOK

LivePhases == Handshaking \cup {"open", "removed"}

\* A handshake never starts again, a removed channel is never stored again, and
\* a connection that ends is taken off its counter.
Proceeds(c, r) ==
  /\ Moves(c, r)
  /\ HandshakeOK(conns[c]) => HandshakeOK(r)
  /\ peerCounter' \in Nat /\ peerCounter <= peerCounter' /\ StageOK(r, now, peerCounter')
  /\ r.id = conns[c].id \/ r.id = peerCounter
  /\ \A d : d \in channels' <=> IF d = c THEN r.phase = "open" ELSE d \in channels
  /\ r.phase \in Handshaking => conns[c].phase \in Handshaking
  /\ r.phase = "open" => conns[c].phase \in Handshaking \cup {"open"}
  /\ \/ (conns[c].phase \in LivePhases <=> r.phase \in LivePhases) /\ UNCHANGED counter
     \/ conns[c].phase \in LivePhases /\ r.phase \notin LivePhases /\ NoteClose(c)

\* The connections after one of them moved: the others are as they were.
LEMMA MovedConns ==
  ASSUME ConnsOK, NEW c, NEW r, Moves(c, r)
  PROVE  /\ conns' \in Seq(Connection) /\ DOMAIN conns' = DOMAIN conns
         /\ \A d \in DOMAIN conns : conns'[d] = IF d = c THEN r ELSE conns[d]
BY DEF ConnsOK, Moves

\* A dialled or accepted connection r is added.
Grows(r) ==
  /\ conns' = Append(conns, r) /\ r \in Connection /\ r.phase \in Handshaking /\ r.since = now
  /\ up = "up" /\ UNCHANGED <<clock, up, channels, peerCounter, nextTick, ticking, closes>>

-----------------------------------------------------------------------------
(* The steps of a handshake.                                               *)

\* What changes only once the channel is stored.
Kept(q, r) ==
  /\ Same(q, r) /\ r.id = q.id /\ r.reader = q.reader /\ r.owed = q.owed /\ r.nonce = q.nonce
  /\ r.addrAt = q.addrAt /\ r.disconnecting = q.disconnecting /\ r.heard = q.heard /\ r.ping = q.ping
  /\ r.honest = q.honest /\ r.msg = q.msg

Continues(q, r) ==
  /\ q.phase \in Handshaking /\ r.phase \in Handshaking /\ Kept(q, r) /\ r.ended = q.ended
  /\ HandshakeOK(q) => HandshakeOK(r)

Fails(q, r) ==
  /\ q.phase \in Handshaking /\ r.phase = "failed" /\ Kept(q, r) /\ r.ended = q.ended
  /\ HandshakeOK(q) => HandshakeOK(r)

Stores(q, r, time, id) ==
  /\ q.phase \in Handshaking /\ r.phase = "open" /\ Same(q, r) /\ r.id = id /\ r.heard = time
  /\ r.reader = "reading" /\ r.ping.waits = "timeout" /\ r.ping.at = time
  /\ r.owed = q.owed /\ r.nonce = q.nonce /\ r.addrAt = q.addrAt
  /\ r.disconnecting = q.disconnecting /\ r.ended = q.ended /\ r.honest = q.honest
  /\ HandshakeOK(q) => HandshakeOK(r)

\* Appending to a sequence of one element.
LEMMA TwoElements ==
  ASSUME NEW a, NEW b
  PROVE  Append(<<a>>, b) = <<a, b>>
<1> DEFINE S == {a, b}
<1>1. a \in S /\ b \in S
  BY Zenon
<1> HIDE DEF S
<1>2. PICK o : o = <<a>>
  BY Zenon
<1>3. PICK s : s = Append(o, b)
  BY Zenon
<1>4. s \in Seq(S) /\ Len(s) = 2 /\ s[1] = a /\ s[2] = b
  <2>1. o \in Seq(S)
    BY <1>1, <1>2
  <2>2. Len(o) = 1 /\ o[1] = a
    BY <1>2, Zenon
  <2> QED BY <1>1, <1>3, <2>1, <2>2
<1>5. PICK t : t = <<a, b>>
  BY Zenon
<1>6. t \in Seq(S)
  BY <1>1, <1>5
<1>7. Len(t) = 2 /\ t[1] = a /\ t[2] = b
  BY <1>5, Zenon
<1>8. \A i \in 1..Len(s) : s[i] = t[i]
  BY <1>4, <1>7
<1>9. s = t
  <2>1. s = [i \in 1..Len(s) |-> s[i]]
    BY <1>4
  <2>2. t = [i \in 1..Len(t) |-> t[i]]
    BY <1>6
  <2> QED BY <1>4, <1>7, <1>8, <2>1, <2>2, Zenon
<1> QED BY <1>2, <1>3, <1>5, <1>9, Zenon

\* The messages a handshake sends, one after the other.
LEMMA Greetings ==
  /\ Append(<<>>, "version") = <<"version">>
  /\ Append(<<"version">>, "verack") = <<"version", "verack">>
  /\ Append(<<"version", "verack">>, "getaddr") = <<"version", "verack">> \o <<"getaddr">>
  /\ <<"version", "verack">> \o <<>> = <<"version", "verack">>
<1>1. Append(<<>>, "version") = <<"version">>
  OBVIOUS
<1>2. Append(<<"version">>, "verack") = <<"version", "verack">>
  BY TwoElements, Zenon
<1>3. Append(<<"version", "verack">>, "getaddr") = <<"version", "verack">> \o <<"getaddr">>
  OBVIOUS
<1>4. <<"version", "verack">> \o <<>> = <<"version", "verack">>
  OBVIOUS
<1> QED BY <1>1, <1>2, <1>3, <1>4, Zenon

\* The TCP connection is there: the handshake goes on.
LEMMA TcpStep ==
  ASSUME NEW q \in Connection, q.phase = "tcp", NEW r, r = [q EXCEPT !.phase = "sendVersion"]
  PROVE  r \in Connection /\ Continues(q, r)
<1>1. "sendVersion" \in Phases
  BY Zenon DEF Phases, Handshaking
<1>2. r \in Connection
  BY <1>1, Zenon DEF Connection
<1>3. Kept(q, r) /\ r.ended = q.ended /\ r.sent = q.sent /\ r.version = q.version /\ r.phase = "sendVersion"
  BY Zenon DEF Connection, Kept, Same
<1>4. HandshakeOK(q) => HandshakeOK(r)
  BY <1>3, Zenon DEF HandshakeOK, Kept, Same
<1> QED BY <1>2, <1>3, <1>4, Zenon DEF Continues, Handshaking

\* A version or a verack is written: the handshake goes on.
LEMMA WriteStep ==
  ASSUME NEW q \in Connection, NEW ph \in Handshaking, NEW k \in Commands, NEW r,
         r = [q EXCEPT !.phase = ph, !.sent = Append(@, k)],
         \/ q.phase = "sendVersion" /\ k = "version"
            /\ ph = IF q.dir = "out" THEN "receiveVersion" ELSE "sendVerack"
         \/ q.phase = "sendVerack" /\ q.dir = "out" /\ k = "verack" /\ ph = "receiveVerack"
  PROVE  r \in Connection /\ Continues(q, r)
<1>1. ph \in Phases
  BY Zenon DEF Phases, Handshaking
<1>2. q.sent \in Seq(Commands)
  BY Zenon DEF Connection
<1>3. PICK t \in Seq(Commands) : t = Append(q.sent, k)
  BY <1>2, SentType, Zenon
<1>4. r = [q EXCEPT !.phase = ph, !.sent = t]
  BY <1>3, Zenon
<1>5. r \in Connection
  BY <1>1, <1>4, ZenonT(60) DEF Connection
<1>6. Kept(q, r) /\ r.ended = q.ended /\ r.sent = t /\ r.version = q.version /\ r.phase = ph /\ r.dir = q.dir
  BY <1>4, ZenonT(60) DEF Connection, Kept, Same
<1>7. HandshakeOK(q) => HandshakeOK(r)
  <2> SUFFICES ASSUME HandshakeOK(q) PROVE HandshakeOK(r)
    BY Zenon
  <2>1. q.dir \in {"in", "out"}
    BY Zenon DEF Connection
  <2>2. q.phase = "sendVersion" => t = <<"version">>
    BY <1>3, Greetings, Zenon DEF HandshakeOK
  <2>3. q.phase = "sendVerack" => t = <<"version", "verack">>
    BY <1>3, Greetings, Zenon DEF HandshakeOK
  <2> QED BY <1>6, <2>1, <2>2, <2>3, Zenon DEF HandshakeOK
<1> QED BY <1>5, <1>6, <1>7, Zenon DEF Continues, Handshaking

\* A version of a supported peer is read: the handshake goes on.
LEMMA VersionStep ==
  ASSUME NEW q \in Connection, q.phase = "receiveVersion", NEW v \in Int, v >= ProtocolMinimum, NEW sv \in ServiceSets,
         NEW r, r = [q EXCEPT !.phase = IF q.dir = "out" THEN "sendVerack" ELSE "sendVersion",
                              !.version = NegotiateVersion(ProtocolVersion, v), !.services = sv]
  PROVE  r \in Connection /\ Continues(q, r)
<1>1. PICK ph \in Phases : ph = IF q.dir = "out" THEN "sendVerack" ELSE "sendVersion"
  BY Zenon DEF Phases, Handshaking
<1>2. PICK n \in Int : n = NegotiateVersion(ProtocolVersion, v) /\ n \in ProtocolMinimum..ProtocolVersion
  BY VersionsAssumption DEF NegotiateVersion
<1>3. r = [q EXCEPT !.phase = ph, !.version = n, !.services = sv]
  BY <1>1, <1>2, Zenon
<1>4. r \in Connection
  BY <1>3, ZenonT(60) DEF Connection
<1>5. Kept(q, r) /\ r.ended = q.ended /\ r.sent = q.sent /\ r.version = n /\ r.phase = ph /\ r.dir = q.dir
  BY <1>3, ZenonT(60) DEF Connection, Kept, Same
<1>6. HandshakeOK(q) => HandshakeOK(r)
  <2>1. q.dir \in {"in", "out"}
    BY Zenon DEF Connection
  <2> QED BY <1>1, <1>2, <1>5, <2>1, Zenon DEF HandshakeOK
<1> QED BY <1>1, <1>4, <1>5, <1>6, Zenon DEF Continues, Handshaking

\* A handshake that breaks or times out fails the connection.
LEMMA FailStep ==
  ASSUME NEW q \in Connection, q.phase \in Handshaking, NEW r, r = [q EXCEPT !.phase = "failed"]
  PROVE  r \in Connection /\ Fails(q, r)
<1>1. "failed" \in Phases
  BY Zenon DEF Phases, Handshaking
<1>2. r \in Connection
  BY <1>1, Zenon DEF Connection
<1>3. Kept(q, r) /\ r.ended = q.ended /\ r.sent = q.sent /\ r.version = q.version /\ r.phase = "failed"
  BY Zenon DEF Connection, Kept, Same
<1> QED BY <1>2, <1>3, Zenon DEF Fails, HandshakeOK

\* A whole handshake stores the connection.
LEMMA StoreStep ==
  ASSUME now \in Nat, NEW id \in Nat, NEW q \in Connection, NEW x \in Connection, Kept(q, x), x.ended = q.ended,
         x.version = q.version,
         \/ q.phase = "receiveVerack" /\ x = q
         \/ q.phase = "sendVerack" /\ q.dir = "in" /\ x.sent = Append(q.sent, "verack"),
         NEW r, r = Initialize([x EXCEPT !.phase = "open", !.id = id, !.heard = now, !.reader = "reading",
                                         !.ping = [waits |-> "timeout", at |-> now]])
  PROVE  r \in Connection /\ Stores(q, r, now, id)
<1>1. IsStored(x, r, id, now)
  BY StoredType, Zenon
<1>2. HandshakeOK(q) => HandshakeOK(r)
  <2> SUFFICES ASSUME HandshakeOK(q) PROVE HandshakeOK(r)
    BY Zenon
  <2>1. q.dir \in {"in", "out"} /\ r.dir = q.dir /\ x.dir = q.dir
    BY <1>1, ZenonT(60) DEF Connection, Kept, Same, IsStored
  <2>2. r.version \in ProtocolMinimum..ProtocolVersion
    BY <1>1, Zenon DEF HandshakeOK, IsStored
  <2>3. x.sent = <<"version", "verack">>
    BY Greetings, Zenon DEF HandshakeOK
  <2>4. q.dir = "in" => q.phase # "receiveVerack"
    BY Zenon DEF HandshakeOK
  <2>5. r.sent = <<"version", "verack">> \o (IF r.dir = "out" THEN <<"getaddr">> ELSE <<>>)
    BY <1>1, <2>1, <2>3, Greetings, Zenon DEF IsStored
  <2> QED BY <1>1, <2>1, <2>2, <2>5, Zenon DEF HandshakeOK, IsStored
<1> QED BY <1>1, <1>2, ZenonT(60) DEF Stores, Kept, Same, Handshaking, IsStored

-----------------------------------------------------------------------------
(* The steps of a stored connection.                                       *)

\* What a step of a stored connection leaves alone.
Stays(q, r) == Same(q, r) /\ r.id = q.id /\ r.sent = q.sent /\ r.version = q.version

\* A channel taken out of the map (Connections::remove).
LEMMA RemovedType ==
  ASSUME NEW q \in Connection, NEW f \in BOOLEAN, NEW r, r = [q EXCEPT !.phase = "removed", !.failed = f]
  PROVE  r \in Connection /\ Stays(q, r) /\ Kept(q, r) /\ r.phase = "removed" /\ r.ended = q.ended
<1>1. "removed" \in Phases
  BY Zenon DEF Phases
<1>2. r \in Connection
  BY <1>1, ZenonT(60) DEF Connection
<1> QED BY <1>2, ZenonT(60) DEF Connection, Stays, Kept, Same

\* A channel shut down and its session's on_close run.
LEMMA EndedType ==
  ASSUME NEW q \in Connection, NEW r, r = Ended(q)
  PROVE  r \in Connection /\ Stays(q, r) /\ Kept(q, r) /\ r.phase = "closed" /\ r.ended = q.ended + 1
<1>1. PICK n \in Nat : n = q.ended + 1
  BY DEF Connection
<1>2. r = [q EXCEPT !.phase = "closed", !.ended = n] /\ "closed" \in Phases
  BY <1>1, Zenon DEF Ended, Phases
<1>3. r \in Connection
  BY <1>2, ZenonT(60) DEF Connection
<1> QED BY <1>1, <1>2, <1>3, ZenonT(60) DEF Connection, Stays, Kept, Same

\* A connection the synchronizer asks to close is not held to the promise to punctual peers.
LEMMA GivenUpType ==
  ASSUME NEW q \in Connection, NEW r, r = [q EXCEPT !.honest = FALSE]
  PROVE  /\ r \in Connection /\ Stays(q, r) /\ r.phase = q.phase /\ r.ended = q.ended /\ r.honest = FALSE
         /\ r.reader = q.reader /\ r.owed = q.owed /\ r.nonce = q.nonce /\ r.addrAt = q.addrAt
         /\ r.disconnecting = q.disconnecting /\ r.heard = q.heard /\ r.ping = q.ping /\ r.msg = q.msg
<1>1. r \in Connection
  BY ZenonT(60) DEF Connection
<1> QED BY <1>1, ZenonT(60) DEF Connection, Stays, Same

\* A read error stops the reader.
LEMMA StoppedType ==
  ASSUME NEW q \in Connection, NEW r, r = [q EXCEPT !.reader = "stopped", !.honest = FALSE]
  PROVE  /\ r \in Connection /\ Stays(q, r) /\ r.phase = q.phase /\ r.ended = q.ended /\ r.honest = FALSE
         /\ r.reader = "stopped" /\ r.ping = q.ping /\ r.heard = q.heard
<1>1. r \in Connection
  BY ZenonT(60) DEF Connection
<1> QED BY <1>1, ZenonT(60) DEF Connection, Stays, Same

\* A session that returns an error stops the reader, after the ping session heard the peer.
LEMMA RefusedType ==
  ASSUME now \in Nat, NEW q \in Connection, NEW r, r = [PingOnMessage(q) EXCEPT !.reader = "stopped"]
  PROVE  /\ r \in Connection /\ Stays(q, r) /\ r.phase = q.phase /\ r.ended = q.ended /\ r.honest = q.honest
         /\ r.reader = "stopped" /\ r.ping.at = now /\ r.heard = now
<1>1. PICK x : x = PingOnMessage(q)
  BY Zenon
<1>2. /\ x \in Connection /\ Same(q, x) /\ x.phase = q.phase /\ x.sent = q.sent /\ x.version = q.version
      /\ x.id = q.id /\ x.ended = q.ended /\ x.honest = q.honest /\ x.heard = now /\ x.ping.at = now
  BY <1>1, HandledType, ZenonT(60)
<1>3. r = [x EXCEPT !.reader = "stopped"]
  BY <1>1, Zenon
<1>4. r \in Connection
  BY <1>2, <1>3, ZenonT(60) DEF Connection
<1>5. Stays(x, r) /\ r.phase = x.phase /\ r.ended = x.ended /\ r.honest = x.honest
      /\ r.reader = "stopped" /\ r.ping = x.ping /\ r.heard = x.heard
  BY <1>2, <1>3, ZenonT(60) DEF Connection, Stays, Same
<1> QED BY <1>2, <1>4, <1>5, Zenon DEF Stays, Same

\* A message all sessions accept: the ping session heard the peer, the reader goes on.
LEMMA AcceptedType ==
  ASSUME now \in Nat, NEW q \in Connection,
         NEW r, r = [SeednodeOnMessage(PingOnMessage(q)) EXCEPT !.reader = "reading"]
  PROVE  /\ r \in Connection /\ Stays(q, r) /\ r.phase = q.phase /\ r.ended = q.ended /\ r.honest = q.honest
         /\ r.reader = "reading" /\ r.ping.at = now /\ r.ping.waits = "timeout" /\ r.heard = now
         /\ r.owed = q.owed /\ r.addrAt = q.addrAt /\ r.msg = q.msg
         /\ r.nonce = (IF q.msg.command = "pong" THEN 0 ELSE q.nonce)
         /\ r.disconnecting = (q.disconnecting \/ (q.kind = "seed" /\ q.msg.command = "addr"))
         /\ SeednodeOnMessage(PingOnMessage(q)).disconnecting = r.disconnecting
<1>1. PICK x : x = PingOnMessage(q)
  BY Zenon
<1>2. PICK y : y = SeednodeOnMessage(x)
  BY Zenon
<1>3. /\ x \in Connection /\ Same(q, x) /\ x.phase = q.phase /\ x.sent = q.sent /\ x.version = q.version
      /\ x.id = q.id /\ x.owed = q.owed /\ x.addrAt = q.addrAt /\ x.ended = q.ended /\ x.honest = q.honest
      /\ x.heard = now /\ x.ping.waits = "timeout" /\ x.ping.at = now /\ x.reader = q.reader /\ x.msg = q.msg
      /\ x.nonce = (IF q.msg.command = "pong" THEN 0 ELSE q.nonce)
      /\ x.disconnecting = q.disconnecting
      /\ y = IF q.kind = "seed" /\ q.msg.command = "addr" /\ ~q.disconnecting
             THEN [x EXCEPT !.disconnecting = TRUE] ELSE x
  BY <1>1, <1>2, HandledType
<1>4. PICK b \in BOOLEAN : b = (q.disconnecting \/ (q.kind = "seed" /\ q.msg.command = "addr"))
  BY Zenon
<1>5. q.disconnecting \in BOOLEAN
  BY Zenon DEF Connection
<1>6. y \in Connection /\ y = [x EXCEPT !.disconnecting = b]
  <2>1. CASE q.kind = "seed" /\ q.msg.command = "addr" /\ ~q.disconnecting
    BY <1>3, <1>4, <2>1, ZenonT(60) DEF Connection
  <2>2. CASE ~(q.kind = "seed" /\ q.msg.command = "addr" /\ ~q.disconnecting)
    <3>1. b = x.disconnecting
      BY <1>3, <1>4, <1>5, <2>2, Zenon
    <3>2. y = x
      BY <1>3, <2>2, Zenon
    <3> QED BY <1>3, <3>1, <3>2, ZenonT(60) DEF Connection
  <2> QED BY <2>1, <2>2, Zenon
<1>7. r = [x EXCEPT !.disconnecting = b, !.reader = "reading"]
  BY <1>1, <1>2, <1>6, <1>3 DEF Connection
<1>8. r \in Connection
  BY <1>3, <1>7, ZenonT(60) DEF Connection
<1>9. /\ Stays(x, r) /\ r.phase = x.phase /\ r.ended = x.ended /\ r.honest = x.honest
      /\ r.reader = "reading" /\ r.ping = x.ping /\ r.heard = x.heard /\ r.owed = x.owed /\ r.addrAt = x.addrAt
      /\ r.msg = x.msg /\ r.nonce = x.nonce /\ r.disconnecting = b
  BY <1>3, <1>7, ZenonT(60) DEF Connection, Stays, Same
<1>10. y.disconnecting = b
  BY <1>3, <1>6, Zenon DEF Connection
<1> QED BY <1>1, <1>2, <1>3, <1>4, <1>8, <1>9, <1>10, ZenonT(60) DEF Stays, Same

\* A unit of time passes: a peer that lets a ping wait too long is no longer punctual.
LEMMA LaterType ==
  ASSUME NEW q \in Connection, NEW r, r = Later(q)
  PROVE  /\ r \in Connection /\ Stays(q, r) /\ Same(q, r) /\ r.phase = q.phase /\ r.ended = q.ended
         /\ r.reader = q.reader /\ r.owed = q.owed /\ r.nonce = q.nonce /\ r.addrAt = q.addrAt
         /\ r.disconnecting = q.disconnecting /\ r.heard = q.heard /\ r.ping = q.ping /\ r.msg = q.msg
         /\ r.honest = (q.honest /\ \A p \in q.owed : now + 1 - p.at <= MaxPingResponse)
<1>1. PICK h \in BOOLEAN : h = (q.honest /\ \A p \in q.owed : now + 1 - p.at <= MaxPingResponse)
  BY Zenon
<1>2. r = [q EXCEPT !.honest = h]
  BY <1>1, Zenon DEF Later
<1>3. r \in Connection
  BY <1>2, ZenonT(60) DEF Connection
<1> QED BY <1>1, <1>2, <1>3, ZenonT(60) DEF Connection, Stays, Same

-----------------------------------------------------------------------------
(* The actions that are a step of one connection.                          *)

\* What the invariant says of one connection.
LEMMA Present ==
  ASSUME ConnsOK, ClockOK, NEW c \in DOMAIN conns
  PROVE  /\ conns[c] \in Connection /\ StageOK(conns[c], now, peerCounter)
         /\ now \in Nat /\ peerCounter \in Nat
         /\ c \in channels <=> conns[c].phase = "open"
         /\ conns[c].phase \in Phases /\ conns[c].ping.at \in Nat /\ conns[c].heard \in Nat /\ conns[c].id \in Int
<1>1. conns[c] \in Connection
  BY DEF ConnsOK
<1> QED BY <1>1, Zenon DEF ConnsOK, ClockOK, Connection

\* A handshake that goes on is one connection proceeding.
LEMMA ContinueProceeds ==
  ASSUME ConnsOK, ClockOK, NEW c \in DOMAIN conns, NEW r \in Connection, Continues(conns[c], r),
         conns' = [conns EXCEPT ![c] = r], up = "up", UNCHANGED <<clock, up, tick, channels, peerCounter, counter>>
  PROVE  Proceeds(c, r)
<1> DEFINE q == conns[c]
<1>1. /\ StageOK(q, now, peerCounter) /\ now \in Nat /\ peerCounter \in Nat
      /\ c \in channels <=> q.phase = "open"
  BY Present, Zenon
<1>2. q.phase \in Handshaking /\ r.phase \in Handshaking /\ Kept(q, r) /\ r.ended = q.ended
  BY Zenon DEF Continues
<1> HIDE DEF q
<1>3. StageOK(r, now, peerCounter)
  <2>1. q.phase # "closed" /\ r.phase # "closed"
    BY <1>2, Zenon DEF Handshaking
  <2> QED BY <1>1, <1>2, <2>1, Zenon DEF StageOK, Kept, Same
<1>4. q.phase # "open" /\ r.phase # "open" /\ q.phase \in LivePhases /\ r.phase \in LivePhases
  BY <1>2, Zenon DEF Handshaking, LivePhases
<1>5. Moves(c, r)
  BY <1>2, Zenon DEF Moves, Kept, q
<1>6. HandshakeOK(q) => HandshakeOK(r)
  BY Zenon DEF Continues, q
<1>7. \A d : d \in channels' <=> IF d = c THEN r.phase = "open" ELSE d \in channels
  BY <1>1, <1>4, Zenon
<1> QED BY <1>1, <1>2, <1>3, <1>4, <1>5, <1>6, <1>7 DEF Proceeds, Kept, q

\* A handshake that fails is one connection proceeding: its counter goes down.
LEMMA FailProceeds ==
  ASSUME ConnsOK, ClockOK, NEW c \in DOMAIN conns, NEW r \in Connection, Fails(conns[c], r),
         conns' = [conns EXCEPT ![c] = r], up = "up", UNCHANGED <<clock, up, tick, channels, peerCounter>>, NoteClose(c)
  PROVE  Proceeds(c, r)
<1> DEFINE q == conns[c]
<1>1. /\ StageOK(q, now, peerCounter) /\ now \in Nat /\ peerCounter \in Nat
      /\ c \in channels <=> q.phase = "open"
  BY Present, Zenon
<1>2. q.phase \in Handshaking /\ r.phase = "failed" /\ Kept(q, r) /\ r.ended = q.ended
  BY Zenon DEF Fails
<1> HIDE DEF q
<1>3. StageOK(r, now, peerCounter)
  <2>1. q.phase # "closed"
    BY <1>2, Zenon DEF Handshaking
  <2> QED BY <1>1, <1>2, <2>1, Zenon DEF StageOK, Kept, Same
<1>4. q.phase # "open" /\ r.phase # "open" /\ q.phase \in LivePhases /\ r.phase \notin LivePhases /\ r.phase \notin Handshaking
  BY <1>2, Zenon DEF Handshaking, LivePhases
<1>5. Moves(c, r)
  BY <1>2, Zenon DEF Moves, Kept, q
<1>6. HandshakeOK(q) => HandshakeOK(r)
  BY Zenon DEF Fails, q
<1>7. \A d : d \in channels' <=> IF d = c THEN r.phase = "open" ELSE d \in channels
  BY <1>1, <1>4, Zenon
<1> QED BY <1>1, <1>2, <1>3, <1>4, <1>5, <1>6, <1>7 DEF Proceeds, Kept, q

\* A channel stored is one connection proceeding.
LEMMA StoreProceeds ==
  ASSUME ConnsOK, ClockOK, NEW c \in DOMAIN conns, NEW r \in Connection, Stores(conns[c], r, now, peerCounter),
         conns' = [conns EXCEPT ![c] = r], up = "up", UNCHANGED <<clock, up, tick, counter>>,
         channels' = channels \cup {c}, peerCounter' = peerCounter + 1
  PROVE  Proceeds(c, r)
<1> DEFINE q == conns[c]
<1>1. /\ StageOK(q, now, peerCounter) /\ now \in Nat /\ peerCounter \in Nat
  BY Present, Zenon
<1>2. Stores(q, r, now, peerCounter)
  BY Zenon
<1> HIDE DEF q
<1>3. StageOK(r, now, peerCounter + 1)
  <2>1. q.phase # "closed"
    BY <1>2, Zenon DEF Handshaking, Stores
  <2>2. peerCounter \in 0..(peerCounter + 1 - 1)
    BY <1>1
  <2>3. r.phase \notin Handshaking \cup {"failed"}
    BY <1>2, Zenon DEF Handshaking, Stores
  <2> QED BY <1>1, <1>2, <2>1, <2>2, <2>3 DEF StageOK, Stores, Same
<1>4. r.phase = "open" /\ q.phase \in LivePhases /\ r.phase \in LivePhases /\ q.phase \in Handshaking
  BY <1>2, Zenon DEF Handshaking, LivePhases, Stores
<1>5. Moves(c, r)
  BY <1>2, Zenon DEF Moves, Stores, q
<1>6. HandshakeOK(q) => HandshakeOK(r)
  BY <1>2, Zenon DEF Stores
<1>7. \A d : d \in channels' <=> IF d = c THEN r.phase = "open" ELSE d \in channels
  BY <1>4, Zenon
<1>8. r.id = peerCounter
  BY <1>2, Zenon DEF Stores
<1> QED BY <1>1, <1>3, <1>4, <1>5, <1>6, <1>7, <1>8 DEF Proceeds, q

\* A stored connection goes on, is taken out of the map, or ends.
LEMMA StoredProceeds ==
  ASSUME ConnsOK, ClockOK, NEW c \in DOMAIN conns, NEW r \in Connection, Stays(conns[c], r),
         conns[c].phase \notin Handshaking \cup {"failed"},
         r.reader # "none", r.heard <= now, r.ping.at <= now,
         conns' = [conns EXCEPT ![c] = r], up = "up", UNCHANGED <<clock, up, tick, peerCounter>>,
         \/ /\ r.phase = conns[c].phase /\ r.ended = conns[c].ended /\ UNCHANGED <<channels, counter>>
         \/ /\ conns[c].phase = "open" /\ r.phase = "removed" /\ r.ended = conns[c].ended
            /\ channels' = channels \ {c} /\ UNCHANGED counter
         \/ /\ conns[c].phase = "removed" /\ r.phase = "closed" /\ r.ended = conns[c].ended + 1
            /\ UNCHANGED channels /\ NoteClose(c)
  PROVE  Proceeds(c, r)
<1> DEFINE q == conns[c]
<1>1. /\ StageOK(q, now, peerCounter) /\ now \in Nat /\ peerCounter \in Nat
      /\ c \in channels <=> q.phase = "open"
      /\ q \in Connection
  BY Present, Zenon
<1>2. /\ Stays(q, r) /\ q.phase \notin Handshaking \cup {"failed"}
      /\ \/ r.phase = q.phase /\ r.ended = q.ended /\ UNCHANGED <<channels, counter>>
         \/ /\ q.phase = "open" /\ r.phase = "removed" /\ r.ended = q.ended
            /\ channels' = channels \ {c} /\ UNCHANGED counter
         \/ /\ q.phase = "removed" /\ r.phase = "closed" /\ r.ended = q.ended + 1
            /\ UNCHANGED channels /\ NoteClose(c)
  BY Zenon
<1> HIDE DEF q
<1>3. r.phase \notin Handshaking \cup {"failed"} /\ (r.phase = "open" => q.phase = "open")
  BY <1>2, Zenon DEF Handshaking
<1>4. r.ended = IF r.phase = "closed" THEN 1 ELSE 0
  BY <1>1, <1>2 DEF StageOK
<1>5. StageOK(r, now, peerCounter)
  BY <1>1, <1>2, <1>3, <1>4, Zenon DEF StageOK, Stays, Same
<1>6. Moves(c, r)
  BY <1>2, Zenon DEF Moves, Stays, q
<1>7. HandshakeOK(q) => HandshakeOK(r)
  BY <1>2, <1>3, Zenon DEF HandshakeOK, Stays, Same, Handshaking
<1>8. \A d : d \in channels' <=> IF d = c THEN r.phase = "open" ELSE d \in channels
  BY <1>1, <1>2, Zenon
<1>9. \/ (q.phase \in LivePhases <=> r.phase \in LivePhases) /\ UNCHANGED counter
      \/ q.phase \in LivePhases /\ r.phase \notin LivePhases /\ NoteClose(c)
  BY <1>2, Zenon DEF LivePhases, Handshaking
<1> QED BY <1>1, <1>2, <1>3, <1>5, <1>6, <1>7, <1>8, <1>9 DEF Proceeds, Stays, q

\* A step of the handshake of c: it goes on, ends in a stored channel, or fails.
Greets(c, r) ==
  /\ Proceeds(c, r) /\ closes' = closes
  /\ Continues(conns[c], r) \/ Fails(conns[c], r) \/ Stores(conns[c], r, now, peerCounter)

\* A handshake that goes on leaves the pending closes alone.
LEMMA ContinueGreets ==
  ASSUME ConnsOK, ClockOK, NEW c \in DOMAIN conns, NEW r \in Connection, Continues(conns[c], r), Continue(c, r),
         up = "up", UNCHANGED <<clock, up, tick, closes>>
  PROVE  Greets(c, r)
<1>1. conns' = [conns EXCEPT ![c] = r] /\ UNCHANGED <<channels, peerCounter, counter>>
  BY Zenon DEF Continue
<1>2. Proceeds(c, r)
  BY <1>1, ContinueProceeds, Zenon
<1> QED BY <1>2, Zenon DEF Greets

\* A channel stored leaves the pending closes alone.
LEMMA StoreGreets ==
  ASSUME ConnsOK, ClockOK, NEW c \in DOMAIN conns, NEW x \in Connection, Kept(conns[c], x), x.ended = conns[c].ended,
         x.version = conns[c].version,
         \/ conns[c].phase = "receiveVerack" /\ x = conns[c]
         \/ conns[c].phase = "sendVerack" /\ conns[c].dir = "in" /\ x.sent = Append(conns[c].sent, "verack"),
         StoreChannel(c, x), up = "up", UNCHANGED <<clock, up, tick, closes>>
  PROVE  \E r : Greets(c, r)
<1>1. PICK r : r = Initialize([x EXCEPT !.phase = "open", !.id = peerCounter, !.heard = now, !.reader = "reading",
                                        !.ping = [waits |-> "timeout", at |-> now]])
  BY Zenon
<1>2. now \in Nat /\ peerCounter \in Nat /\ conns[c] \in Connection
  BY Present, Zenon
<1>3. r \in Connection /\ Stores(conns[c], r, now, peerCounter)
  BY <1>1, <1>2, StoreStep, Zenon
<1>4. /\ conns' = [conns EXCEPT ![c] = r] /\ channels' = channels \cup {c} /\ peerCounter' = peerCounter + 1
      /\ UNCHANGED counter
  BY <1>1, Zenon DEF StoreChannel
<1>5. Proceeds(c, r)
  BY <1>3, <1>4, StoreProceeds, Zenon
<1> QED BY <1>3, <1>5, Zenon DEF Greets

\* A handshake that fails leaves the pending closes alone.
LEMMA FailGreets ==
  ASSUME ConnsOK, ClockOK, NEW c \in DOMAIN conns, conns[c].phase \in Handshaking, HandshakeFailed(c),
         up = "up", UNCHANGED <<clock, up, tick, closes>>
  PROVE  \E r : Greets(c, r)
<1>1. PICK r : r = [conns[c] EXCEPT !.phase = "failed"]
  BY Zenon
<1>2. conns[c] \in Connection
  BY Present, Zenon
<1>3. r \in Connection /\ Fails(conns[c], r)
  BY <1>1, <1>2, FailStep, Zenon
<1>4. conns' = [conns EXCEPT ![c] = r] /\ NoteClose(c) /\ UNCHANGED <<channels, peerCounter>>
  BY <1>1, Zenon DEF HandshakeFailed
<1>5. Proceeds(c, r)
  BY <1>3, <1>4, FailProceeds, Zenon
<1> QED BY <1>3, <1>5, Zenon DEF Greets

\* Handshake::poll writing: one connection proceeds with its handshake.
LEMMA HandshakeWriteEffect ==
  ASSUME ConnsOK, ClockOK, NEW c \in DOMAIN conns, HandshakeWrite(c)
  PROVE  \E r : Greets(c, r)
<1> DEFINE q == conns[c]
<1>1. q \in Connection /\ q.dir \in {"in", "out"}
  <2>1. q \in Connection
    BY Present, Zenon
  <2> QED BY <2>1, Zenon DEF Connection
<1>2. up = "up" /\ UNCHANGED <<clock, up, tick, closes>>
  BY Zenon DEF HandshakeWrite
<1>3. /\ q.phase \in {"tcp", "sendVersion", "sendVerack"}
      /\ q.phase = "tcp" => Continue(c, [q EXCEPT !.phase = "sendVersion"])
      /\ q.phase = "sendVersion" =>
           Continue(c, [q EXCEPT !.phase = IF q.dir = "out" THEN "receiveVersion" ELSE "sendVerack",
                                 !.sent = Append(@, "version")])
      /\ q.phase = "sendVerack" /\ q.dir = "out" =>
           Continue(c, [q EXCEPT !.phase = "receiveVerack", !.sent = Append(@, "verack")])
      /\ q.phase = "sendVerack" /\ q.dir = "in" => StoreChannel(c, [q EXCEPT !.sent = Append(@, "verack")])
  BY Zenon DEF HandshakeWrite
<1> HIDE DEF q
<1>4. CASE q.phase = "tcp"
  <2>1. PICK r : r = [q EXCEPT !.phase = "sendVersion"]
    BY Zenon
  <2>2. r \in Connection /\ Continues(q, r) /\ Continue(c, r)
    BY <1>1, <1>3, <1>4, <2>1, TcpStep, Zenon
  <2> QED BY <1>2, <2>2, ContinueGreets, Zenon DEF q
<1>5. CASE q.phase = "sendVersion"
  <2>1. PICK ph \in Handshaking : ph = IF q.dir = "out" THEN "receiveVersion" ELSE "sendVerack"
    BY Zenon DEF Handshaking
  <2>2. PICK r : r = [q EXCEPT !.phase = ph, !.sent = Append(@, "version")]
    BY Zenon
  <2>3. "version" \in Commands
    BY Zenon DEF Commands
  <2>4. r \in Connection /\ Continues(q, r)
    BY <1>1, <1>5, <2>1, <2>2, <2>3, WriteStep, Zenon
  <2>5. Continue(c, r)
    BY <1>3, <1>5, <2>1, <2>2, Zenon
  <2> QED BY <1>2, <2>4, <2>5, ContinueGreets, Zenon DEF q
<1>6. CASE q.phase = "sendVerack" /\ q.dir = "out"
  <2>1. "receiveVerack" \in Handshaking /\ "verack" \in Commands
    BY Zenon DEF Handshaking, Commands
  <2>2. PICK r : r = [q EXCEPT !.phase = "receiveVerack", !.sent = Append(@, "verack")]
    BY Zenon
  <2>4. r \in Connection /\ Continues(q, r)
    BY <1>1, <1>6, <2>1, <2>2, WriteStep, Zenon
  <2>5. Continue(c, r)
    BY <1>3, <1>6, <2>2, Zenon
  <2> QED BY <1>2, <2>4, <2>5, ContinueGreets, Zenon DEF q
<1>7. CASE q.phase = "sendVerack" /\ q.dir = "in"
  <2>1. PICK t \in Seq(Commands) : t = Append(q.sent, "verack")
    <3>1. q.sent \in Seq(Commands) /\ "verack" \in Commands
      BY <1>1, Zenon DEF Connection, Commands
    <3> QED BY <3>1, SentType, Zenon
  <2>2. PICK x : x = [q EXCEPT !.sent = t]
    BY Zenon
  <2>3. x \in Connection
    BY <1>1, <2>2, Zenon DEF Connection
  <2>4. Kept(q, x) /\ x.ended = q.ended /\ x.version = q.version /\ x.sent = t
    BY <1>1, <2>2, Zenon DEF Connection, Kept, Same
  <2>5. StoreChannel(c, x)
    BY <1>3, <1>7, <2>1, <2>2, Zenon
  <2> QED BY <1>2, <1>7, <2>1, <2>3, <2>4, <2>5, StoreGreets, Zenon DEF q
<1> QED BY <1>1, <1>3, <1>4, <1>5, <1>6, <1>7, Zenon

\* Handshake::poll reading a version: one connection proceeds with its handshake.
LEMMA ReceiveVersionEffect ==
  ASSUME ConnsOK, ClockOK, NEW c \in DOMAIN conns, NEW v \in world.versions, ReceiveVersion(c, v)
  PROVE  \E r : Greets(c, r)
<1> DEFINE q == conns[c]
<1>1. q \in Connection
  BY Present, Zenon
<1>2. up = "up" /\ UNCHANGED <<clock, up, tick, closes>> /\ q.phase = "receiveVersion" /\ q.phase \in Handshaking
  BY Zenon DEF ReceiveVersion, Handshaking
<1>3. v.version \in Int /\ v.services \in ServiceSets
  BY WorldsAssumption, Zenon DEF ClockOK, WorldOK
<1>4. CASE ReadMessage(v, "version") /\ Acceptable(v)
  <2>1. PICK r : r = [q EXCEPT !.phase = IF q.dir = "out" THEN "sendVerack" ELSE "sendVersion",
                               !.version = NegotiateVersion(ProtocolVersion, v.version), !.services = v.services]
    BY Zenon
  <2>2. v.version >= ProtocolMinimum
    BY <1>4, Zenon DEF Acceptable
  <2>3. r \in Connection /\ Continues(q, r)
    BY <1>1, <1>2, <1>3, <2>1, <2>2, VersionStep, Zenon
  <2>4. Continue(c, r)
    BY <1>4, <2>1, Zenon DEF ReceiveVersion
  <2> QED BY <1>2, <2>3, <2>4, ContinueGreets, Zenon
<1>5. CASE ~(ReadMessage(v, "version") /\ Acceptable(v))
  <2>1. HandshakeFailed(c)
    BY <1>5, Zenon DEF ReceiveVersion
  <2> QED BY <1>2, <2>1, FailGreets, Zenon
<1> QED BY <1>4, <1>5, Zenon

\* Handshake::poll reading the verack: one connection proceeds with its handshake.
LEMMA ReceiveVerackEffect ==
  ASSUME ConnsOK, ClockOK, NEW c \in DOMAIN conns, ReceiveVerack(c)
  PROVE  \E r : Greets(c, r)
<1>1. conns[c] \in Connection /\ Kept(conns[c], conns[c])
  BY Present, Zenon DEF Kept, Same
<1>2. /\ up = "up" /\ UNCHANGED <<clock, up, tick, closes>> /\ conns[c].phase = "receiveVerack"
      /\ StoreChannel(c, conns[c])
  BY Zenon DEF ReceiveVerack
<1> QED BY <1>1, <1>2, StoreGreets, Zenon

\* A handshake that breaks or times out: one connection proceeds with its handshake.
LEMMA HandshakeBreaksEffect ==
  ASSUME ConnsOK, ClockOK, NEW c \in DOMAIN conns, HandshakeBreaks(c)
  PROVE  \E r : Greets(c, r)
<1>1. up = "up" /\ UNCHANGED <<clock, up, tick, closes>> /\ conns[c].phase \in Handshaking /\ HandshakeFailed(c)
  BY Zenon DEF HandshakeBreaks
<1> QED BY <1>1, FailGreets, Zenon

\* What a peer may send is a message.
LEMMA MessagesType ==
  ASSUME ClockOK, NEW q \in Connection, NEW m \in Messages(q)
  PROVE  m \in MessageRecord
<1>1. q.owed \subseteq PingRecord /\ world.book \subseteq AddrLists /\ world.faults \subseteq Faults
  BY WorldsAssumption, Zenon DEF ClockOK, WorldOK, Connection
<1>2. <<>> \in AddrLists /\ {"other", "pong", "addr"} \subseteq Commands /\ "none" \in Faults
  BY DEF AddrLists, Commands, Faults
<1>3. ASSUME NEW k \in Commands, NEW f \in Faults, NEW n \in Nat, NEW e \in AddrLists, m = Message(k, f, n, e)
      PROVE  m \in MessageRecord
  BY <1>3, Zenon DEF Message, MessageRecord
<1>4. ASSUME NEW p \in q.owed, m = Message("pong", "none", p.nonce, <<>>) PROVE m \in MessageRecord
  <2>1. p.nonce \in Nat
    BY <1>1, Zenon DEF PingRecord
  <2> QED BY <1>2, <1>3, <1>4, <2>1, Zenon
<1> QED BY <1>1, <1>2, <1>3, <1>4, Zenon DEF Messages

\* A connection has a reader exactly when its channel was stored.
LEMMA StoredPhase ==
  ASSUME ConnsOK, ClockOK, NEW c \in DOMAIN conns
  PROVE  /\ conns[c].reader # "none" \/ conns[c].phase \in {"open", "removed", "closed"} =>
              conns[c].phase \notin Handshaking \cup {"failed"}
         /\ conns[c].heard <= now /\ conns[c].ping.at <= now
         /\ conns[c].phase \notin Handshaking \cup {"failed"} => conns[c].reader # "none"
<1>1. StageOK(conns[c], now, peerCounter)
  BY Present, Zenon
<1> QED BY <1>1, Zenon DEF StageOK, Handshaking

\* read_message: the reader of one connection hears a message.
LEMMA ReadEffect ==
  ASSUME ConnsOK, ClockOK, NEW c \in DOMAIN conns, NEW m \in Messages(conns[c]), Read(c, m)
  PROVE  /\ m \in MessageRecord /\ closes' = closes /\ conns[c].reader = "reading"
         /\ Proceeds(c, Hears(conns[c], m))
<1> DEFINE q == conns[c]
<1>1. q \in Connection /\ now \in Nat
  BY Present, Zenon
<1>2. m \in MessageRecord
  BY <1>1, MessagesType, Zenon
<1>3. PICK r : r = Hears(q, m)
  BY Zenon
<1>4. /\ r \in Connection /\ Same(q, r) /\ r.phase = q.phase /\ r.sent = q.sent /\ r.version = q.version
      /\ r.id = q.id /\ r.ping = q.ping /\ r.heard = q.heard /\ r.ended = q.ended /\ r.reader = "handling"
  BY <1>1, <1>2, <1>3, HearsType
<1>5. /\ up = "up" /\ UNCHANGED <<clock, up, tick, peerCounter, channels, counter, closes>> /\ q.reader = "reading"
      /\ conns' = [conns EXCEPT ![c] = r]
  BY <1>3, Zenon DEF Read
<1>6. q.phase \notin Handshaking \cup {"failed"} /\ r.heard <= now /\ r.ping.at <= now
  BY <1>4, <1>5, StoredPhase, Zenon
<1>7. Stays(q, r)
  BY <1>4, Zenon DEF Stays
<1>8. Proceeds(c, r)
  BY <1>4, <1>5, <1>6, <1>7, StoredProceeds, Zenon
<1> QED BY <1>2, <1>3, <1>5, <1>8, Zenon

\* The rest of close_channel: one removed channel ends.
LEMMA FinishCloseEffect ==
  ASSUME ConnsOK, ClockOK, NEW c \in DOMAIN conns, FinishClose(c)
  PROVE  Proceeds(c, Ended(conns[c])) /\ closes' = closes /\ conns[c].phase = "removed"
<1> DEFINE q == conns[c]
<1>1. q \in Connection
  BY Present, Zenon
<1>2. PICK r : r = Ended(q)
  BY Zenon
<1>3. r \in Connection /\ Stays(q, r) /\ Kept(q, r) /\ r.phase = "closed" /\ r.ended = q.ended + 1
  BY <1>1, <1>2, EndedType, Zenon
<1>4. /\ up = "up" /\ UNCHANGED <<clock, up, tick, peerCounter, channels, closes>> /\ q.phase = "removed"
      /\ conns' = [conns EXCEPT ![c] = r] /\ NoteClose(c)
  BY <1>2, Zenon DEF FinishClose
<1>5. q.phase \notin Handshaking \cup {"failed"} /\ q.heard <= now /\ q.ping.at <= now /\ q.reader # "none"
  BY <1>4, StoredPhase, Zenon
<1>6. r.heard <= now /\ r.ping.at <= now /\ r.reader # "none"
  BY <1>3, <1>5, Zenon DEF Kept
<1>7. Proceeds(c, r)
  BY <1>3, <1>4, <1>5, <1>6, StoredProceeds, Zenon
<1> QED BY <1>2, <1>4, <1>7, Zenon

\* PeerContext::close asked by the synchronizer: a close is pending.
LEMMA SyncCloseEffect ==
  ASSUME ConnsOK, ClockOK, NEW c \in DOMAIN conns, SyncClose(c)
  PROVE  /\ Proceeds(c, [conns[c] EXCEPT !.honest = FALSE]) /\ conns[c].phase = "open"
         /\ closes' = closes \cup {CloseTask(conns[c].id, now)}
<1> DEFINE q == conns[c]
<1>1. q \in Connection
  BY Present, Zenon
<1>2. PICK r : r = [q EXCEPT !.honest = FALSE]
  BY Zenon
<1>3. /\ r \in Connection /\ Stays(q, r) /\ r.phase = q.phase /\ r.ended = q.ended
      /\ r.reader = q.reader /\ r.heard = q.heard /\ r.ping = q.ping
  BY <1>1, <1>2, GivenUpType, Zenon
<1>4. /\ up = "up" /\ UNCHANGED <<clock, up, tick, peerCounter, channels, counter>> /\ c \in channels
      /\ conns' = [conns EXCEPT ![c] = r] /\ closes' = closes \cup {CloseTask(conns[c].id, now)}
  BY <1>2, Zenon DEF SyncClose
<1>5. q.phase = "open"
  BY <1>4, Present, Zenon
<1>6. q.phase \notin Handshaking \cup {"failed"} /\ q.heard <= now /\ q.ping.at <= now /\ q.reader # "none"
  BY <1>5, StoredPhase, Zenon
<1>7. Proceeds(c, r)
  BY <1>3, <1>4, <1>6, StoredProceeds, Zenon
<1> QED BY <1>2, <1>4, <1>5, <1>7, Zenon

\* A close, by whoever finds the channel.
LEMMA RemoveEffect ==
  ASSUME ConnsOK, ClockOK, NEW c \in DOMAIN conns, NEW x \in Connection, Stays(conns[c], x), x.phase = conns[c].phase,
         x.ended = conns[c].ended, x.reader # "none", x.heard <= now, x.ping.at <= now,
         conns[c].phase \notin Handshaking \cup {"failed"}, NEW f \in BOOLEAN, RemoveChannel(c, x, f),
         up = "up", UNCHANGED <<clock, up, tick, peerCounter, counter>>
  PROVE  \E r : /\ Proceeds(c, r) /\ Same(x, r) /\ r.id = x.id /\ r.honest = x.honest /\ r.reader = x.reader
                /\ r.phase = IF conns[c].phase = "open" THEN "removed" ELSE conns[c].phase
<1>1. c \in channels <=> conns[c].phase = "open"
  BY Present, Zenon
<1>2. CASE conns[c].phase = "open"
  <2>1. PICK r : r = [x EXCEPT !.phase = "removed", !.failed = f]
    BY Zenon
  <2>2. r \in Connection /\ Stays(x, r) /\ Kept(x, r) /\ r.phase = "removed" /\ r.ended = x.ended
    BY <2>1, RemovedType, Zenon
  <2>3. conns' = [conns EXCEPT ![c] = r] /\ channels' = channels \ {c}
    BY <1>1, <1>2, <2>1, Zenon DEF RemoveChannel
  <2>4. r.heard <= now /\ r.ping.at <= now /\ r.reader # "none" /\ Stays(conns[c], r)
    BY <2>2, Zenon DEF Kept, Stays, Same
  <2>5. Proceeds(c, r)
    BY <1>2, <2>2, <2>3, <2>4, StoredProceeds, Zenon
  <2> QED BY <1>2, <2>2, <2>5, Zenon DEF Kept
<1>3. CASE conns[c].phase # "open"
  <2>1. conns' = [conns EXCEPT ![c] = x] /\ channels' = channels
    BY <1>1, <1>3, Zenon DEF RemoveChannel
  <2>2. Proceeds(c, x)
    BY <2>1, StoredProceeds, Zenon
  <2> QED BY <1>3, <2>2, Zenon DEF Same
<1> QED BY <1>2, <1>3, Zenon

\* A read error closes the channel at once.
LEMMA ReadFailsEffect ==
  ASSUME ConnsOK, ClockOK, NEW c \in DOMAIN conns, ReadFails(c)
  PROVE  /\ closes' = closes
         /\ \E r : Proceeds(c, r) /\ r.id = conns[c].id /\ r.honest = FALSE /\ r.phase # "open"
<1> DEFINE q == conns[c]
<1>1. q \in Connection
  BY Present, Zenon
<1>2. PICK x : x = [q EXCEPT !.reader = "stopped", !.honest = FALSE]
  BY Zenon
<1>3. /\ x \in Connection /\ Stays(q, x) /\ x.phase = q.phase /\ x.ended = q.ended /\ x.honest = FALSE
      /\ x.reader = "stopped" /\ x.ping = q.ping /\ x.heard = q.heard
  BY <1>1, <1>2, StoppedType, Zenon
<1>4. /\ up = "up" /\ UNCHANGED <<clock, up, tick, peerCounter, counter, closes>> /\ q.reader = "reading"
      /\ RemoveChannel(c, x, TRUE)
  BY <1>2, Zenon DEF ReadFails
<1>5. q.phase \notin Handshaking \cup {"failed"} /\ x.heard <= now /\ x.ping.at <= now
  BY <1>3, <1>4, StoredPhase, Zenon
<1>6. PICK r : /\ Proceeds(c, r) /\ r.id = x.id /\ r.honest = x.honest
               /\ r.phase = IF conns[c].phase = "open" THEN "removed" ELSE conns[c].phase
  BY <1>3, <1>4, <1>5, RemoveEffect, ZenonT(60)
<1> QED BY <1>3, <1>4, <1>6, Zenon DEF Stays

\* A pending close removes the channel with its id, or finds it gone.
LEMMA RunCloseEffect ==
  ASSUME ConnsOK, ClockOK, NEW t \in closes, RunClose(t)
  PROVE  /\ up = "up" /\ t.at <= now /\ closes' = closes \ {t}
         /\ UNCHANGED <<clock, up, tick, peerCounter, counter>>
         /\ \/ \E c \in DOMAIN conns : \E r :
                 Proceeds(c, r) /\ conns[c].id = t.id /\ r.id = t.id /\ r.honest = conns[c].honest /\ r.phase = "removed"
            \/ UNCHANGED <<conns, channels>> /\ \A c \in channels : conns[c].id # t.id
<1>1. /\ up = "up" /\ t.at <= now /\ closes' = closes \ {t} /\ UNCHANGED <<clock, up, tick, peerCounter, counter>>
  BY Zenon DEF RunClose
<1>2. CASE \E c \in channels : conns[c].id = t.id
  <2>1. PICK c : c = CHOOSE d \in channels : conns[d].id = t.id
    BY Zenon
  <2>2. c \in channels /\ conns[c].id = t.id
    BY <1>2, <2>1, Zenon
  <2>3. c \in DOMAIN conns /\ conns[c].phase = "open"
    BY <2>2, Zenon DEF ConnsOK
  <2>4. RemoveChannel(c, conns[c], FALSE)
    BY <1>2, <2>1, Zenon DEF RunClose
  <2>5. /\ conns[c].phase \notin Handshaking \cup {"failed"} /\ conns[c].heard <= now /\ conns[c].ping.at <= now
        /\ conns[c].reader # "none"
    BY <2>3, StoredPhase, Zenon
  <2>6. conns[c] \in Connection /\ Stays(conns[c], conns[c])
    BY <2>3, Present, Zenon DEF Stays, Same
  <2>7. PICK r : /\ Proceeds(c, r) /\ r.id = conns[c].id /\ r.honest = conns[c].honest /\ r.phase = "removed"
    <3>1. PICK r : /\ Proceeds(c, r) /\ r.id = conns[c].id /\ r.honest = conns[c].honest
                   /\ r.phase = IF conns[c].phase = "open" THEN "removed" ELSE conns[c].phase
      BY <1>1, <2>3, <2>4, <2>5, <2>6, RemoveEffect, ZenonT(60)
    <3> QED BY <2>3, <3>1
  <2> QED BY <1>1, <2>2, <2>3, <2>7, Zenon
<1>3. CASE ~\E c \in channels : conns[c].id = t.id
  BY <1>1, <1>3, Zenon DEF RunClose
<1> QED BY <1>2, <1>3, Zenon

\* on_message: the sessions refuse the message and the channel is closed, or they take it
\* and the reader goes on, with the closes that the sessions ask for pending.
LEMMA OnMessageEffect ==
  ASSUME ConnsOK, ClockOK, NEW c \in DOMAIN conns, OnMessage(c)
  PROVE  /\ conns[c].reader = "handling"
         /\ \/ /\ SessionRefuses(conns[c]) /\ closes' = closes
               /\ \E r : Proceeds(c, r) /\ r.id = conns[c].id /\ r.honest = conns[c].honest /\ r.phase # "open"
            \/ /\ ~SessionRefuses(conns[c])
               /\ Proceeds(c, [SeednodeOnMessage(PingOnMessage(conns[c])) EXCEPT !.reader = "reading"])
               /\ closes' = closes
                    \cup (IF AddrCloses(conns[c]) THEN {CloseTask(conns[c].id, now)} ELSE {})
                    \cup (IF SeednodeOnMessage(PingOnMessage(conns[c])).disconnecting /\ ~conns[c].disconnecting
                          THEN {CloseTask(conns[c].id, now + SeednodeDelay)} ELSE {})
<1> DEFINE q == conns[c]
<1>1. q \in Connection /\ now \in Nat
  BY Present, Zenon
<1>2. up = "up" /\ UNCHANGED <<clock, up, tick, peerCounter, counter>> /\ q.reader = "handling"
  BY Zenon DEF OnMessage
<1>3. q.phase \notin Handshaking \cup {"failed"}
  BY <1>2, StoredPhase, Zenon
<1>4. CASE SessionRefuses(q)
  <2>1. PICK x : x = [PingOnMessage(q) EXCEPT !.reader = "stopped"]
    BY Zenon
  <2>2. /\ x \in Connection /\ Stays(q, x) /\ x.phase = q.phase /\ x.ended = q.ended /\ x.honest = q.honest
        /\ x.reader = "stopped" /\ x.ping.at = now /\ x.heard = now
    BY <1>1, <2>1, RefusedType, Zenon
  <2>3. RemoveChannel(c, x, TRUE) /\ closes' = closes
    BY <1>4, <2>1, Zenon DEF OnMessage
  <2>4. PICK r : /\ Proceeds(c, r) /\ r.id = x.id /\ r.honest = x.honest
                 /\ r.phase = IF conns[c].phase = "open" THEN "removed" ELSE conns[c].phase
    <3>1. x.heard <= now /\ x.ping.at <= now /\ x.reader # "none"
      BY <1>1, <2>2
    <3> QED BY <1>2, <1>3, <2>2, <2>3, <3>1, RemoveEffect, ZenonT(60)
  <2> QED BY <1>2, <1>4, <2>2, <2>3, <2>4, Zenon DEF Stays
<1>5. CASE ~SessionRefuses(q)
  <2>1. PICK r : r = [SeednodeOnMessage(PingOnMessage(q)) EXCEPT !.reader = "reading"]
    BY Zenon
  <2>2. /\ r \in Connection /\ Stays(q, r) /\ r.phase = q.phase /\ r.ended = q.ended /\ r.reader = "reading"
        /\ r.ping.at = now /\ r.heard = now
    BY <1>1, <2>1, AcceptedType, Zenon
  <2>3. conns' = [conns EXCEPT ![c] = r] /\ channels' = channels
    BY <1>5, <2>1, Zenon DEF OnMessage
  <2>4. Proceeds(c, r)
    <3>1. r.heard <= now /\ r.ping.at <= now /\ r.reader # "none"
      BY <1>1, <2>2
    <3> QED BY <1>2, <1>3, <2>2, <2>3, <3>1, StoredProceeds, Zenon
  <2> QED BY <1>2, <1>5, <2>1, <2>4, Zenon DEF OnMessage
<1> QED BY <1>4, <1>5, Zenon

-----------------------------------------------------------------------------
(* The deadlines.  A connection is timely when its pings, its disconnect    *)
(* and the tasks that close it are as the clock wants them.                 *)

Timely(conn, time, next, tasks) ==
  PingOK(conn, time, next, tasks) /\ SeedOK(conn, time, tasks) /\ PunctualOK(conn, time, tasks)

TasksOK(tasks, count) == \A t \in tasks : t.id \in 0..(count - 1) /\ t.at \in Nat

\* Only tasks of other connections come and go.
LEMMA TimelyKept ==
  ASSUME NEW q, NEW time, NEW next, NEW T, NEW U, Timely(q, time, next, T),
         \A t \in T : t \in U \/ t.id # q.id \/ q.phase # "open",
         \A t \in U : t \in T \/ t.id # q.id \/ ~(q.kind = "normal" /\ q.honest)
  PROVE  Timely(q, time, next, U)
<1>1. PingOK(q, time, next, U)
  BY Zenon DEF Timely, PingOK
<1>2. SeedOK(q, time, U)
  BY Zenon DEF Timely, SeedOK
<1>3. PunctualOK(q, time, U)
  BY Zenon DEF Timely, PunctualOK
<1> QED BY <1>1, <1>2, <1>3, Zenon DEF Timely

\* Neither an open channel nor a punctual peer: nothing is asked of it.
LEMMA TimelyIdle ==
  ASSUME NEW q, NEW time, NEW next, NEW T, q.phase # "open", ~(q.kind = "normal" /\ q.honest)
  PROVE  Timely(q, time, next, T)
BY Zenon DEF Timely, PingOK, SeedOK, PunctualOK

\* A connection in its handshake, or one that failed in it.
LEMMA TimelyEarly ==
  ASSUME NEW q, NEW r, NEW time, NEW next, NEW T, PunctualOK(q, time, T), Kept(q, r),
         r.phase \in Handshaking \cup {"failed"}
  PROVE  Timely(r, time, next, T)
<1>1. r.phase \notin {"open", "removed", "closed"}
  BY Zenon DEF Handshaking
<1>2. PunctualOK(r, time, T)
  BY <1>1, ZenonT(60) DEF PunctualOK, Kept, Same
<1> QED BY <1>1, <1>2, Zenon DEF Timely, PingOK, SeedOK

\* A connection that was only dialled or accepted has no deadline yet.
LEMMA TimelyNew ==
  ASSUME NEW r, NEW a, NEW dir, NEW kind, NEW auto, NEW phase \in Handshaking, NEW time, NEW next, NEW T, NEW count \in Nat,
         IsNew(r, a, dir, kind, auto, phase, time), TasksOK(T, count)
  PROVE  Timely(r, time, next, T)
<1>1. phase \notin {"open", "removed", "closed"} /\ r.phase = phase /\ r.id = -1
  BY Zenon DEF Handshaking, IsNew
<1>2. \A t \in T : t.id # -1
  BY DEF TasksOK
<1>3. r.owed = {} /\ r.ping.waits # "pong" /\ r.reader # "handling"
  BY Zenon DEF IsNew
<1>4. PunctualOK(r, time, T)
  BY <1>1, <1>2, <1>3, Zenon DEF PunctualOK
<1> QED BY <1>1, <1>4, Zenon DEF Timely, PingOK, SeedOK

\* A channel just stored is heard, and its first ping is not due.
LEMMA TimelyStored ==
  ASSUME NEW q, NEW r \in Connection, NEW time \in Nat, NEW next \in Nat, NEW T, NEW count \in Nat, TasksOK(T, count),
         StageOK(q, time, count), Stores(q, r, time, count), next - TickInterval <= time
  PROVE  Timely(r, time, next, T)
<1>1. q.owed = {} /\ q.addrAt = -1 /\ q.disconnecting = FALSE
  BY Zenon DEF StageOK, Stores
<1>2. /\ r.phase = "open" /\ r.id = count /\ r.heard = time /\ r.reader = "reading" /\ r.ping.waits = "timeout"
      /\ r.ping.at = time /\ r.owed = {} /\ r.addrAt = -1 /\ r.disconnecting = FALSE
  BY <1>1, Zenon DEF Stores
<1>3. \A t \in T : t.id # count
  BY DEF TasksOK
<1>4. next - TickInterval - time <= PingInterval /\ time - time <= PingInterval + MaxPingResponse + 2 * TickInterval
  BY IntervalsAssumption
<1>5. PingOK(r, time, next, T)
  BY <1>2, <1>4, Zenon DEF PingOK
<1>6. SeedOK(r, time, T)
  BY <1>2 DEF SeedOK
<1>7. PunctualOK(r, time, T)
  BY <1>2, <1>3, Zenon DEF PunctualOK
<1> QED BY <1>5, <1>6, <1>7, Zenon DEF Timely

\* A message is read: the pong of a punctual peer is the one it owes.
LEMMA TimelyRead ==
  ASSUME ClockOK, NEW q \in Connection, NEW m \in Messages(q), m \in MessageRecord, NEW r, r = Hears(q, m),
         q.reader = "reading", NEW next, NEW T, Timely(q, now, next, T)
  PROVE  Timely(r, now, next, T)
<1>0. now \in Nat
  BY Zenon DEF ClockOK
<1>1. /\ Same(q, r) /\ r.phase = q.phase /\ r.id = q.id /\ r.ping = q.ping /\ r.nonce = q.nonce /\ r.heard = q.heard
      /\ r.disconnecting = q.disconnecting /\ r.reader = "handling" /\ r.msg = m
      /\ r.owed = {p \in q.owed : m.command # "pong" \/ p.nonce # m.nonce}
      /\ r.addrAt = (IF q.kind = "seed" /\ m.command = "addr" /\ q.addrAt < 0 THEN now ELSE q.addrAt)
      /\ r.honest = (q.honest /\ Sound(m))
  BY <1>0, HearsType
<1>2. PingOK(r, now, next, T)
  BY <1>1, Zenon DEF Timely, PingOK
<1>3. m.command = "addr" => m.fault = "none"
  BY DEF Messages, Message
<1>4. SeedOK(r, now, T)
  <2> SUFFICES ASSUME r.phase = "open" PROVE SeedOK(r, now, T)
    BY Zenon DEF SeedOK
  <2>1. SeedOK(q, now, T) /\ q.phase = "open" /\ r.kind = q.kind
    BY <1>1, Zenon DEF Timely, Same
  <2>2. q.addrAt \in Int
    BY Zenon DEF Connection
  <2>3. CASE q.kind = "seed" /\ m.command = "addr" /\ q.addrAt < 0
    <3>1. r.addrAt = now /\ r.disconnecting = FALSE
      BY <1>1, <2>1, <2>3, Zenon DEF SeedOK
    <3>2. now - now <= SeednodeDelay /\ ~(now < 0)
      BY <1>0, IntervalsAssumption
    <3> QED BY <1>1, <1>3, <2>1, <2>3, <3>1, <3>2, Zenon DEF SeedOK
  <2>4. CASE ~(q.kind = "seed" /\ m.command = "addr" /\ q.addrAt < 0)
    <3>1. r.addrAt = q.addrAt
      BY <1>1, <2>4, Zenon
    <3> QED BY <1>1, <2>1, <2>4, <3>1, Zenon DEF SeedOK
  <2> QED BY <2>3, <2>4, Zenon
<1>5. PunctualOK(r, now, T)
  <2> SUFFICES ASSUME r.kind = "normal", r.honest PROVE PunctualOK(r, now, T)
    BY Zenon DEF PunctualOK
  <2>1. PunctualOK(q, now, T) /\ q.kind = "normal" /\ q.honest /\ Sound(m)
    BY <1>1, Zenon DEF Timely, Same
  <2>2. /\ q.phase \notin {"removed", "closed"} /\ \A t \in T : t.id # q.id
        /\ \A p \in q.owed : p.nonce = q.nonce /\ p.nonce # 0 /\ p.at <= q.ping.at /\ now - p.at <= MaxPingResponse
        /\ q.ping.waits = "pong" => now - q.ping.at <= MaxPingResponse
    BY <2>1, Zenon DEF PunctualOK
  <2>3. ASSUME m.command = "pong"
        PROVE  m.nonce = q.nonce /\ r.owed = {} /\ now - q.ping.at <= MaxPingResponse
    <3>1. m.nonce # 0
      BY <2>1, <2>3, Zenon DEF Sound
    <3>2. PICK p \in q.owed : p.nonce = m.nonce
      BY <2>3, <3>1 DEF Messages, Message
    <3>3. m.nonce = q.nonce /\ p.at <= q.ping.at /\ now - p.at <= MaxPingResponse
      BY <2>2, <3>2, Zenon
    <3>4. p.at \in Nat /\ q.ping.at \in Nat
      BY <3>2, Zenon DEF Connection, PingRecord
    <3>5. now - q.ping.at <= MaxPingResponse
      BY <1>0, <3>3, <3>4, IntervalsAssumption
    <3> QED BY <1>1, <2>2, <2>3, <3>3, <3>5, ZenonT(60)
  <2> QED BY <1>1, <2>1, <2>2, <2>3, ZenonT(60) DEF PunctualOK
<1> QED BY <1>2, <1>4, <1>5, Zenon DEF Timely

\* A message of a punctual peer is never refused.
LEMMA PunctualAccepted ==
  ASSUME NEW q, NEW time, NEW T, PunctualOK(q, time, T), q.kind = "normal", q.honest, q.reader = "handling"
  PROVE  ~SessionRefuses(q)
BY Zenon DEF PunctualOK, SessionRefuses, PongMatches, Sound

\* A message was handled: the peer is heard, and a seednode that sent addresses is left
\* in its delay.
LEMMA TimelyHandled ==
  ASSUME ClockOK, NEW q \in Connection, NEW r, r = [SeednodeOnMessage(PingOnMessage(q)) EXCEPT !.reader = "reading"],
         q.reader = "handling", q.ping.at <= now, NEW next \in Nat, next - TickInterval <= now, NEW T, Timely(q, now, next, T), NEW U,
         U = T \cup (IF AddrCloses(q) THEN {CloseTask(q.id, now)} ELSE {})
               \cup (IF SeednodeOnMessage(PingOnMessage(q)).disconnecting /\ ~q.disconnecting
                     THEN {CloseTask(q.id, now + SeednodeDelay)} ELSE {})
  PROVE  Timely(r, now, next, U)
<1>0. now \in Nat
  BY Zenon DEF ClockOK
<1>1. /\ Stays(q, r) /\ r.phase = q.phase /\ r.honest = q.honest
      /\ r.reader = "reading" /\ r.ping.at = now /\ r.ping.waits = "timeout" /\ r.heard = now
      /\ r.owed = q.owed /\ r.addrAt = q.addrAt /\ r.msg = q.msg
      /\ r.nonce = (IF q.msg.command = "pong" THEN 0 ELSE q.nonce)
      /\ r.disconnecting = (q.disconnecting \/ (q.kind = "seed" /\ q.msg.command = "addr"))
      /\ SeednodeOnMessage(PingOnMessage(q)).disconnecting = r.disconnecting
  <2>1. /\ Stays(q, r) /\ r.phase = q.phase /\ r.honest = q.honest
        /\ r.reader = "reading" /\ r.ping.at = now /\ r.ping.waits = "timeout" /\ r.heard = now
    BY <1>0, AcceptedType, ZenonT(60)
  <2>2. r.owed = q.owed /\ r.addrAt = q.addrAt /\ r.msg = q.msg
    BY <1>0, AcceptedType, Zenon
  <2>3. r.nonce = (IF q.msg.command = "pong" THEN 0 ELSE q.nonce)
    BY <1>0, AcceptedType, Zenon
  <2>4. r.disconnecting = (q.disconnecting \/ (q.kind = "seed" /\ q.msg.command = "addr"))
    BY <1>0, AcceptedType, Zenon
  <2>5. SeednodeOnMessage(PingOnMessage(q)).disconnecting = r.disconnecting
    BY <1>0, AcceptedType, Zenon
  <2> QED BY <2>1, <2>2, <2>3, <2>4, <2>5, Zenon
<1>2. r.kind = q.kind /\ r.id = q.id
  BY <1>1, Zenon DEF Stays, Same
<1>3. PingOK(r, now, next, U)
  <2>1. next - TickInterval - now <= PingInterval /\ now - now <= PingInterval + MaxPingResponse + 2 * TickInterval
    BY <1>0, IntervalsAssumption
  <2> QED BY <1>1, <2>1, Zenon DEF PingOK
<1>4. SeedOK(r, now, U)
  <2> SUFFICES ASSUME r.phase = "open" PROVE SeedOK(r, now, U)
    BY Zenon DEF SeedOK
  <2>1. SeedOK(q, now, T) /\ q.phase = "open"
    BY <1>1, Zenon DEF Timely
  <2>2. q.addrAt \in Int /\ SeednodeDelay \in Nat /\ r.disconnecting \in BOOLEAN /\ q.disconnecting \in BOOLEAN
    BY <1>1, IntervalsAssumption, ZenonT(60) DEF Connection
  <2>3. ASSUME q.addrAt < 0
        PROVE  r.disconnecting = FALSE
    BY <1>1, <2>1, <2>3, Zenon DEF SeedOK
  <2>4. ASSUME ~(q.addrAt < 0)
        PROVE  now - q.addrAt <= SeednodeDelay /\ \E t \in U : t.id = q.id /\ t.at <= q.addrAt + SeednodeDelay
    <3>1. q.addrAt >= 0
      BY <2>2, <2>4
    <3>2. /\ now - q.addrAt <= SeednodeDelay
          /\ \/ \E t \in T : t.id = q.id /\ t.at <= q.addrAt + SeednodeDelay
             \/ q.disconnecting = FALSE /\ q.kind = "seed" /\ q.addrAt = now /\ q.msg.command = "addr"
      BY <2>1, <3>1, Zenon DEF SeedOK
    <3>3. CASE q.disconnecting = FALSE /\ q.kind = "seed" /\ q.addrAt = now /\ q.msg.command = "addr"
      <4>1. CloseTask(q.id, now + SeednodeDelay) \in U
        BY <1>1, <3>3, Zenon
      <4>2. CloseTask(q.id, now + SeednodeDelay).id = q.id /\ CloseTask(q.id, now + SeednodeDelay).at = now + SeednodeDelay
        BY Zenon DEF CloseTask
      <4>3. now + SeednodeDelay <= q.addrAt + SeednodeDelay
        BY <1>0, <2>2, <3>3
      <4> QED BY <3>2, <4>1, <4>2, <4>3, Zenon
    <3> QED BY <3>2, <3>3, Zenon
  <2>5. CASE q.addrAt < 0
    <3>1. r.addrAt = q.addrAt /\ r.reader # "handling"
      BY <1>1, Zenon
    <3>2. ~(r.addrAt >= 0)
      BY <2>2, <2>5, <3>1
    <3>3. r.disconnecting = FALSE
      BY <2>3, <2>5, Zenon
    <3> QED BY <3>1, <3>2, <3>3, Zenon DEF SeedOK
  <2>6. CASE ~(q.addrAt < 0)
    BY <1>1, <1>2, <2>4, <2>6, Zenon DEF SeedOK
  <2> QED BY <2>5, <2>6, Zenon
<1>5. PunctualOK(r, now, U)
  <2> SUFFICES ASSUME r.kind = "normal", r.honest PROVE PunctualOK(r, now, U)
    BY Zenon DEF PunctualOK
  <2>1. PunctualOK(q, now, T) /\ q.kind = "normal" /\ q.honest
    BY <1>1, <1>2, Zenon DEF Timely
  <2>2. U = T
    BY <1>1, <2>1, Zenon DEF AddrCloses
  <2>3. q.phase \notin {"removed", "closed"} /\ \A t \in T : t.id # q.id
    BY <2>1, Zenon DEF PunctualOK
  <2>4. ASSUME NEW p \in q.owed
        PROVE  p.nonce = r.nonce /\ p.nonce # 0 /\ p.at <= now /\ now - p.at <= MaxPingResponse
    <3>1. q.msg.command # "pong" /\ p.nonce = q.nonce /\ p.nonce # 0 /\ p.at <= q.ping.at /\ now - p.at <= MaxPingResponse
      BY <2>1, Zenon DEF PunctualOK
    <3>2. p.at \in Nat /\ q.ping.at \in Nat
      BY Zenon DEF Connection, PingRecord
    <3>3. p.at <= now
      BY <1>0, <3>1, <3>2
    <3> QED BY <1>1, <3>1, <3>3, Zenon
  <2> QED BY <1>1, <1>2, <2>2, <2>3, <2>4, ZenonT(60) DEF PunctualOK
<1> QED BY <1>3, <1>4, <1>5, Zenon DEF Timely

\* The two waits of the ping protocol.
LEMMA PingTimeout ==
  ASSUME NEW q, NEW time, NEW next, NEW T, q.ping.waits = "timeout", q.ping.at = q.heard,
         next - TickInterval - q.heard <= PingInterval,
         time - q.heard <= PingInterval + MaxPingResponse + 2 * TickInterval
  PROVE  PingOK(q, time, next, T)
BY Zenon DEF PingOK

\* While a pong is awaited, the deadline follows from when the ping was sent.
LEMMA PingPong ==
  ASSUME NEW q, NEW time, NEW next, NEW T, q.ping.waits = "pong", q.heard <= q.ping.at,
         q.ping.at - q.heard <= PingInterval + TickInterval,
         next - TickInterval - q.ping.at <= MaxPingResponse \/ \E t \in T : t.id = q.id /\ t.at <= time,
         time - q.heard <= PingInterval + MaxPingResponse + 2 * TickInterval
  PROVE  PingOK(q, time, next, T)
BY Zenon DEF PingOK

\* The tick maintains an open channel: when a ping is sent the last one was
\* answered, and a peer whose answer is overdue gets a close.
LEMMA TimelyMaintained ==
  ASSUME ClockOK, NEW q \in Connection, NEW r, r = Maintain(q), q.phase = "open", q.heard <= now,
         NEW next \in Nat, now = next, NEW T, Timely(q, now, next, T), NEW U, T \subseteq U,
         PingUnanswered(q) => \E t \in U : t.id = q.id /\ t.at <= now,
         \A t \in U \ T : t.id = q.id => PingUnanswered(q)
  PROVE  Timely(r, now, next + TickInterval, U)
<1>a. PICK after : after = next + TickInterval
  BY Zenon
<1>0. now \in Nat /\ q.ping.at \in Nat /\ q.heard \in Nat /\ q.ping.waits \in {"timeout", "pong"} /\ q.pings \in Nat
      /\ q.owed \subseteq PingRecord
  BY Zenon DEF ClockOK, Connection
<1> DEFINE due == q.ping.waits = "timeout" /\ now - q.ping.at > PingInterval
<1>1. /\ r.kind = q.kind /\ r.phase = "open" /\ r.id = q.id /\ r.heard = q.heard /\ r.reader = q.reader
      /\ r.msg = q.msg /\ r.disconnecting = q.disconnecting /\ r.addrAt = q.addrAt /\ r.honest = q.honest
  BY <1>0, MaintainType, ZenonT(60)
<1>2. due => /\ r.ping.waits = "pong" /\ r.ping.at = now /\ r.nonce = q.pings + 1
             /\ r.owed = q.owed \cup {[nonce |-> q.pings + 1, at |-> now]}
  BY <1>0, MaintainType, ZenonT(60)
<1>3. ~due => r = q
  BY <1>0, MaintainType, Zenon
<1>4. PingOK(q, now, next, T) /\ SeedOK(q, now, T) /\ PunctualOK(q, now, T)
  BY Zenon DEF Timely
<1>5. now - q.heard <= PingInterval + MaxPingResponse + 2 * TickInterval
  BY <1>4, Zenon DEF PingOK
<1>6. after \in Nat /\ after - TickInterval = now
  BY <1>a, <1>0, IntervalsAssumption
<1>7. PingOK(r, now, after, U)
  <2>1. CASE due
    <3>1. after - TickInterval - now <= MaxPingResponse
      BY <1>0, <1>6, IntervalsAssumption
    <3>2. q.ping.at = q.heard /\ next - TickInterval - q.heard <= PingInterval
      BY <1>4, <2>1, Zenon DEF PingOK
    <3>3. now - q.heard <= PingInterval + TickInterval
      BY <1>0, <3>2, IntervalsAssumption
    <3>4. r.ping.waits = "pong" /\ r.ping.at = now /\ r.heard = q.heard
      BY <1>1, <1>2, <2>1, Zenon
    <3> QED BY <1>5, <3>1, <3>3, <3>4, PingPong, Zenon
  <2>2. CASE ~due /\ q.ping.waits = "timeout"
    <3>1. q.ping.at = q.heard
      BY <1>4, <2>2, Zenon DEF PingOK
    <3>2. after - TickInterval - q.heard <= PingInterval
      BY <1>0, <1>6, <2>2, <3>1, IntervalsAssumption
    <3>3. r = q
      BY <1>3, <2>2, Zenon
    <3> QED BY <1>5, <2>2, <3>1, <3>2, <3>3, PingTimeout, Zenon
  <2>3. CASE ~due /\ q.ping.waits = "pong"
    <3>1. q.heard <= q.ping.at /\ q.ping.at - q.heard <= PingInterval + TickInterval
      BY <1>4, <2>3, Zenon DEF PingOK
    <3>2. after - TickInterval - q.ping.at <= MaxPingResponse \/ \E t \in U : t.id = q.id /\ t.at <= now
      BY <1>0, <1>6, <2>3, IntervalsAssumption DEF PingUnanswered
    <3>3. r = q
      BY <1>3, <2>3, Zenon
    <3> QED BY <1>5, <2>3, <3>1, <3>2, <3>3, PingPong, Zenon
  <2> QED BY <1>0, <2>1, <2>2, <2>3, Zenon
<1>8. SeedOK(r, now, U)
  BY <1>1, <1>4, Zenon DEF SeedOK
<1>9. PunctualOK(r, now, U)
  <2> SUFFICES ASSUME r.kind = "normal", r.honest PROVE PunctualOK(r, now, U)
    BY Zenon DEF PunctualOK
  <2>1. /\ q.phase \notin {"removed", "closed"} /\ \A t \in T : t.id # q.id
        /\ \A p \in q.owed : p.nonce = q.nonce /\ p.nonce # 0 /\ p.at <= q.ping.at /\ now - p.at <= MaxPingResponse
        /\ q.ping.waits = "pong" => now - q.ping.at <= MaxPingResponse
        /\ q.reader = "handling" => /\ Sound(q.msg)
                                    /\ q.msg.command = "pong" => now - q.ping.at <= MaxPingResponse
    BY <1>1, <1>4, Zenon DEF PunctualOK
  <2>2. ~PingUnanswered(q)
    BY <1>0, <2>1, IntervalsAssumption DEF PingUnanswered
  <2>3. \A t \in U : t.id # q.id
    BY <2>1, <2>2, Zenon
  <2>4. CASE due
    <3>1. ~(now - q.ping.at <= MaxPingResponse)
      BY <1>0, <2>4, IntervalsAssumption
    <3>2. q.owed = {}
      <4>1. SUFFICES ASSUME NEW p \in q.owed PROVE FALSE
        BY Zenon
      <4>2. p.at \in Nat /\ p.at <= q.ping.at /\ now - p.at <= MaxPingResponse
        BY <1>0, <2>1, Zenon DEF PingRecord
      <4> QED BY <1>0, <3>1, <4>2, IntervalsAssumption
    <3>3. PICK p : p = [nonce |-> q.pings + 1, at |-> now]
      BY Zenon
    <3>4. r.owed = {p} /\ p.nonce = r.nonce /\ p.nonce # 0 /\ p.at = now /\ r.ping.at = now /\ r.ping.waits = "pong"
      BY <1>0, <1>2, <2>4, <3>2, <3>3
    <3>5. now <= now /\ now - now <= MaxPingResponse
      BY <1>0, IntervalsAssumption
    <3>6. q.reader = "handling" => Sound(q.msg) /\ q.msg.command # "pong"
      BY <2>1, <3>1, Zenon
    <3> QED BY <1>1, <2>1, <2>3, <3>4, <3>5, <3>6, ZenonT(60) DEF PunctualOK
  <2>5. CASE ~due
    <3>1. r = q
      BY <1>3, <2>5, Zenon
    <3> QED BY <1>4, <2>3, <3>1, Zenon DEF PunctualOK
  <2> QED BY <2>4, <2>5, Zenon
<1> QED BY <1>a, <1>7, <1>8, <1>9, Zenon DEF Timely

\* The clock moves on: what was due is done.
LEMMA TimelyLater ==
  ASSUME ClockOK, NEW q \in Connection, NEW r, r = Later(q), NEW next \in Nat, now < next,
         NEW T, \A t \in T : t.at \in Nat /\ now < t.at, q.reader # "handling", Timely(q, now, next, T)
  PROVE  Timely(r, now + 1, next, T)
<1>0. now \in Nat /\ q.ping.at \in Nat /\ q.heard \in Nat /\ q.ping.waits \in {"timeout", "pong"} /\ q.addrAt \in Int
      /\ q.owed \subseteq PingRecord
  BY Zenon DEF ClockOK, Connection
<1>a. PICK time \in Nat : time = now + 1
  BY <1>0
<1>1. /\ r.kind = q.kind /\ r.phase = q.phase /\ r.id = q.id
      /\ r.reader = q.reader /\ r.owed = q.owed /\ r.nonce = q.nonce /\ r.addrAt = q.addrAt
      /\ r.disconnecting = q.disconnecting /\ r.heard = q.heard /\ r.ping = q.ping /\ r.msg = q.msg
      /\ r.honest = (q.honest /\ \A p \in q.owed : now + 1 - p.at <= MaxPingResponse)
  BY LaterType, ZenonT(60) DEF Stays, Same
<1>2. PingOK(q, now, next, T) /\ SeedOK(q, now, T) /\ PunctualOK(q, now, T)
  BY Zenon DEF Timely
<1>3. PingOK(r, time, next, T)
  <2> SUFFICES ASSUME q.phase = "open" PROVE PingOK(r, time, next, T)
    BY <1>1, Zenon DEF PingOK
  <2>1. CASE q.ping.waits = "timeout"
    <3>1. q.ping.at = q.heard /\ next - TickInterval - q.heard <= PingInterval
      BY <1>2, <2>1, Zenon DEF PingOK
    <3>2. time - q.heard <= PingInterval + MaxPingResponse + 2 * TickInterval
      BY <1>0, <1>a, <3>1, IntervalsAssumption
    <3> QED BY <1>1, <2>1, <3>1, <3>2, PingTimeout, Zenon
  <2>2. CASE q.ping.waits = "pong"
    <3>1. /\ q.heard <= q.ping.at /\ q.ping.at - q.heard <= PingInterval + TickInterval
          /\ next - TickInterval - q.ping.at <= MaxPingResponse \/ \E t \in T : t.id = q.id /\ t.at <= now
      BY <1>2, <2>2, Zenon DEF PingOK
    <3>2. next - TickInterval - q.ping.at <= MaxPingResponse
      <4>1. ASSUME NEW t \in T PROVE ~(t.at <= now)
        BY <1>0
      <4> QED BY <3>1, <4>1, Zenon
    <3>3. time - q.heard <= PingInterval + MaxPingResponse + 2 * TickInterval
      BY <1>0, <1>a, <3>1, <3>2, IntervalsAssumption
    <3> QED BY <1>1, <2>2, <3>1, <3>2, <3>3, PingPong, Zenon
  <2> QED BY <1>0, <2>1, <2>2, Zenon
<1>4. SeedOK(r, time, T)
  <2> SUFFICES ASSUME q.phase = "open" PROVE SeedOK(r, time, T)
    BY <1>1, Zenon DEF SeedOK
  <2>1. ASSUME q.addrAt >= 0
        PROVE  time - q.addrAt <= SeednodeDelay /\ \E t \in T : t.id = q.id /\ t.at <= q.addrAt + SeednodeDelay
    <3>1. PICK t \in T : t.id = q.id /\ t.at <= q.addrAt + SeednodeDelay
      BY <1>2, <2>1, Zenon DEF SeedOK
    <3>2. t.at \in Nat /\ now < t.at
      BY <3>1, Zenon
    <3>3. time - q.addrAt <= SeednodeDelay
      BY <1>0, <1>a, <3>1, <3>2, IntervalsAssumption, SMTT(60)
    <3> QED BY <3>1, <3>3, Zenon
  <2>2. CASE q.addrAt < 0
    <3>1. ~(r.addrAt >= 0)
      BY <1>0, <1>1, <2>2
    <3> QED BY <1>1, <1>2, <2>2, <3>1, Zenon DEF SeedOK
  <2>3. CASE q.addrAt >= 0
    <3>1. ~(r.addrAt < 0)
      BY <1>0, <1>1, <2>3
    <3> QED BY <1>1, <2>1, <2>3, <3>1, Zenon DEF SeedOK
  <2> QED BY <1>0, <2>2, <2>3
<1>5. PunctualOK(r, time, T)
  <2> SUFFICES ASSUME r.kind = "normal", r.honest PROVE PunctualOK(r, time, T)
    BY Zenon DEF PunctualOK
  <2>0. q.kind = "normal" /\ q.honest /\ \A p \in q.owed : now + 1 - p.at <= MaxPingResponse
    BY <1>1, Zenon
  <2>1. q.kind = "normal" /\ q.honest /\ \A p \in q.owed : time - p.at <= MaxPingResponse
    <3>1. ASSUME NEW p \in q.owed PROVE time - p.at <= MaxPingResponse
      <4>1. p.at \in Nat /\ now + 1 - p.at <= MaxPingResponse
        BY <1>0, <2>0, Zenon DEF PingRecord
      <4> QED BY <1>0, <1>a, <4>1, IntervalsAssumption
    <3> QED BY <2>0, <3>1, Zenon
  <2>2. /\ q.phase \notin {"removed", "closed"} /\ \A t \in T : t.id # q.id
        /\ \A p \in q.owed : p.nonce = q.nonce /\ p.nonce # 0 /\ p.at <= q.ping.at
        /\ q.ping.waits = "pong" => \E p \in q.owed : p.at = q.ping.at
    BY <1>2, <2>1, Zenon DEF PunctualOK
  <2>3. q.ping.waits = "pong" => time - q.ping.at <= MaxPingResponse
    BY <2>1, <2>2, Zenon
  <2> QED BY <1>1, <2>1, <2>2, <2>3, Zenon DEF PunctualOK
<1> QED BY <1>a, <1>3, <1>4, <1>5, Zenon DEF Timely

\* One connection moves on: the others are as they were, since the tasks that
\* come and go are its own.
LEMMA DeadlinesMove ==
  ASSUME Safe, Deadlines, NEW c \in DOMAIN conns, NEW r, Proceeds(c, r), Timely(r, now, nextTick, closes'),
         conns[c].id \in Nat \/ closes' = closes,
         \A t \in closes : t \in closes' \/ t.id = conns[c].id,
         \A t \in closes' : t \in closes \/ (t.id = conns[c].id /\ t.at \in Nat)
  PROVE  Deadlines'
<1>1. ConnsOK /\ ClockOK
  BY Zenon DEF Safe, Base
<1>2. /\ DOMAIN conns' = DOMAIN conns /\ now' = now /\ nextTick' = nextTick
      /\ \A d \in DOMAIN conns : conns'[d] = IF d = c THEN r ELSE conns[d]
  BY <1>1, MovedConns, Zenon DEF Proceeds, Moves, clock, tick
<1>3. peerCounter \in Nat /\ peerCounter' \in Nat /\ peerCounter <= peerCounter'
  BY <1>1, Zenon DEF Proceeds, ConnsOK
<1>4. ASSUME NEW t \in closes' PROVE t.id \in 0..(peerCounter' - 1) /\ t.at \in Nat
  <2>1. CASE t \in closes
    BY <1>3, <2>1 DEF Deadlines
  <2>2. CASE t \notin closes
    <3>1. t.id = conns[c].id /\ t.at \in Nat /\ conns[c].id \in Nat
      BY <2>2, Zenon
    <3>2. conns[c].id < peerCounter
      BY <1>1, <1>3, Present, StageStays
    <3> QED BY <1>3, <3>1, <3>2
  <2> QED BY <2>1, <2>2, Zenon
<1>5. ASSUME NEW d \in DOMAIN conns PROVE Timely(conns'[d], now, nextTick, closes')
  <2>1. CASE d = c
    BY <1>2, <2>1, Zenon
  <2>2. CASE d # c
    <3>1. conns'[d] = conns[d] /\ Timely(conns[d], now, nextTick, closes)
      BY <1>2, <2>2, Zenon DEF Deadlines, Timely
    <3>2. CASE closes' = closes
      BY <3>1, <3>2, Zenon
    <3>3. CASE conns[c].id \in Nat
      <4>1. conns[d].id # conns[c].id
        BY <1>1, <2>2, <3>3 DEF ConnsOK
      <4>2. \A t \in closes : t \in closes' \/ t.id # conns[d].id
        BY <4>1, Zenon
      <4>3. \A t \in closes' : t \in closes \/ t.id # conns[d].id
        BY <4>1, Zenon
      <4> QED BY <3>1, <4>2, <4>3, TimelyKept, Zenon
    <3> QED BY <3>2, <3>3, Zenon
  <2> QED BY <2>1, <2>2, Zenon
<1> QED BY <1>2, <1>4, <1>5, Zenon DEF Deadlines, Timely

\* A new connection keeps the deadlines of all.
LEMMA DeadlinesGrow ==
  ASSUME Safe, Deadlines, NEW a \in Address, NEW dir \in {"in", "out"}, NEW kind \in {"normal", "seed"}, NEW auto \in BOOLEAN,
         NEW phase \in Handshaking, conns' = Append(conns, NewConnection(a, dir, kind, auto, phase)),
         UNCHANGED <<clock, peerCounter, nextTick, closes>>
  PROVE  Deadlines'
<1>1. ConnsOK /\ ClockOK /\ now \in Nat /\ peerCounter \in Nat /\ now' = now
  BY Zenon DEF Safe, Base, ClockOK, ConnsOK, clock
<1>2. PICK r : r = NewConnection(a, dir, kind, auto, phase)
  BY Zenon
<1>3. IsNew(r, a, dir, kind, auto, phase, now)
  BY <1>1, <1>2, NewConnectionType, Zenon
<1>4. Timely(r, now, nextTick, closes)
  BY <1>1, <1>3, TimelyNew, Zenon DEF Deadlines, TasksOK
<1>5. r \in Connection
  BY <1>3, Zenon DEF IsNew
<1>6. ASSUME NEW d \in DOMAIN conns' PROVE Timely(conns'[d], now, nextTick, closes)
  <2>1. conns \in Seq(Connection) /\ conns' = Append(conns, r)
    BY <1>1, <1>2, Zenon DEF ConnsOK
  <2>2. d \in DOMAIN conns \/ d = Len(conns) + 1
    BY <1>5, <2>1
  <2>3. CASE d \in DOMAIN conns
    <3>1. conns'[d] = conns[d]
      BY <1>5, <2>1, <2>3
    <3> QED BY <2>3, <3>1, Zenon DEF Deadlines, Timely
  <2>4. CASE d = Len(conns) + 1
    <3>1. conns'[d] = r
      BY <1>5, <2>1, <2>4
    <3> QED BY <1>4, <3>1, Zenon
  <2> QED BY <2>2, <2>3, <2>4, Zenon
<1> QED BY <1>1, <1>6, Zenon DEF Deadlines, Timely

\* The process starts, with no channel.
LEMMA DeadlinesStart ==
  ASSUME Safe, Deadlines, Start
  PROVE  Deadlines'
<1>1. ClockOK /\ ConnsOK /\ WorkOK /\ WorldOK(world) /\ up = "down"
  BY WorldsAssumption, Zenon DEF Safe, Base, ClockOK, Start
<1>2. closes = {} /\ conns = <<>> /\ closes' = closes /\ now' = now /\ now \in Nat /\ peerCounter \in Nat
  BY <1>1, Zenon DEF Start, clock, ClockOK, ConnsOK, WorkOK
<1>3. CASE ~Loads(file)
  BY <1>2, <1>3 DEF Start, Deadlines
<1>4. CASE Loads(file)
  <2>1. conns' = [i \in 1..Len(world.peers) |-> Dialled(world.peers[i], "normal", FALSE)]
    BY <1>4, Zenon DEF Start
  <2>2. ASSUME NEW i \in DOMAIN conns' PROVE Timely(conns'[i], now, nextTick', closes)
    <3>1. world.peers[i] \in Address
      BY <1>1, <2>1 DEF WorldOK
    <3>2. PICK r : r = NewConnection(world.peers[i], "out", "normal", FALSE, "tcp")
      BY Zenon
    <3>3. "tcp" \in Handshaking
      BY Zenon DEF Handshaking
    <3>4. IsNew(r, world.peers[i], "out", "normal", FALSE, "tcp", now)
      BY <1>2, <3>1, <3>2, <3>3, NewConnectionType, Zenon
    <3>5. TasksOK(closes, 0)
      BY <1>2, Zenon DEF TasksOK
    <3>6. Timely(r, now, nextTick', closes)
      BY <3>3, <3>4, <3>5, TimelyNew, Zenon
    <3>7. conns'[i] = r
      BY <2>1, <3>2, Zenon DEF Dialled
    <3> QED BY <3>6, <3>7, Zenon
  <2> QED BY <1>2, <2>2, Zenon DEF Deadlines, Timely
<1> QED BY <1>3, <1>4, Zenon

\* The tick sends the pings that are due and closes the channels that did not answer.
LEMMA DeadlinesTick ==
  ASSUME Safe, Deadlines, Tick
  PROVE  Deadlines'
<1>1. ConnsOK /\ ClockOK
  BY Zenon DEF Safe, Base
<1>2. /\ now = nextTick /\ nextTick' = nextTick + TickInterval /\ now' = now /\ peerCounter' = peerCounter
      /\ conns' = [i \in DOMAIN conns |-> IF i \in channels THEN Maintain(conns[i]) ELSE conns[i]]
      /\ closes' = closes \cup {CloseTask(conns[i].id, now) : i \in {j \in channels : PingUnanswered(conns[j])}}
  BY Zenon DEF Tick, clock
<1>3. now \in Nat /\ nextTick \in Nat /\ now <= now
  BY <1>1 DEF ClockOK
<1>4. ASSUME NEW t \in closes', t \notin closes
      PROVE  \E i \in DOMAIN conns : /\ conns[i].phase = "open" /\ PingUnanswered(conns[i]) /\ t.id = conns[i].id /\ t.at = now
  <2>1. PICK i \in channels : PingUnanswered(conns[i]) /\ t = CloseTask(conns[i].id, now)
    BY <1>2, <1>4, Zenon
  <2> QED BY <1>1, <2>1, Zenon DEF ConnsOK, CloseTask
<1>5. ASSUME NEW i \in DOMAIN conns, conns[i].phase = "open"
      PROVE  conns[i].id \in 0..(peerCounter - 1)
  <2>1. StageOK(conns[i], now, peerCounter)
    BY <1>1, Present, Zenon
  <2> QED BY <1>5, <2>1, Zenon DEF StageOK, Handshaking
<1>6. ASSUME NEW t \in closes' PROVE t.id \in 0..(peerCounter - 1) /\ t.at \in Nat
  BY <1>3, <1>4, <1>5, Zenon DEF Deadlines
<1>7. ASSUME NEW d \in DOMAIN conns PROVE Timely(conns'[d], now, nextTick + TickInterval, closes')
  <2>0. Timely(conns[d], now, nextTick, closes) /\ conns[d] \in Connection /\ conns[d].heard <= now
    BY <1>1, Present, StoredPhase, Zenon DEF Deadlines, Timely
  <2>1. \A t \in closes' \ closes : t.id = conns[d].id => conns[d].phase = "open" /\ PingUnanswered(conns[d])
    <3>1. SUFFICES ASSUME NEW t \in closes', t \notin closes, t.id = conns[d].id
                   PROVE  conns[d].phase = "open" /\ PingUnanswered(conns[d])
      BY Zenon
    <3>2. PICK i \in DOMAIN conns : conns[i].phase = "open" /\ PingUnanswered(conns[i]) /\ t.id = conns[i].id
      BY <1>4, <3>1, Zenon
    <3>3. conns[i].id # -1
      BY <1>5, <3>2
    <3>4. i = d
      BY <1>1, <3>1, <3>2, <3>3, Zenon DEF ConnsOK
    <3> QED BY <3>2, <3>4, Zenon
  <2>2. CASE conns[d].phase = "open"
    <3>1. d \in channels /\ conns'[d] = Maintain(conns[d])
      BY <1>1, <1>2, <2>2, Zenon DEF ConnsOK
    <3>2. closes \subseteq closes'
      BY <1>2, Zenon
    <3>3. PingUnanswered(conns[d]) => \E t \in closes' : t.id = conns[d].id /\ t.at <= now
      <4>1. SUFFICES ASSUME PingUnanswered(conns[d]) PROVE \E t \in closes' : t.id = conns[d].id /\ t.at <= now
        BY Zenon
      <4>2. CloseTask(conns[d].id, now) \in closes'
        BY <1>2, <3>1, <4>1, Zenon
      <4>3. CloseTask(conns[d].id, now).id = conns[d].id /\ CloseTask(conns[d].id, now).at = now
        BY Zenon DEF CloseTask
      <4> QED BY <1>3, <4>2, <4>3, Zenon
    <3>4. \A t \in closes' \ closes : t.id = conns[d].id => PingUnanswered(conns[d])
      BY <2>1, Zenon
    <3> QED BY <1>1, <1>2, <1>3, <2>0, <2>2, <3>1, <3>2, <3>3, <3>4, TimelyMaintained, Zenon
  <2>3. CASE conns[d].phase # "open"
    <3>1. conns'[d] = conns[d]
      BY <1>1, <1>2, <2>3, Zenon DEF ConnsOK
    <3>2. \A t \in closes' : t \in closes \/ t.id # conns[d].id
      BY <2>1, <2>3, Zenon
    <3>3. Timely(conns[d], now, nextTick, closes')
      BY <2>0, <2>3, <3>2, TimelyKept, Zenon
    <3>4. PingOK(conns[d], now, nextTick + TickInterval, closes')
      BY <2>3, Zenon DEF PingOK
    <3> QED BY <3>1, <3>3, <3>4, Zenon DEF Timely
  <2> QED BY <2>2, <2>3, Zenon
<1> QED BY <1>2, <1>6, <1>7, Zenon DEF Deadlines, Timely

\* Time passes no further than the next tick and the closes that are due.
LEMMA DeadlinesAdvance ==
  ASSUME Safe, Deadlines, Advance
  PROVE  Deadlines'
<1>1. ConnsOK /\ ClockOK
  BY Zenon DEF Safe, Base
<1>2. /\ now < nextTick /\ nextTick' = nextTick /\ now' = now + 1 /\ UNCHANGED <<peerCounter, closes>>
      /\ conns' = [c \in DOMAIN conns |-> Later(conns[c])]
      /\ \A t \in closes : now < t.at
      /\ \A c \in DOMAIN conns : conns[c].reader # "handling"
  BY Zenon DEF Advance, tick
<1>3. now \in Nat /\ nextTick \in Nat
  BY <1>1, Zenon DEF ClockOK
<1>4. ASSUME NEW d \in DOMAIN conns PROVE Timely(conns'[d], now + 1, nextTick, closes)
  <2>1. Timely(conns[d], now, nextTick, closes) /\ conns[d] \in Connection
    BY <1>1, Present, Zenon DEF Deadlines, Timely
  <2>2. conns'[d] = Later(conns[d]) /\ conns[d].reader # "handling"
    BY <1>2, Zenon
  <2>3. \A t \in closes : t.at \in Nat /\ now < t.at
    BY <1>2, Zenon DEF Deadlines
  <2> QED BY <1>1, <1>2, <1>3, <2>1, <2>2, <2>3, TimelyLater, Zenon
<1> QED BY <1>2, <1>4, Zenon DEF Deadlines, Timely

\* A step of a handshake keeps the deadlines of all.
LEMMA DeadlinesGreet ==
  ASSUME Safe, Deadlines, NEW c \in DOMAIN conns, NEW r, Greets(c, r)
  PROVE  Deadlines'
<1>1. ConnsOK /\ ClockOK /\ Proceeds(c, r) /\ closes' = closes
  BY Zenon DEF Safe, Base, Greets
<1>2. /\ StageOK(conns[c], now, peerCounter) /\ now \in Nat /\ peerCounter \in Nat /\ nextTick \in Nat
      /\ nextTick - TickInterval <= now /\ r \in Connection /\ Timely(conns[c], now, nextTick, closes)
  BY <1>1, Present, Zenon DEF ClockOK, Proceeds, Moves, Deadlines, Timely
<1>3. Timely(r, now, nextTick, closes)
  <2>1. CASE Continues(conns[c], r) \/ Fails(conns[c], r)
    <3>1. Kept(conns[c], r) /\ r.phase \in Handshaking \cup {"failed"} /\ PunctualOK(conns[c], now, closes)
      BY <1>2, <2>1, Zenon DEF Continues, Fails, Timely
    <3> QED BY <3>1, TimelyEarly, Zenon
  <2>2. CASE Stores(conns[c], r, now, peerCounter)
    BY <1>2, <2>2, TimelyStored, Zenon DEF Deadlines, TasksOK
  <2> QED BY <2>1, <2>2, Zenon DEF Greets
<1> QED BY <1>1, <1>3, DeadlinesMove, Zenon

\* Reading, handling and closing keep the deadlines of all.
LEMMA DeadlinesSessions ==
  ASSUME Safe, Deadlines, NEW c \in DOMAIN conns,
         \/ FinishClose(c) \/ SyncClose(c) \/ ReadFails(c) \/ OnMessage(c)
         \/ \E m \in Messages(conns[c]) : Read(c, m)
  PROVE  Deadlines'
<1> DEFINE q == conns[c]
<1>1. ConnsOK /\ ClockOK
  BY Zenon DEF Safe, Base
<1>2. /\ q \in Connection /\ StageOK(q, now, peerCounter) /\ now \in Nat /\ peerCounter \in Nat /\ nextTick \in Nat
      /\ Timely(q, now, nextTick, closes) /\ q.ping.at <= now
  BY <1>1, Present, StoredPhase, Zenon DEF ClockOK, Deadlines, Timely
<1>3. q.reader # "none" \/ q.phase = "open" => q.id \in Nat
  <2>1. q.reader # "none" \/ q.phase = "open" => q.phase \notin Handshaking \cup {"failed"}
    BY <1>2, Zenon DEF StageOK, Handshaking
  <2> QED BY <1>2, <2>1, SMTT(60) DEF StageOK
<1>4. CASE FinishClose(c)
  <2>1. Proceeds(c, Ended(q)) /\ closes' = closes /\ q.phase = "removed"
    BY <1>1, <1>4, FinishCloseEffect, Zenon
  <2>2. PICK r : r = Ended(q)
    BY Zenon
  <2>3. r.phase = "closed" /\ r.kind = q.kind /\ r.honest = q.honest
    BY <1>2, <2>2, EndedType, ZenonT(60) DEF Kept, Same
  <2>4. ~(q.kind = "normal" /\ q.honest)
    BY <1>2, <2>1, Zenon DEF Timely, PunctualOK
  <2>5. Timely(r, now, nextTick, closes)
    BY <2>3, <2>4, TimelyIdle, Zenon
  <2> QED BY <2>1, <2>2, <2>5, DeadlinesMove, Zenon
<1>5. CASE SyncClose(c)
  <2>1. PICK r : r = [q EXCEPT !.honest = FALSE]
    BY Zenon
  <2>2. Proceeds(c, r) /\ q.phase = "open" /\ closes' = closes \cup {CloseTask(q.id, now)}
    BY <1>1, <1>5, <2>1, SyncCloseEffect, Zenon
  <2>3. /\ r.kind = q.kind /\ r.id = q.id /\ r.phase = q.phase /\ r.honest = FALSE
        /\ r.reader = q.reader /\ r.addrAt = q.addrAt
        /\ r.disconnecting = q.disconnecting /\ r.heard = q.heard /\ r.ping = q.ping /\ r.msg = q.msg
    BY <1>2, <2>1, GivenUpType, ZenonT(60) DEF Stays, Same
  <2>4. PingOK(r, now, nextTick, closes')
    BY <1>2, <2>2, <2>3, Zenon DEF Timely, PingOK
  <2>5. SeedOK(r, now, closes')
    BY <1>2, <2>2, <2>3, Zenon DEF Timely, SeedOK
  <2>6. PunctualOK(r, now, closes')
    BY <2>3, Zenon DEF PunctualOK
  <2>7. \A t \in closes' : t \in closes \/ (t.id = q.id /\ t.at \in Nat)
    BY <1>2, <2>2, SMTT(60) DEF CloseTask
  <2>8. Timely(r, now, nextTick, closes') /\ \A t \in closes : t \in closes'
    BY <2>2, <2>4, <2>5, <2>6, Zenon DEF Timely
  <2> QED BY <1>3, <2>2, <2>7, <2>8, DeadlinesMove, Zenon
<1>6. CASE ReadFails(c)
  <2>1. closes' = closes
    BY <1>1, <1>6, ReadFailsEffect, Zenon
  <2>2. PICK r : Proceeds(c, r) /\ r.honest = FALSE /\ r.phase # "open"
    BY <1>1, <1>6, ReadFailsEffect, Zenon
  <2>3. Timely(r, now, nextTick, closes)
    BY <2>2, TimelyIdle, Zenon
  <2> QED BY <2>1, <2>2, <2>3, DeadlinesMove, Zenon
<1>7. CASE OnMessage(c)
  <2>0. q.reader = "handling" /\ q.id \in Nat
    BY <1>1, <1>3, <1>7, OnMessageEffect, Zenon
  <2>1. CASE SessionRefuses(q)
    <3>1. closes' = closes
      BY <1>1, <1>7, <2>1, OnMessageEffect, Zenon
    <3>2. PICK r : Proceeds(c, r) /\ r.honest = q.honest /\ r.phase # "open"
      BY <1>1, <1>7, <2>1, OnMessageEffect, Zenon
    <3>3. r.kind = q.kind
      BY <3>2, Zenon DEF Proceeds, Moves, Same
    <3>4. ~(q.kind = "normal" /\ q.honest)
      BY <1>2, <2>0, <2>1, PunctualAccepted, Zenon DEF Timely
    <3>5. Timely(r, now, nextTick, closes)
      BY <3>2, <3>3, <3>4, TimelyIdle, Zenon
    <3> QED BY <3>1, <3>2, <3>5, DeadlinesMove, Zenon
  <2>2. CASE ~SessionRefuses(q)
    <3>1. PICK r : r = [SeednodeOnMessage(PingOnMessage(q)) EXCEPT !.reader = "reading"]
      BY Zenon
    <3>2. /\ Proceeds(c, r)
          /\ closes' = closes \cup (IF AddrCloses(q) THEN {CloseTask(q.id, now)} ELSE {})
                         \cup (IF SeednodeOnMessage(PingOnMessage(q)).disconnecting /\ ~q.disconnecting
                               THEN {CloseTask(q.id, now + SeednodeDelay)} ELSE {})
      BY <1>1, <1>7, <2>2, <3>1, OnMessageEffect, Zenon
    <3>3. up = "up" /\ nextTick - TickInterval <= now
      BY <1>1, <3>2, Zenon DEF Proceeds, Moves, ClockOK
    <3>4. Timely(r, now, nextTick, closes')
      BY <1>1, <1>2, <2>0, <3>1, <3>2, <3>3, TimelyHandled, Zenon
    <3>5. now + SeednodeDelay \in Nat
      BY <1>2, IntervalsAssumption
    <3>6. \A t \in closes' : t \in closes \/ (t.id = q.id /\ t.at \in Nat)
      <4>1. ASSUME NEW t \in closes', t \notin closes
            PROVE  t = CloseTask(q.id, now) \/ t = CloseTask(q.id, now + SeednodeDelay)
        BY <3>2, <4>1, Zenon
      <4>2. now \in Nat
        BY <1>2, Zenon
      <4>3. \A at \in Nat : CloseTask(q.id, at).id = q.id /\ CloseTask(q.id, at).at \in Nat
        BY Zenon DEF CloseTask
      <4> QED BY <3>5, <4>1, <4>2, <4>3, Zenon
    <3>7. \A t \in closes : t \in closes'
      BY <3>2, Zenon
    <3> QED BY <2>0, <3>2, <3>4, <3>6, <3>7, DeadlinesMove, Zenon
  <2> QED BY <2>1, <2>2, Zenon
<1>8. ASSUME NEW m \in Messages(q), Read(c, m) PROVE Deadlines'
  <2>1. PICK r : r = Hears(q, m)
    BY Zenon
  <2>2. m \in MessageRecord /\ closes' = closes /\ q.reader = "reading" /\ Proceeds(c, r)
    BY <1>1, <1>8, <2>1, ReadEffect, Zenon
  <2>3. Timely(r, now, nextTick, closes)
    BY <1>1, <1>2, <2>1, <2>2, TimelyRead, Zenon
  <2> QED BY <2>2, <2>3, DeadlinesMove, Zenon
<1> QED BY <1>4, <1>5, <1>6, <1>7, <1>8, Zenon

\* A pending close that runs is needed no longer.
LEMMA DeadlinesRunClose ==
  ASSUME Safe, Deadlines, NEW t \in closes, RunClose(t)
  PROVE  Deadlines'
<1>1. ConnsOK /\ ClockOK
  BY Zenon DEF Safe, Base
<1>2. closes' = closes \ {t} /\ UNCHANGED <<clock, tick, peerCounter>>
  BY <1>1, RunCloseEffect, Zenon
<1>3. ASSUME NEW c \in DOMAIN conns, NEW r, Proceeds(c, r), conns[c].id = t.id, r.honest = conns[c].honest, r.phase = "removed"
      PROVE  Deadlines'
  <2>1. ~(conns[c].kind = "normal" /\ conns[c].honest)
    BY <1>3, Zenon DEF Deadlines, PunctualOK
  <2>2. r.kind = conns[c].kind
    BY <1>3, Zenon DEF Proceeds, Moves, Same
  <2>3. Timely(r, now, nextTick, closes')
    BY <1>3, <2>1, <2>2, TimelyIdle, Zenon
  <2>4. conns[c].id \in Nat
    BY <1>3 DEF Deadlines
  <2>5. \A u \in closes : u \in closes' \/ u.id = conns[c].id
    BY <1>2, <1>3, Zenon
  <2>6. \A u \in closes' : u \in closes
    BY <1>2, Zenon
  <2> QED BY <1>3, <2>3, <2>4, <2>5, <2>6, DeadlinesMove, Zenon
<1>4. ASSUME UNCHANGED <<conns, channels>>, \A c \in channels : conns[c].id # t.id
      PROVE  Deadlines'
  <2>1. ASSUME NEW d \in DOMAIN conns PROVE Timely(conns[d], now, nextTick, closes')
    <3>1. Timely(conns[d], now, nextTick, closes)
      BY Zenon DEF Deadlines, Timely
    <3>2. \A u \in closes : u \in closes' \/ u.id # conns[d].id \/ conns[d].phase # "open"
      BY <1>1, <1>2, <1>4, Zenon DEF ConnsOK
    <3>3. \A u \in closes' : u \in closes
      BY <1>2, Zenon
    <3> QED BY <3>1, <3>2, <3>3, TimelyKept, Zenon
  <2>2. now' = now /\ nextTick' = nextTick /\ peerCounter' = peerCounter /\ conns' = conns
    BY <1>2, <1>4, Zenon DEF clock, tick
  <2> QED BY <1>2, <2>1, <2>2, Zenon DEF Deadlines, Timely
<1> QED BY <1>1, <1>3, <1>4, RunCloseEffect, Zenon

\* Every step keeps the deadlines.
LEMMA DeadlinesStep ==
  ASSUME Safe, Deadlines, [Next]_vars
  PROVE  Deadlines'
<1>0. ClockOK /\ ConnsOK /\ WorkOK /\ WorldOK(world) /\ "tcp" \in Handshaking /\ "receiveVersion" \in Handshaking
  BY WorldsAssumption, Zenon DEF Safe, Base, ClockOK, Handshaking
<1>1. CASE Start
  BY <1>1, DeadlinesStart, Zenon
<1>2. CASE Stop \/ CrashInSave
  BY <1>2 DEF Stop, CrashInSave, Ends, Deadlines
<1>3. CASE Advance
  BY <1>3, DeadlinesAdvance, Zenon
<1>4. CASE Tick
  BY <1>4, DeadlinesTick, Zenon
<1>5. CASE UNCHANGED <<now, nextTick, conns, closes, peerCounter>>
  BY <1>5, Zenon DEF Deadlines
<1>6. CASE TickConnect
  <2>1. Head(dialing) \in Address
    BY <1>0, <1>6 DEF TickConnect, WorkOK
  <2>2. conns' = Append(conns, NewConnection(Head(dialing), "out", "normal", TRUE, "tcp"))
    BY <1>6, Zenon DEF TickConnect, Connect, Dialled
  <2>3. UNCHANGED <<clock, peerCounter, nextTick, closes>>
    BY <1>6, Zenon DEF TickConnect
  <2> QED BY <1>0, <2>1, <2>2, <2>3, DeadlinesGrow, Zenon
<1>7. ASSUME NEW a \in world.addresses, ResolveSeednode(a) \/ AddNode(a) \/ RemoveNode(a) \/ ConnectNormal(a) \/ Listen(a)
      PROVE  Deadlines'
  <2>0. a \in Address
    BY <1>0, Zenon DEF WorldOK
  <2>1. CASE UNCHANGED conns
    BY <1>5, <1>7, <2>1, Zenon DEF ResolveSeednode, AddNode, RemoveNode, ConnectNormal, Listen, clock, tick
  <2>2. UNCHANGED <<clock, peerCounter, nextTick, closes>>
    BY <1>7, Zenon DEF ResolveSeednode, AddNode, RemoveNode, ConnectNormal, Listen, tick
  <2>3. \/ UNCHANGED conns \/ Connect(a, "seed", FALSE) \/ Connect(a, "normal", FALSE) \/ conns' = Append(conns, Accepted(a))
    BY <1>7, Zenon DEF ResolveSeednode, AddNode, RemoveNode, ConnectNormal, Listen
  <2>4. CASE Connect(a, "seed", FALSE)
    <3>1. conns' = Append(conns, NewConnection(a, "out", "seed", FALSE, "tcp"))
      BY <2>4, Zenon DEF Connect, Dialled
    <3> QED BY <1>0, <2>0, <2>2, <3>1, DeadlinesGrow, Zenon
  <2>5. CASE Connect(a, "normal", FALSE)
    <3>1. conns' = Append(conns, NewConnection(a, "out", "normal", FALSE, "tcp"))
      BY <2>5, Zenon DEF Connect, Dialled
    <3> QED BY <1>0, <2>0, <2>2, <3>1, DeadlinesGrow, Zenon
  <2>6. CASE conns' = Append(conns, Accepted(a))
    <3>1. conns' = Append(conns, NewConnection(a, "in", "normal", FALSE, "receiveVersion"))
      BY <2>6, Zenon DEF Accepted
    <3> QED BY <1>0, <2>0, <2>2, <3>1, DeadlinesGrow, Zenon
  <2> QED BY <2>1, <2>3, <2>4, <2>5, <2>6, Zenon
<1>8. CASE TickBound \/ TickSave \/ UNCHANGED vars
  BY <1>5, <1>8, Zenon DEF TickBound, TickSave, vars, clock
<1>9. ASSUME NEW t \in closes, RunClose(t) PROVE Deadlines'
  BY <1>9, DeadlinesRunClose, Zenon
<1>10. ASSUME NEW c \in DOMAIN conns,
              HandshakeWrite(c) \/ ReceiveVerack(c) \/ HandshakeBreaks(c) \/ \E v \in world.versions : ReceiveVersion(c, v)
       PROVE  Deadlines'
  <2>1. \E r : Greets(c, r)
    BY <1>0, <1>10, HandshakeWriteEffect, ReceiveVerackEffect, HandshakeBreaksEffect, ReceiveVersionEffect, Zenon
  <2> QED BY <2>1, DeadlinesGreet, Zenon
<1>11. ASSUME NEW c \in DOMAIN conns,
              \/ FinishClose(c) \/ SyncClose(c) \/ ReadFails(c) \/ OnMessage(c)
              \/ \E m \in Messages(conns[c]) : Read(c, m)
       PROVE  Deadlines'
  BY <1>11, DeadlinesSessions, Zenon
<1> QED BY <1>1, <1>2, <1>3, <1>4, <1>6, <1>7, <1>8, <1>9, <1>10, <1>11, Zenon DEF Next
=============================================================================
