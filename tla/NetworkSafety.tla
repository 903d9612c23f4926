---------------------------- MODULE NetworkSafety ----------------------------
(***************************************************************************)
(* Every step of Network keeps the invariant Safe: the counters, limits,   *)
(* handshakes and dials of the connections, and the table of nodes.        *)
(***************************************************************************)
EXTENDS NetworkSteps

-----------------------------------------------------------------------------
(* What the proofs take from elsewhere, stated as one predicate so that this *)
(* module needs neither the library's theorems nor the node table's lemmas   *)
(* in scope; NetworkProofs proves it from them.                              *)

\* Intervals, subsets, and what one element adds to or takes from a size.
FiniteSetFacts ==
  /\ Cardinality({}) = 0
  /\ \A n \in Nat : IsFiniteSet(1..n) /\ Cardinality(1..n) = n
  /\ \A S : IsFiniteSet(S) => Cardinality(S) \in Nat
  /\ \A S : IsFiniteSet(S) =>
       \A T \in SUBSET S : IsFiniteSet(T) /\ Cardinality(T) <= Cardinality(S)
  /\ \A S : IsFiniteSet(S) => \A x : x \notin S => Cardinality(S \cup {x}) = Cardinality(S) + 1
  /\ \A S : IsFiniteSet(S) => \A x \in S : Cardinality(S \ {x}) = Cardinality(S) - 1

\* Every operation keeps the node table as it should be, what it saves can be
\* loaded, and the peers it chooses are new ones, each once.
TableFacts ==
  /\ \A time : TableOK(NoNodes, time)
  /\ \A t : \A time \in Int : TableOK(t, time) =>
       /\ \A a \in Address, s \in ServiceSets : \A p :
            TableOK(Insert(t, a, s, p, time), time) /\ TableOK(Add(t, a, s, p, time), time)
       /\ \A a : /\ TableOK(Remove(t, a), time)
                 /\ TableOK(NoteUsed(t, a, time), time) /\ TableOK(NoteFailure(t, a), time)
       /\ \A e, p : Len(e) \in Nat /\ (\A i \in 1..Len(e) : EntryOK(e[i])) =>
            TableOK(InsertMany(t, e, p, time), time)
       /\ RowsOK(Save(t), time) /\ \A f \in TornFiles(Save(t)) : RowsOK(f, time)
       /\ \A later \in Int : time <= later => TableOK(t, later)
  /\ \A rows : \A time \in Int : RowsOK(rows, time) =>
       /\ \A p : TableOK(Load(rows, p), time)
       /\ \A later \in Int : time <= later => RowsOK(rows, later)

PeerFacts ==
  \A t, time, services, protocol, except, c : \A limit \in Nat :
    TableOK(t, time) /\ c = NodesWithServices(t, services, protocol, except, limit) =>
      /\ Len(c) \in Nat /\ Len(c) <= limit
      /\ \A i \in 1..Len(c) : c[i].addr \in Address /\ c[i].addr \notin except
      /\ \A i, j \in 1..Len(c) : c[i].addr = c[j].addr => i = j

Known == FiniteSetFacts /\ TableFacts /\ PeerFacts

\* Sizes of finite sets: subsets, one element more and one less.
LEMMA FiniteSizes ==
  ASSUME Known, NEW S, IsFiniteSet(S)
  PROVE  /\ Cardinality(S) \in Nat
         /\ \A T \in SUBSET S : IsFiniteSet(T) /\ Cardinality(T) <= Cardinality(S) /\ Cardinality(T) \in Nat
         /\ \A x : x \notin S => Cardinality(S \cup {x}) = Cardinality(S) + 1
         /\ \A x \in S : Cardinality(S \ {x}) = Cardinality(S) - 1
BY Zenon DEF Known, FiniteSetFacts

\* The sizes of the empty set and of an interval.
LEMMA EmptySize ==
  ASSUME Known
  PROVE  Cardinality({}) = 0 /\ \A n \in Nat : IsFiniteSet(1..n) /\ Cardinality(1..n) = n
BY Zenon DEF Known, FiniteSetFacts

-----------------------------------------------------------------------------
(* A step of one connection, and a new connection, by conjunct.            *)

\* One connection proceeds: every stored channel still had a whole handshake.
LEMMA HandshakesMove ==
  ASSUME ConnsOK, Handshakes, NEW c, NEW r, Proceeds(c, r)
  PROVE  Handshakes'
BY MovedConns, Zenon DEF Handshakes, Proceeds, Moves

\* There are finitely many connections, so that they can be counted.
LEMMA FiniteConns ==
  ASSUME Known, ConnsOK
  PROVE  /\ IsFiniteSet(DOMAIN conns) /\ IsFiniteSet(Incoming) /\ IsFiniteSet(Outgoing) /\ IsFiniteSet(Automatic)
         /\ Cardinality(Incoming) \in Nat /\ Cardinality(Outgoing) \in Nat /\ Cardinality(Automatic) \in Nat
<1>1. DOMAIN conns = 1..Len(conns) /\ Len(conns) \in Nat
  BY DEF ConnsOK
<1>2. IsFiniteSet(DOMAIN conns)
  BY <1>1, EmptySize, Zenon
<1>3. Incoming \subseteq DOMAIN conns /\ Outgoing \subseteq DOMAIN conns /\ Automatic \subseteq DOMAIN conns
  BY Zenon DEF Incoming, Outgoing, Automatic
<1>4. IsFiniteSet(Incoming) /\ IsFiniteSet(Outgoing) /\ IsFiniteSet(Automatic)
  BY <1>2, <1>3, FiniteSizes, Zenon
<1> QED BY <1>2, <1>4, FiniteSizes, Zenon

\* The limits of the configuration are numbers.
LEMMA Configured ==
  ASSUME ClockOK
  PROVE  world.inbound \in Nat /\ world.outbound \in Nat
BY WorldsAssumption, Zenon DEF ClockOK, WorldOK

\* One connection proceeds: the counters are still exact and within the limits.
LEMMA CountedMove ==
  ASSUME Known, ConnsOK, ClockOK, Counted, WorkOK, NEW c, NEW r, Proceeds(c, r)
  PROVE  Counted'
<1>1. /\ c \in DOMAIN conns /\ DOMAIN conns' = DOMAIN conns /\ Same(conns[c], r)
      /\ \A d \in DOMAIN conns : conns'[d] = IF d = c THEN r ELSE conns[d]
  BY MovedConns, Zenon DEF Proceeds, Moves
<1>2. /\ \A d \in DOMAIN conns : conns'[d].dir = conns[d].dir /\ conns'[d].auto = conns[d].auto
      /\ \A d \in DOMAIN conns : d # c => conns'[d].phase = conns[d].phase
      /\ conns'[c].phase = r.phase
  BY <1>1, Zenon DEF Same
<1>3. /\ Incoming = {d \in DOMAIN conns : conns[d].phase \in LivePhases /\ conns[d].dir = "in"}
      /\ Outgoing = {d \in DOMAIN conns : conns[d].phase \in LivePhases /\ conns[d].dir = "out"}
      /\ Automatic = {d \in DOMAIN conns : conns[d].phase \in LivePhases /\ conns[d].auto}
  BY Zenon DEF Incoming, Outgoing, Automatic, Live, LivePhases
<1>4. /\ Incoming' = {d \in DOMAIN conns : conns'[d].phase \in LivePhases /\ conns[d].dir = "in"}
      /\ Outgoing' = {d \in DOMAIN conns : conns'[d].phase \in LivePhases /\ conns[d].dir = "out"}
      /\ Automatic' = {d \in DOMAIN conns : conns'[d].phase \in LivePhases /\ conns[d].auto}
  BY <1>1, <1>2, Zenon DEF Incoming, Outgoing, Automatic, Live, LivePhases
<1>5. world' = world /\ dialing' = dialing /\ world.inbound \in Nat /\ world.outbound \in Nat
  BY Configured, Zenon DEF Proceeds, Moves, clock, tick
<1>6. conns[c].dir \in {"in", "out"}
  <2>1. conns[c] \in Connection
    BY <1>1 DEF ConnsOK
  <2> QED BY <2>1, Zenon DEF Connection
<1>7. conns[c].phase \in LivePhases \/ r.phase \notin LivePhases
  BY Zenon DEF Proceeds
<1>8. Cardinality(Automatic') <= Cardinality(Automatic) /\ Cardinality(Automatic') \in Nat
  <2>1. Automatic' \subseteq Automatic
    BY <1>1, <1>2, <1>3, <1>4, <1>7, Zenon
  <2> QED BY <2>1, FiniteConns, FiniteSizes, Zenon
<1>9. inbound' = Cardinality(Incoming') /\ outbound' = Cardinality(Outgoing') /\ inbound' <= inbound
  <2>1. CASE (conns[c].phase \in LivePhases <=> r.phase \in LivePhases) /\ UNCHANGED counter
    <3>1. Incoming' = Incoming /\ Outgoing' = Outgoing
      BY <1>1, <1>2, <1>3, <1>4, <2>1, Zenon
    <3> QED BY <2>1, <3>1, FiniteConns DEF Counted, counter
  <2>2. CASE conns[c].phase \in LivePhases /\ r.phase \notin LivePhases /\ NoteClose(c) /\ conns[c].dir = "in"
    <3>1. Incoming' = Incoming \ {c} /\ Outgoing' = Outgoing /\ c \in Incoming
      BY <1>1, <1>2, <1>3, <1>4, <2>2, Zenon
    <3>2. Cardinality(Incoming \ {c}) = Cardinality(Incoming) - 1
      BY <3>1, FiniteConns, FiniteSizes, Zenon
    <3> QED BY <2>2, <3>1, <3>2, FiniteConns DEF Counted, NoteClose
  <2>3. CASE conns[c].phase \in LivePhases /\ r.phase \notin LivePhases /\ NoteClose(c) /\ conns[c].dir = "out"
    <3>1. Outgoing' = Outgoing \ {c} /\ Incoming' = Incoming /\ c \in Outgoing
      BY <1>1, <1>2, <1>3, <1>4, <2>3, Zenon
    <3>2. Cardinality(Outgoing \ {c}) = Cardinality(Outgoing) - 1
      BY <3>1, FiniteConns, FiniteSizes, Zenon
    <3> QED BY <2>3, <3>1, <3>2, FiniteConns DEF Counted, NoteClose
  <2> QED BY <1>6, <2>1, <2>2, <2>3, Zenon DEF Proceeds
<1>10. inbound \in Int /\ inbound' \in Int /\ Len(dialing) \in Nat
  BY <1>9, FiniteConns DEF WorkOK, Proceeds, NoteClose, counter
<1>11. inbound' <= world.inbound
  BY <1>5, <1>9, <1>10 DEF Counted
<1>12. Cardinality(Automatic') + Len(dialing) <= world.outbound
  BY <1>5, <1>8, <1>10, FiniteConns DEF Counted
<1> QED BY <1>5, <1>9, <1>11, <1>12, Zenon DEF Counted

\* One connection proceeds: autoconnect's connections still have distinct addresses.
LEMMA DialsMove ==
  ASSUME ConnsOK, ClockOK, Dials, NEW c, NEW r, Proceeds(c, r)
  PROVE  Dials'
<1>1. /\ c \in DOMAIN conns /\ DOMAIN conns' = DOMAIN conns /\ Same(conns[c], r)
      /\ \A d \in DOMAIN conns : conns'[d] = IF d = c THEN r ELSE conns[d]
      /\ now' = now /\ nextTick' = nextTick /\ dialing' = dialing
  BY MovedConns, Zenon DEF Proceeds, Moves, clock, tick
<1>2. ASSUME NEW d \in DOMAIN conns
      PROVE  /\ conns'[d].auto = conns[d].auto /\ conns'[d].addr = conns[d].addr
             /\ conns'[d].since = conns[d].since
  BY <1>1, Zenon DEF Same
<1>3. ASSUME NEW d \in DOMAIN conns, conns'[d].phase \in Handshaking
      PROVE  conns[d].phase \in Handshaking
  BY <1>1, <1>3, Zenon DEF Proceeds
<1>4. ASSUME NEW d \in DOMAIN conns, Busy(d)' PROVE Busy(d)
  BY <1>1, <1>2, <1>3, <1>4, Zenon DEF Busy, Proceeds
<1>5. ASSUME NEW d \in DOMAIN conns
      PROVE  /\ conns'[d].phase \in Handshaking => now <= conns'[d].since + HandshakeDeadline
             /\ conns'[d].auto => conns'[d].since <= nextTick - TickInterval
  BY <1>2, <1>3, Zenon DEF Dials
<1>6. ASSUME NEW d \in DOMAIN conns, NEW i \in DOMAIN dialing, Busy(d)'
      PROVE  conns'[d].addr # dialing[i]
  BY <1>2, <1>4, <1>6, ZenonT(60) DEF Dials
<1>8. ASSUME NEW d \in DOMAIN conns, NEW e \in DOMAIN conns, d # e, Busy(d)', Busy(e)'
      PROVE  conns'[d].addr # conns'[e].addr
  BY <1>2, <1>4, <1>8, Zenon DEF Dials
<1>7. \A i, j \in DOMAIN dialing' : dialing'[i] = dialing'[j] => i = j
  BY <1>1, Zenon DEF Dials
<1> QED BY <1>1, <1>5, <1>6, <1>7, <1>8, Zenon DEF Dials

\* The connections after one was dialled or accepted.
LEMMA GrownConns ==
  ASSUME ConnsOK, NEW r, Grows(r)
  PROVE  /\ Len(conns) \in Nat /\ DOMAIN conns' = DOMAIN conns \cup {Len(conns) + 1}
         /\ Len(conns) + 1 \notin DOMAIN conns
         /\ conns'[Len(conns) + 1] = r /\ \A d \in DOMAIN conns : conns'[d] = conns[d]
BY DEF ConnsOK, Grows

\* A new connection: every stored channel still had a whole handshake.
LEMMA HandshakesGrow ==
  ASSUME ConnsOK, Handshakes, NEW r, Grows(r), HandshakeOK(r)
  PROVE  Handshakes'
BY GrownConns, Zenon DEF Handshakes

\* A new connection, if there was room for it: the counters stay exact and within the limits.
LEMMA CountedGrow ==
  ASSUME Known, ConnsOK, ClockOK, Counted, WorkOK, NEW r, Grows(r), dialing' \in Seq(Address),
         inbound' = inbound + (IF r.dir = "in" THEN 1 ELSE 0), inbound' <= world.inbound,
         outbound' = outbound + (IF r.dir = "out" THEN 1 ELSE 0),
         Len(dialing') + (IF r.auto THEN 1 ELSE 0) <= Len(dialing)
  PROVE  Counted'
<1> DEFINE n == Len(conns) + 1
<1>1. /\ DOMAIN conns' = DOMAIN conns \cup {n} /\ n \notin DOMAIN conns
      /\ conns'[n] = r /\ \A d \in DOMAIN conns : conns'[d] = conns[d]
  BY GrownConns, Zenon
<1>2. r.phase \in LivePhases /\ world' = world /\ r.dir \in {"in", "out"} /\ r.auto \in BOOLEAN
  BY Zenon DEF Grows, LivePhases, clock, Connection
<1> HIDE DEF n
<1>3. /\ Incoming = {d \in DOMAIN conns : conns[d].phase \in LivePhases /\ conns[d].dir = "in"}
      /\ Outgoing = {d \in DOMAIN conns : conns[d].phase \in LivePhases /\ conns[d].dir = "out"}
      /\ Automatic = {d \in DOMAIN conns : conns[d].phase \in LivePhases /\ conns[d].auto}
  BY Zenon DEF Incoming, Outgoing, Automatic, Live, LivePhases
<1>4. /\ Incoming' = {d \in DOMAIN conns' : conns'[d].phase \in LivePhases /\ conns'[d].dir = "in"}
      /\ Outgoing' = {d \in DOMAIN conns' : conns'[d].phase \in LivePhases /\ conns'[d].dir = "out"}
      /\ Automatic' = {d \in DOMAIN conns' : conns'[d].phase \in LivePhases /\ conns'[d].auto}
  BY Zenon DEF Incoming, Outgoing, Automatic, Live, LivePhases
<1>5. /\ Incoming' = IF r.dir = "in" THEN Incoming \cup {n} ELSE Incoming
      /\ n \notin Incoming
  BY <1>1, <1>2, <1>3, <1>4, Zenon
<1>6. /\ Outgoing' = IF r.dir = "out" THEN Outgoing \cup {n} ELSE Outgoing
      /\ n \notin Outgoing
  BY <1>1, <1>2, <1>3, <1>4, Zenon
<1>7. /\ Automatic' = IF r.auto THEN Automatic \cup {n} ELSE Automatic
      /\ n \notin Automatic
  BY <1>1, <1>2, <1>3, <1>4, Zenon
<1>8. inbound' = Cardinality(Incoming')
  <2>1. Cardinality(Incoming \cup {n}) = Cardinality(Incoming) + 1
    BY <1>5, FiniteConns, FiniteSizes, Zenon
  <2>2. inbound = Cardinality(Incoming) /\ Cardinality(Incoming) \in Nat
    BY FiniteConns, Zenon DEF Counted
  <2> QED BY <1>2, <1>5, <2>1, <2>2
<1>9. outbound' = Cardinality(Outgoing')
  <2>1. Cardinality(Outgoing \cup {n}) = Cardinality(Outgoing) + 1
    BY <1>6, FiniteConns, FiniteSizes, Zenon
  <2>2. outbound = Cardinality(Outgoing) /\ Cardinality(Outgoing) \in Nat
    BY FiniteConns, Zenon DEF Counted
  <2> QED BY <1>2, <1>6, <2>1, <2>2
<1>10. Cardinality(Automatic') = Cardinality(Automatic) + (IF r.auto THEN 1 ELSE 0)
  <2>1. Cardinality(Automatic \cup {n}) = Cardinality(Automatic) + 1
    BY <1>7, FiniteConns, FiniteSizes, Zenon
  <2> QED BY <1>2, <1>7, <2>1, FiniteConns
<1>11. Cardinality(Automatic') + Len(dialing') <= world.outbound
  <2>1. Len(dialing) \in Nat /\ Len(dialing') \in Nat /\ world.outbound \in Nat /\ Cardinality(Automatic) \in Nat
    BY Configured, FiniteConns DEF WorkOK
  <2> QED BY <1>2, <1>10, <2>1 DEF Counted
<1> QED BY <1>2, <1>8, <1>9, <1>11, Zenon DEF Counted

\* A new connection, if it is the next one chosen: autoconnect's addresses stay distinct.
LEMMA DialsGrow ==
  ASSUME ConnsOK, ClockOK, Dials, WorkOK, NEW r, Grows(r),
         \/ ~r.auto /\ dialing' = dialing
         \/ r.auto /\ ticking /\ dialing # <<>> /\ r.addr = Head(dialing) /\ dialing' = Tail(dialing)
  PROVE  Dials'
<1> DEFINE n == Len(conns) + 1
<1>1. /\ DOMAIN conns' = DOMAIN conns \cup {n} /\ n \notin DOMAIN conns
      /\ conns'[n] = r /\ \A d \in DOMAIN conns : conns'[d] = conns[d]
  BY GrownConns, Zenon
<1>2. now' = now /\ nextTick' = nextTick /\ r.since = now /\ now \in Nat
  BY Zenon DEF Grows, clock, ClockOK
<1> HIDE DEF n
<1>3. HandshakeDeadline \in Nat /\ now <= now + HandshakeDeadline
  BY <1>2, IntervalsAssumption
<1>4. \A d \in DOMAIN conns' :
        /\ conns'[d].phase \in Handshaking => now <= conns'[d].since + HandshakeDeadline
        /\ conns'[d].auto => conns'[d].since <= nextTick - TickInterval
  <2>1. r.auto => r.since <= nextTick - TickInterval
    BY <1>2, Zenon DEF ClockOK
  <2> QED BY <1>1, <1>2, <1>3, <2>1, Zenon DEF Dials
<1>5. CASE ~r.auto /\ dialing' = dialing
  BY <1>1, <1>2, <1>4, <1>5 DEF Dials, Busy
<1>6. CASE r.auto /\ ticking /\ dialing # <<>> /\ r.addr = Head(dialing) /\ dialing' = Tail(dialing)
  <2>1. /\ Head(dialing) = dialing[1] /\ 1 \in DOMAIN dialing
        /\ \A i \in DOMAIN dialing' : i \in Nat /\ i # 0 /\ i + 1 \in DOMAIN dialing /\ dialing'[i] = dialing[i + 1]
    BY <1>6 DEF WorkOK
  <2>2. \A i, j \in DOMAIN dialing' : dialing'[i] = dialing'[j] => i = j
    BY <2>1 DEF Dials
  <2>3. \A i \in DOMAIN dialing' : dialing'[i] # r.addr
    BY <1>6, <2>1 DEF Dials
  <2>4. \A d \in DOMAIN conns, i \in DOMAIN dialing' : Busy(d) => conns[d].addr # dialing'[i]
    BY <2>1 DEF Dials
  <2>5. \A d \in DOMAIN conns : Busy(d) => conns[d].addr # r.addr
    BY <1>6, <2>1 DEF Dials
  <2>6. \A d \in DOMAIN conns : Busy(d)' <=> Busy(d)
    BY <1>1, Zenon DEF Busy
  <2>7. \A d \in DOMAIN conns', i \in DOMAIN dialing' : Busy(d)' => conns'[d].addr # dialing'[i]
    BY <1>1, <2>3, <2>4, <2>6, Zenon
  <2>8. \A d, e \in DOMAIN conns' : d # e /\ Busy(d)' /\ Busy(e)' => conns'[d].addr # conns'[e].addr
    BY <1>1, <2>5, <2>6, ZenonT(60) DEF Dials
  <2> QED BY <1>2, <1>4, <2>2, <2>7, <2>8, Zenon DEF Dials
<1> QED BY <1>5, <1>6, Zenon

-----------------------------------------------------------------------------
(* The table and its file.                                                 *)

\* Nothing is written: table and file stay sound.
LEMMA StorageKept ==
  ASSUME StorageOK, ClockOK, UNCHANGED <<clock, storage>>
  PROVE  StorageOK'
BY Zenon DEF StorageOK, clock, storage

\* The table changes by an operation that keeps it, the clock and the file do not.
LEMMA StorageUpdated ==
  ASSUME StorageOK, ClockOK, TableOK(table', now), UNCHANGED <<clock, file>>
  PROVE  StorageOK'
BY Zenon DEF StorageOK, clock

\* A failure is noted: table and file stay sound.
LEMMA StorageFailure ==
  ASSUME Known, StorageOK, ClockOK, NEW a, table' = NoteFailure(table, a) \/ table' = table, UNCHANGED <<clock, file>>
  PROVE  StorageOK'
<1>1. TableOK(table', now)
  BY DEF StorageOK, ClockOK, Known, TableFacts
<1> QED BY <1>1, StorageUpdated, Zenon

\* A channel is stored and its node inserted or noted: table and file stay sound.
LEMMA StorageStored ==
  ASSUME Known, StorageOK, ClockOK, NEW c, NEW x \in Connection, StoreChannel(c, x), UNCHANGED <<clock, file>>
  PROVE  StorageOK'
<1>1. x.addr \in Address /\ x.services \in ServiceSets
  BY Zenon DEF Connection
<1>2. table' = Insert(table, x.addr, x.services, world.preferable, now)
  BY Zenon DEF StoreChannel
<1>3. TableOK(table', now)
  BY <1>1, <1>2 DEF StorageOK, ClockOK, Known, TableFacts
<1> QED BY <1>3, StorageUpdated, Zenon

\* Every step keeps the node table and its file sound.
LEMMA StorageStep ==
  ASSUME Known, StorageOK, ClockOK, ConnsOK, Next
  PROVE  StorageOK'
<1>0. now \in Nat /\ now \in Int /\ TableOK(table, now) /\ RowsOK(file, now) /\ WorldOK(world)
  BY WorldsAssumption DEF ClockOK, StorageOK
<1>1. CASE Start
  <2>1. UNCHANGED <<clock, file>> /\ (table' = Load(file, world.preferable) \/ table' = table)
    BY <1>1, Zenon DEF Start
  <2>2. TableOK(table', now)
    BY <1>0, <2>1, Zenon DEF Known, TableFacts
  <2> QED BY <2>1, <2>2, StorageUpdated, Zenon
<1>2. CASE Stop
  <2>1. UNCHANGED <<clock, file>> /\ table' = NoNodes
    BY <1>2, Zenon DEF Stop, Ends
  <2>2. TableOK(table', now)
    BY <2>1, Zenon DEF Known, TableFacts
  <2> QED BY <2>1, <2>2, StorageUpdated, Zenon
<1>3. CASE CrashInSave
  <2>1. now' = now /\ file' \in TornFiles(Save(table)) /\ table' = NoNodes
    BY <1>3, Zenon DEF CrashInSave, Ends, clock
  <2>2. RowsOK(file', now)
    BY <1>0, <2>1, Zenon DEF Known, TableFacts
  <2> QED BY <2>1, <2>2, Zenon DEF StorageOK, Known, TableFacts
<1>4. CASE Advance
  <2>1. now' = now + 1 /\ UNCHANGED storage /\ now' \in Int /\ now <= now'
    BY <1>0, <1>4 DEF Advance
  <2>2. TableOK(table, now') /\ RowsOK(file, now')
    BY <1>0, <2>1, Zenon DEF Known, TableFacts
  <2> QED BY <2>1, <2>2, Zenon DEF StorageOK, storage
<1>5. CASE TickSave
  <2>1. now' = now /\ file' = Save(table) /\ table' = table
    BY <1>5, Zenon DEF TickSave, clock
  <2> QED BY <1>0, <2>1, Zenon DEF StorageOK, Known, TableFacts
<1>6. CASE Tick \/ TickConnect \/ TickBound
  BY <1>6, StorageKept, Zenon DEF Tick, TickConnect, TickBound
<1>7. ASSUME NEW a \in world.addresses, ResolveSeednode(a) \/ AddNode(a) \/ RemoveNode(a) \/ ConnectNormal(a) \/ Listen(a)
      PROVE  StorageOK'
  <2>0. a \in Address /\ world.services \in ServiceSets
    BY <1>0, Zenon DEF WorldOK
  <2>1. CASE ResolveSeednode(a) \/ ConnectNormal(a) \/ Listen(a)
    BY <2>1, StorageKept, Zenon DEF ResolveSeednode, ConnectNormal, Listen
  <2>2. CASE AddNode(a)
    <3>1. table' = Add(table, a, world.services, world.preferable, now) /\ UNCHANGED <<clock, file>>
      BY <2>2, Zenon DEF AddNode
    <3>2. TableOK(table', now)
      BY <1>0, <2>0, <3>1, Zenon DEF Known, TableFacts
    <3> QED BY <3>1, <3>2, StorageUpdated, Zenon
  <2>3. CASE RemoveNode(a)
    <3>1. table' = Remove(table, a) /\ UNCHANGED <<clock, file>>
      BY <2>3, Zenon DEF RemoveNode
    <3>2. TableOK(table', now)
      BY <1>0, <3>1, Zenon DEF Known, TableFacts
    <3> QED BY <3>1, <3>2, StorageUpdated, Zenon
  <2> QED BY <1>7, <2>1, <2>2, <2>3, Zenon
<1>8. ASSUME NEW t \in closes, RunClose(t) PROVE StorageOK'
  BY <1>8, StorageKept, Zenon DEF RunClose
<1>9. ASSUME NEW c \in DOMAIN conns,
             \/ HandshakeWrite(c) \/ ReceiveVerack(c) \/ HandshakeBreaks(c)
             \/ \E v \in world.versions : ReceiveVersion(c, v)
      PROVE  StorageOK'
  <2>0. conns[c] \in Connection
    BY Present, Zenon
  <2>1. CASE HandshakeWrite(c)
    <3>1. UNCHANGED <<clock, file>>
      BY <2>1, Zenon DEF HandshakeWrite
    <3>2. CASE conns[c].phase = "sendVerack" /\ conns[c].dir = "in"
      <4>1. PICK t \in Seq(Commands) : t = Append(conns[c].sent, "verack")
        <5>1. conns[c].sent \in Seq(Commands) /\ "verack" \in Commands
          BY <2>0, Zenon DEF Connection, Commands
        <5> QED BY <5>1, SentType, Zenon
      <4>2. PICK x : x = [conns[c] EXCEPT !.sent = t]
        BY Zenon
      <4>3. x \in Connection
        BY <2>0, <4>2, Zenon DEF Connection
      <4>4. StoreChannel(c, x)
        BY <2>1, <3>2, <4>1, <4>2, Zenon DEF HandshakeWrite
      <4> QED BY <3>1, <4>3, <4>4, StorageStored, Zenon
    <3>3. CASE ~(conns[c].phase = "sendVerack" /\ conns[c].dir = "in")
      <4>1. conns[c].dir \in {"in", "out"}
        BY <2>0, Zenon DEF Connection
      <4>2. UNCHANGED table
        BY <2>1, <3>3, <4>1, Zenon DEF HandshakeWrite, Continue
      <4> QED BY <3>1, <4>2, StorageKept, Zenon DEF storage
    <3> QED BY <3>2, <3>3, Zenon
  <2>2. CASE ReceiveVerack(c)
    <3>1. StoreChannel(c, conns[c]) /\ UNCHANGED <<clock, file>>
      BY <2>2, Zenon DEF ReceiveVerack
    <3> QED BY <2>0, <3>1, StorageStored, Zenon
  <2>3. CASE HandshakeBreaks(c)
    BY <2>3, StorageFailure, Zenon DEF HandshakeBreaks, HandshakeFailed
  <2>4. ASSUME NEW v \in world.versions, ReceiveVersion(c, v) PROVE StorageOK'
    <3>1. UNCHANGED <<clock, file>> /\ (table' = table \/ table' = NoteFailure(table, conns[c].addr))
      BY <2>4, Zenon DEF ReceiveVersion, Continue, HandshakeFailed
    <3> QED BY <3>1, StorageFailure, Zenon
  <2> QED BY <1>9, <2>1, <2>2, <2>3, <2>4, Zenon
<1>10. ASSUME NEW c \in DOMAIN conns,
              \/ FinishClose(c) \/ SyncClose(c) \/ ReadFails(c) \/ OnMessage(c)
              \/ \E m \in Messages(conns[c]) : Read(c, m)
       PROVE  StorageOK'
  <2>1. CASE FinishClose(c) \/ SyncClose(c)
    <3>1. UNCHANGED <<clock, file>> /\ (table' = table \/ table' = NoteFailure(table, conns[c].addr))
      BY <2>1, Zenon DEF FinishClose, SyncClose
    <3> QED BY <3>1, StorageFailure, Zenon
  <2>2. CASE ReadFails(c)
    BY <2>2, StorageKept, Zenon DEF ReadFails
  <2>3. ASSUME NEW m \in Messages(conns[c]), Read(c, m) PROVE StorageOK'
    BY <2>3, StorageKept, Zenon DEF Read
  <2>4. CASE OnMessage(c)
    <3>1. UNCHANGED <<clock, file>>
          /\ (table' = table \/ table' = NoteUsed(AddrOnMessage(conns[c]), conns[c].addr, now))
      BY <2>4, Zenon DEF OnMessage
    <3>2. TableOK(AddrOnMessage(conns[c]), now)
      <4>1. conns[c].msg \in MessageRecord
        <5>1. conns[c] \in Connection
          BY Present, Zenon
        <5> QED BY <5>1, Zenon DEF Connection
      <4>2. PICK e : e = conns[c].msg.entries
        BY Zenon
      <4>3. Len(e) \in Nat /\ \A i \in 1..Len(e) : EntryOK(e[i])
        <5>1. e \in Seq(AddrEntry)
          BY <4>1, <4>2, Zenon DEF MessageRecord, AddrLists
        <5>2. ASSUME NEW x \in AddrEntry PROVE EntryOK(x)
          BY Zenon DEF AddrEntry, EntryOK
        <5> QED BY <5>1, <5>2
      <4>4. TableOK(InsertMany(table, e, world.preferable, now), now)
        BY <1>0, <4>3, Zenon DEF Known, TableFacts
      <4> QED BY <1>0, <4>2, <4>4, Zenon DEF AddrOnMessage
    <3>3. TableOK(NoteUsed(AddrOnMessage(conns[c]), conns[c].addr, now), now)
      BY <1>0, <3>2, Zenon DEF Known, TableFacts
    <3>4. TableOK(table', now)
      BY <1>0, <3>1, <3>3, Zenon
    <3> QED BY <3>1, <3>4, StorageUpdated, Zenon
  <2> QED BY <1>10, <2>1, <2>2, <2>3, <2>4, Zenon
<1> QED BY <1>1, <1>2, <1>3, <1>4, <1>5, <1>6, <1>7, <1>8, <1>9, <1>10, Zenon DEF Next

-----------------------------------------------------------------------------
(* The invariant behind ConnectionsSound and NodeTableSound.               *)

\* One connection proceeds: everything but the storage is kept.
LEMMA SafeProceeds ==
  ASSUME Known, Safe, NEW c, NEW r, Proceeds(c, r)
  PROVE  ClockOK' /\ ConnsOK' /\ WorkOK' /\ Handshakes' /\ Counted' /\ Dials'
<1>1. ClockOK /\ ConnsOK /\ WorkOK /\ Handshakes /\ Counted /\ Dials
  BY Zenon DEF Safe, Base
<1>2. Moves(c, r)
  BY Zenon DEF Proceeds
<1>3. ClockOK'
  BY <1>1, <1>2, Zenon DEF ClockOK, Moves, clock, tick
<1>4. ConnsOK'
  BY <1>1, ConnsMove, Zenon DEF Proceeds
<1>5. WorkOK'
  <2>1. inbound' \in Int /\ outbound' \in Int
    BY <1>1 DEF Proceeds, NoteClose, counter, WorkOK
  <2> QED BY <1>1, <1>2, <2>1, Zenon DEF WorkOK, Moves, tick
<1> QED BY <1>1, <1>3, <1>4, <1>5, HandshakesMove, CountedMove, DialsMove, Zenon

\* No connection changes its place: what a tick and the clock do, and every
\* step that leaves the connections alone.
Steady ==
  /\ conns' \in Seq(Connection) /\ DOMAIN conns' = DOMAIN conns
  /\ \A d \in DOMAIN conns : /\ Stays(conns[d], conns'[d]) /\ conns'[d].phase = conns[d].phase
                             /\ StageOK(conns'[d], now', peerCounter)
  /\ UNCHANGED <<world, up, channels, peerCounter, counter>>

\* The connections stay and only their pings change: they stay well-formed.
LEMMA SteadyConns ==
  ASSUME ConnsOK, now' \in Nat, Steady
  PROVE  ConnsOK'
BY ConnsAll, Zenon DEF Steady, Stays

\* The connections stay and only their pings change: handshakes stay whole.
LEMMA SteadyHandshakes ==
  ASSUME Handshakes, Steady
  PROVE  Handshakes'
BY SMTT(60) DEF Handshakes, Steady, HandshakeOK, Stays, Same

\* The connections stay and the dials chosen fit the limit: the counters stay exact.
LEMMA SteadyCounted ==
  ASSUME ConnsOK, Counted, Steady, Cardinality(Automatic) + Len(dialing') <= world.outbound
  PROVE  Counted'
<1>1. \A d \in DOMAIN conns : /\ conns'[d].phase = conns[d].phase /\ conns'[d].dir = conns[d].dir
                             /\ conns'[d].auto = conns[d].auto
  BY Zenon DEF Steady, Stays, Same
<1>2. DOMAIN conns' = DOMAIN conns /\ UNCHANGED <<world, counter>>
  BY Zenon DEF Steady
<1>3. Incoming' = Incoming /\ Outgoing' = Outgoing /\ Automatic' = Automatic
  BY <1>1, <1>2, Zenon DEF Incoming, Outgoing, Automatic, Live
<1> QED BY <1>2, <1>3, Zenon DEF Counted, counter

\* The connections stay and no dial is added: the addresses stay distinct.
LEMMA SteadyDials ==
  ASSUME Dials, Steady, UNCHANGED <<now, nextTick>>, dialing' = dialing \/ dialing' = <<>>
  PROVE  Dials'
<1>1. ASSUME NEW d \in DOMAIN conns
      PROVE  /\ conns'[d].phase = conns[d].phase /\ conns'[d].addr = conns[d].addr
             /\ conns'[d].auto = conns[d].auto /\ conns'[d].since = conns[d].since
  BY Zenon DEF Steady, Stays, Same
<1>2. DOMAIN conns' = DOMAIN conns
  BY Zenon DEF Steady
<1>3. ASSUME NEW d \in DOMAIN conns, Busy(d)' PROVE Busy(d)
  BY <1>1, <1>3, Zenon DEF Busy
<1>4. \A i \in DOMAIN dialing' : i \in DOMAIN dialing /\ dialing'[i] = dialing[i]
  OBVIOUS
<1>5. ASSUME NEW d \in DOMAIN conns
      PROVE  /\ conns'[d].phase \in Handshaking => now <= conns'[d].since + HandshakeDeadline
             /\ conns'[d].auto => conns'[d].since <= nextTick - TickInterval
  BY <1>1, Zenon DEF Dials
<1>6. ASSUME NEW d \in DOMAIN conns, NEW i \in DOMAIN dialing', Busy(d)'
      PROVE  conns'[d].addr # dialing'[i]
  BY <1>1, <1>3, <1>4, <1>6 DEF Dials
<1>7. ASSUME NEW d \in DOMAIN conns, NEW e \in DOMAIN conns, d # e, Busy(d)', Busy(e)'
      PROVE  conns'[d].addr # conns'[e].addr
  BY <1>1, <1>3, <1>7, Zenon DEF Dials
<1>8. \A i, j \in DOMAIN dialing' : dialing'[i] = dialing'[j] => i = j
  BY <1>4, Zenon DEF Dials
<1> QED BY <1>2, <1>5, <1>6, <1>7, <1>8, Zenon DEF Dials

\* A step that leaves the connections and their counters alone.
LEMMA SafeIdle ==
  ASSUME Known, Safe, UNCHANGED <<clock, up, conns, channels, peerCounter, counter, nextTick>>,
         dialing' = dialing \/ dialing' = <<>>, ticking' = ticking \/ (ticking' = FALSE /\ dialing' = <<>>),
         up = "up"
  PROVE  ClockOK' /\ ConnsOK' /\ WorkOK' /\ Handshakes' /\ Counted' /\ Dials'
<1>1. ClockOK /\ ConnsOK /\ WorkOK /\ Handshakes /\ Counted /\ Dials
  BY Zenon DEF Safe, Base
<1>2. Steady
  BY <1>1, Zenon DEF Steady, ConnsOK, Stays, Same, clock
<1>3. ClockOK'
  <2>1. ticking' \in BOOLEAN /\ (ticking' => ticking)
    <3>1. ticking \in BOOLEAN
      BY <1>1, Zenon DEF ClockOK
    <3>2. ticking' = ticking \/ ticking' = FALSE
      BY Zenon
    <3>3. CASE ticking' = ticking
      BY <3>1, <3>3, Zenon
    <3>4. CASE ticking' = FALSE
      BY <3>4, Zenon
    <3> QED BY <3>2, <3>3, <3>4, Zenon
  <2>2. world' = world /\ now' = now /\ up' = up /\ nextTick' = nextTick
    BY Zenon DEF clock
  <2> QED BY <1>1, <2>1, <2>2, Zenon DEF ClockOK
<1>4. Cardinality(Automatic) + Len(dialing') <= world.outbound
  <2>1. Len(dialing) \in Nat /\ Len(<<>>) = 0 /\ world.outbound \in Nat /\ Cardinality(Automatic) \in Nat
    BY <1>1, Configured, FiniteConns DEF WorkOK
  <2> QED BY <1>1, <2>1 DEF Counted
<1>5. WorkOK'
  <2>1. ~ticking' => dialing' = <<>>
    <3>1. ~ticking => dialing = <<>>
      BY <1>1, Zenon DEF WorkOK
    <3>2. CASE ticking' = ticking /\ dialing' = dialing
      BY <3>1, <3>2, Zenon
    <3>3. CASE dialing' = <<>>
      BY <3>3, Zenon
    <3> QED BY <3>2, <3>3, Zenon
  <2>2. dialing' \in Seq(Address)
    <3>1. dialing \in Seq(Address) /\ <<>> \in Seq(Address)
      BY <1>1 DEF WorkOK
    <3>2. dialing' = dialing \/ dialing' = <<>>
      BY Zenon
    <3> QED BY <3>1, <3>2, Zenon
  <2>3. inbound' \in Int /\ outbound' \in Int /\ up' = "up"
    BY <1>1, Zenon DEF WorkOK, counter
  <2> QED BY <2>1, <2>2, <2>3, Zenon DEF WorkOK
<1>6. ConnsOK' /\ Handshakes'
  BY <1>1, <1>2, <1>3, SteadyConns, SteadyHandshakes, Zenon DEF ClockOK
<1>7. Counted' /\ Dials'
  BY <1>1, <1>2, <1>4, SteadyCounted, SteadyDials, Zenon DEF clock
<1> QED BY <1>3, <1>5, <1>6, <1>7, Zenon

\* A dial or an accepted stream.
LEMMA SafeGrows ==
  ASSUME Known, Safe, NEW a \in Address, NEW dir \in {"in", "out"}, NEW kind \in {"normal", "seed"}, NEW auto \in BOOLEAN,
         auto => dir = "out", NEW phase, phase = IF dir = "out" THEN "tcp" ELSE "receiveVersion",
         conns' = Append(conns, NewConnection(a, dir, kind, auto, phase)),
         up = "up", UNCHANGED <<clock, up, channels, peerCounter, nextTick, ticking, closes>>,
         inbound' = inbound + (IF dir = "in" THEN 1 ELSE 0), inbound' <= world.inbound,
         outbound' = outbound + (IF dir = "out" THEN 1 ELSE 0),
         \/ ~auto /\ dialing' = dialing
         \/ auto /\ ticking /\ dialing # <<>> /\ a = Head(dialing) /\ dialing' = Tail(dialing)
  PROVE  ClockOK' /\ ConnsOK' /\ WorkOK' /\ Handshakes' /\ Counted' /\ Dials'
<1>1. ClockOK /\ ConnsOK /\ WorkOK /\ Handshakes /\ Counted /\ Dials
  BY Zenon DEF Safe, Base
<1>2. phase \in Handshaking /\ now' = now /\ now \in Nat
  BY <1>1, Zenon DEF Handshaking, ClockOK, clock
<1>3. ClockOK'
  BY <1>1, Zenon DEF ClockOK, clock
<1>4. ConnsOK'
  BY <1>1, <1>2, ConnsGrow, Zenon
<1>5. PICK r : r = NewConnection(a, dir, kind, auto, phase)
  BY Zenon
<1>6. IsNew(r, a, dir, kind, auto, phase, now)
  BY <1>2, <1>5, NewConnectionType, Zenon
<1>7. r \in Connection /\ r.addr = a /\ r.dir = dir /\ r.auto = auto /\ r.phase = phase /\ r.since = now /\ r.sent = <<>>
  BY <1>6, Zenon DEF IsNew
<1>8. Grows(r)
  BY <1>2, <1>5, <1>7, Zenon DEF Grows
<1>9. HandshakeOK(r)
  BY <1>7, Zenon DEF HandshakeOK
<1>10. dialing' \in Seq(Address) /\ Len(dialing') + (IF auto THEN 1 ELSE 0) <= Len(dialing)
  <2>1. dialing \in Seq(Address)
    BY <1>1, Zenon DEF WorkOK
  <2>2. CASE ~auto /\ dialing' = dialing
    BY <2>1, <2>2
  <2>3. CASE auto /\ dialing # <<>> /\ dialing' = Tail(dialing)
    <3>1. dialing' \in Seq(Address) /\ Len(dialing') = Len(dialing) - 1 /\ Len(dialing) \in Nat
      BY <2>1, <2>3
    <3> QED BY <2>3, <3>1
  <2> QED BY <2>2, <2>3, Zenon
<1>11. WorkOK'
  BY <1>1, <1>10 DEF WorkOK
<1>12. Handshakes'
  BY <1>1, <1>8, <1>9, HandshakesGrow, Zenon
<1>13. Counted'
  BY <1>1, <1>7, <1>8, <1>10, CountedGrow, Zenon
<1>14. Dials'
  BY <1>1, <1>7, <1>8, DialsGrow, Zenon
<1> QED BY <1>3, <1>4, <1>11, <1>12, <1>13, <1>14, Zenon

\* The autoconnect tick (maintain, the ping of each channel, the choice of the dials).
LEMMA SafeTick ==
  ASSUME Known, Safe, Tick
  PROVE  ClockOK' /\ ConnsOK' /\ WorkOK' /\ Handshakes' /\ Counted' /\ Dials'
<1>1. ClockOK /\ ConnsOK /\ WorkOK /\ Handshakes /\ Counted /\ Dials /\ StorageOK
  BY Zenon DEF Safe, Base
<1>2. /\ up = "up" /\ now = nextTick /\ ~ticking /\ ticking' = TRUE /\ nextTick' = nextTick + TickInterval
      /\ UNCHANGED <<clock, up, storage, channels, peerCounter, counter, lookups, inputs>>
      /\ conns' = [i \in DOMAIN conns |-> IF i \in channels THEN Maintain(conns[i]) ELSE conns[i]]
  BY Zenon DEF Tick
<1>3. now \in Nat /\ nextTick \in Nat /\ TickInterval \in Nat /\ HandshakeDeadline \in Nat /\ HandshakeDeadline < TickInterval
      /\ world' = world /\ now' = now
  BY <1>1, <1>2, IntervalsAssumption, Zenon DEF ClockOK, clock
<1>4. ClockOK'
  <2>1. nextTick' \in Nat /\ nextTick' - TickInterval = now /\ now <= nextTick'
    BY <1>2, <1>3
  <2> QED BY <1>1, <1>2, <1>3, <2>1, Zenon DEF ClockOK
<1>5. ASSUME NEW d \in DOMAIN conns
      PROVE  /\ conns'[d] \in Connection /\ Stays(conns[d], conns'[d]) /\ conns'[d].phase = conns[d].phase
             /\ StageOK(conns'[d], now, peerCounter)
  <2>1. conns[d] \in Connection /\ StageOK(conns[d], now, peerCounter) /\ (d \in channels => conns[d].phase = "open")
    BY <1>1, Present, Zenon
  <2>2. CASE d \notin channels
    BY <1>2, <2>1, <2>2, Zenon DEF Stays, Same
  <2>3. CASE d \in channels
    <3>1. PICK r : r = Maintain(conns[d])
      BY Zenon
    <3>2. /\ r \in Connection /\ r.addr = conns[d].addr /\ r.dir = conns[d].dir /\ r.kind = conns[d].kind
          /\ r.auto = conns[d].auto /\ r.phase = conns[d].phase /\ r.since = conns[d].since /\ r.sent = conns[d].sent
          /\ r.version = conns[d].version /\ r.id = conns[d].id /\ r.heard = conns[d].heard
          /\ r.reader = conns[d].reader /\ r.ended = conns[d].ended
          /\ r.ping.at = now \/ r = conns[d]
      BY <1>3, <2>1, <3>1, MaintainType, ZenonT(60)
    <3>3. r.ping.at <= now
      BY <1>3, <2>1, <3>2 DEF StageOK
    <3>4. r.phase \notin Handshaking \cup {"failed"}
      BY <2>1, <2>3, <3>2, Zenon DEF Handshaking
    <3>5. StageOK(r, now, peerCounter)
      BY <2>1, <3>2, <3>3, <3>4, Zenon DEF StageOK
    <3>6. conns'[d] = r
      BY <1>2, <2>3, <3>1, Zenon
    <3> QED BY <3>2, <3>5, <3>6, Zenon DEF Stays, Same
  <2> QED BY <2>2, <2>3, Zenon
<1>6. Steady
  <2>1. DOMAIN conns' = DOMAIN conns /\ DOMAIN conns = 1..Len(conns) /\ Len(conns) \in Nat
    BY <1>1, <1>2 DEF ConnsOK
  <2>2. conns' \in Seq(Connection)
    <3>1. conns' = [d \in 1..Len(conns) |-> conns'[d]]
      BY <1>2, <2>1, Zenon
    <3> QED BY <1>5, <2>1, <3>1
  <2> QED BY <1>2, <1>3, <1>5, <2>1, <2>2, Zenon DEF Steady
<1> DEFINE used == {conns[i].addr : i \in channels}
           none == {}
<1>7. PICK peers : /\ peers = NodesWithServices(table, none, world.protocol, used, OutboundConnectionsNeeded)
                   /\ dialing' = [i \in 1..Len(peers) |-> peers[i].addr]
  BY Zenon DEF Tick
<1>8. OutboundConnectionsNeeded \in Nat
  BY <1>1, Configured DEF OutboundConnectionsNeeded, WorkOK
<1>9. /\ Len(peers) \in Nat /\ Len(peers) <= OutboundConnectionsNeeded
      /\ \A i \in 1..Len(peers) : peers[i].addr \in Address /\ peers[i].addr \notin used
      /\ \A i, j \in 1..Len(peers) : peers[i].addr = peers[j].addr => i = j
  <2> HIDE DEF used, none
  <2>1. TableOK(table, now)
    BY <1>1, Zenon DEF StorageOK
  <2> QED BY <1>7, <1>8, <2>1 DEF Known, PeerFacts
<1>10. dialing' \in Seq(Address) /\ Len(dialing') = Len(peers) /\ DOMAIN dialing' = 1..Len(peers)
  BY <1>7, <1>9
<1>11. WorkOK'
  BY <1>1, <1>2, <1>10, Zenon DEF WorkOK, counter
<1>12. Cardinality(Automatic) + Len(dialing') <= world.outbound
  <2>1. Automatic \subseteq Outgoing
    <3>1. \A d \in DOMAIN conns : conns[d].auto => conns[d].dir = "out"
      BY <1>1, Zenon DEF ConnsOK, StageOK
    <3> QED BY <3>1, Zenon DEF Automatic, Outgoing
  <2>2. Cardinality(Automatic) <= outbound /\ Cardinality(Automatic) \in Nat /\ outbound \in Nat
    BY <1>1, <2>1, FiniteConns, FiniteSizes, Zenon DEF Counted
  <2>3. Cardinality(Automatic) <= world.outbound /\ world.outbound \in Nat
    <3>1. Len(dialing) \in Nat /\ world.outbound \in Nat
      BY <1>1, Configured DEF WorkOK
    <3> QED BY <1>1, <2>2, <3>1 DEF Counted
  <2> QED BY <1>9, <1>10, <2>2, <2>3 DEF OutboundConnectionsNeeded
<1>13. Dials'
  <2>1. ASSUME NEW d \in DOMAIN conns
        PROVE  /\ conns'[d].phase = conns[d].phase /\ conns'[d].addr = conns[d].addr
               /\ conns'[d].auto = conns[d].auto /\ conns'[d].since = conns[d].since /\ conns[d].since \in Nat
    <3>1. conns[d] \in Connection
      BY <1>1, Present, Zenon
    <3> QED BY <1>5, <3>1, Zenon DEF Stays, Same, Connection
  <2>2. DOMAIN conns' = DOMAIN conns
    BY <1>2, Zenon
  <2>3. ASSUME NEW d \in DOMAIN conns, Busy(d)' PROVE Busy(d)
    BY <2>1, <2>3, Zenon DEF Busy
  <2>4. ASSUME NEW d \in DOMAIN conns, Busy(d) PROVE conns[d].addr \in {conns[e].addr : e \in channels}
    <3>1. conns[d].since <= nextTick - TickInterval
      BY <1>1, <2>4, Zenon DEF Dials, Busy
    <3>2. ~(now <= conns[d].since + HandshakeDeadline)
      BY <1>2, <1>3, <2>1, <3>1
    <3>3. conns[d].phase \notin Handshaking
      BY <1>1, <3>2, Zenon DEF Dials
    <3> QED BY <1>1, <2>4, <3>3, Zenon DEF Busy, ConnsOK
  <2>5. ASSUME NEW d \in DOMAIN conns
        PROVE  /\ conns'[d].phase \in Handshaking => now <= conns'[d].since + HandshakeDeadline
               /\ conns'[d].auto => conns'[d].since <= nextTick' - TickInterval
    <3>1. conns[d].phase \in Handshaking => now <= conns[d].since + HandshakeDeadline
      BY <1>1, Zenon DEF Dials
    <3>2. conns[d].auto => conns[d].since <= nextTick - TickInterval
      BY <1>1, Zenon DEF Dials
    <3>3. nextTick - TickInterval <= nextTick' - TickInterval /\ nextTick' \in Nat
      BY <1>2, <1>3
    <3>4. /\ conns'[d].phase = conns[d].phase /\ conns'[d].auto = conns[d].auto
          /\ conns'[d].since = conns[d].since /\ conns[d].since \in Nat
      BY <2>1, Zenon
    <3>5. conns'[d].phase \in Handshaking => now <= conns'[d].since + HandshakeDeadline
      BY <3>1, <3>4, Zenon
    <3>6. ASSUME conns'[d].auto PROVE conns'[d].since <= nextTick' - TickInterval
      <4>1. conns[d].since <= nextTick - TickInterval
        BY <3>2, <3>4, <3>6, Zenon
      <4>2. nextTick - TickInterval \in Int /\ nextTick' - TickInterval \in Int
        BY <1>1, <3>3, IntervalsAssumption DEF ClockOK
      <4>3. conns[d].since <= nextTick' - TickInterval
        BY <3>3, <3>4, <4>1, <4>2
      <4> QED BY <3>4, <4>3, Zenon
    <3> QED BY <3>5, <3>6, Zenon
  <2>6. ASSUME NEW d \in DOMAIN conns, NEW i \in DOMAIN dialing', Busy(d)'
        PROVE  conns'[d].addr # dialing'[i]
    <3>1. conns'[d].addr \in used
      BY <2>1, <2>3, <2>4, <2>6, Zenon
    <3>2. i \in 1..Len(peers) /\ dialing'[i] = peers[i].addr
      BY <1>7, <1>10, <2>6, Zenon
    <3> QED BY <1>9, <3>1, <3>2, Zenon
  <2>7. ASSUME NEW d \in DOMAIN conns, NEW e \in DOMAIN conns, d # e, Busy(d)', Busy(e)'
        PROVE  conns'[d].addr # conns'[e].addr
    BY <1>1, <2>1, <2>3, <2>7, Zenon DEF Dials
  <2>8. \A i, j \in DOMAIN dialing' : dialing'[i] = dialing'[j] => i = j
    BY <1>7, <1>9, <1>10, Zenon
  <2> QED BY <1>3, <2>2, <2>5, <2>6, <2>7, <2>8, Zenon DEF Dials
<1> QED BY <1>1, <1>3, <1>4, <1>6, <1>11, <1>12, <1>13, SteadyConns, SteadyHandshakes, SteadyCounted, Zenon

\* Time passes: what becomes of one connection.
LEMMA AdvanceConns ==
  ASSUME ConnsOK, ClockOK, Advance, NEW d \in DOMAIN conns
  PROVE  /\ conns'[d] \in Connection /\ Stays(conns[d], conns'[d]) /\ conns'[d].phase = conns[d].phase
         /\ StageOK(conns'[d], now + 1, peerCounter) /\ conns'[d] = Later(conns[d])
<1>1. conns[d] \in Connection /\ StageOK(conns[d], now, peerCounter) /\ now \in Nat /\ peerCounter \in Nat
  BY Present, Zenon
<1>2. StageOK(conns[d], now + 1, peerCounter)
  BY <1>1, StageStays
<1>3. PICK r : r = Later(conns[d])
  BY Zenon
<1>4. /\ r \in Connection /\ Stays(conns[d], r) /\ Same(conns[d], r) /\ r.phase = conns[d].phase
      /\ r.ended = conns[d].ended /\ r.reader = conns[d].reader /\ r.owed = conns[d].owed /\ r.nonce = conns[d].nonce
      /\ r.addrAt = conns[d].addrAt /\ r.disconnecting = conns[d].disconnecting
      /\ r.heard = conns[d].heard /\ r.ping = conns[d].ping
  BY <1>1, <1>3, LaterType, Zenon
<1>5. StageOK(r, now + 1, peerCounter)
  BY <1>2, <1>4, Zenon DEF StageOK, Stays, Same
<1>6. conns'[d] = r
  BY <1>3, Zenon DEF Advance
<1> QED BY <1>3, <1>4, <1>5, <1>6, Zenon

\* Time passes.
LEMMA SafeAdvance ==
  ASSUME Safe, Advance
  PROVE  ClockOK' /\ ConnsOK' /\ WorkOK' /\ Handshakes' /\ Counted' /\ Dials'
<1>1. ClockOK /\ ConnsOK /\ WorkOK /\ Handshakes /\ Counted /\ Dials
  BY Zenon DEF Safe, Base
<1>2. /\ up = "up" /\ now < nextTick /\ ~ticking /\ now' = now + 1 /\ now \in Nat /\ now' \in Nat /\ nextTick \in Nat
      /\ UNCHANGED <<world, up, channels, peerCounter, counter, tick>> /\ DOMAIN conns' = DOMAIN conns
  BY <1>1 DEF Advance, ClockOK
<1>3. ClockOK'
  BY <1>1, <1>2, IntervalsAssumption, SMTT(60) DEF ClockOK, tick
<1>4. Steady
  <2>1. DOMAIN conns = 1..Len(conns) /\ Len(conns) \in Nat
    BY <1>1 DEF ConnsOK
  <2>2. conns' \in Seq(Connection)
    <3>1. conns' = [d \in 1..Len(conns) |-> conns'[d]]
      BY <2>1, Zenon DEF Advance
    <3> QED BY <1>1, <2>1, <3>1, AdvanceConns, SMTT(60)
  <2> QED BY <1>1, <1>2, <2>2, AdvanceConns, Zenon DEF Steady
<1>5. WorkOK'
  BY <1>1, <1>2, Zenon DEF WorkOK, tick, counter
<1>6. Cardinality(Automatic) + Len(dialing') <= world.outbound
  BY <1>1, <1>2, Zenon DEF Counted, tick
<1>7. Dials'
  <2>1. ASSUME NEW d \in DOMAIN conns
        PROVE  /\ conns'[d].phase = conns[d].phase /\ conns'[d].addr = conns[d].addr
               /\ conns'[d].auto = conns[d].auto /\ conns'[d].since = conns[d].since /\ conns[d].since \in Nat
    <3>1. conns[d] \in Connection
      BY <1>1, Present, Zenon
    <3> QED BY <1>4, <3>1, Zenon DEF Steady, Stays, Same, Connection
  <2>2. ASSUME NEW d \in DOMAIN conns, conns[d].phase \in Handshaking PROVE now + 1 <= conns[d].since + HandshakeDeadline
    <3>1. now < conns[d].since + HandshakeDeadline
      BY <2>2, Zenon DEF Advance
    <3> QED BY <1>2, <2>1, <3>1, IntervalsAssumption
  <2>3. ASSUME NEW d \in DOMAIN conns, Busy(d)' PROVE Busy(d)
    BY <2>1, <2>3, Zenon DEF Busy
  <2>4. ASSUME NEW d \in DOMAIN conns
        PROVE  /\ conns'[d].phase \in Handshaking => now' <= conns'[d].since + HandshakeDeadline
               /\ conns'[d].auto => conns'[d].since <= nextTick - TickInterval
    BY <1>1, <1>2, <2>1, <2>2, Zenon DEF Dials
  <2>5. ASSUME NEW d \in DOMAIN conns, NEW i \in DOMAIN dialing, Busy(d)'
        PROVE  conns'[d].addr # dialing[i]
    BY <1>1, <2>1, <2>3, <2>5, ZenonT(60) DEF Dials
  <2>6. ASSUME NEW d \in DOMAIN conns, NEW e \in DOMAIN conns, d # e, Busy(d)', Busy(e)'
        PROVE  conns'[d].addr # conns'[e].addr
    BY <1>1, <2>1, <2>3, <2>6, ZenonT(60) DEF Dials
  <2>7. \A i, j \in DOMAIN dialing : dialing[i] = dialing[j] => i = j
    BY <1>1, Zenon DEF Dials
  <2>8. nextTick' = nextTick /\ dialing' = dialing
    BY <1>2, Zenon DEF tick
  <2> QED BY <1>2, <2>4, <2>5, <2>6, <2>7, <2>8, Zenon DEF Dials
<1> QED BY <1>1, <1>2, <1>3, <1>4, <1>5, <1>6, <1>7, SteadyConns, SteadyHandshakes, SteadyCounted, Zenon

\* No connection at all: at the beginning and after the end of the process.
LEMMA SafeEmpty ==
  ASSUME Known, world' \in Worlds, now' \in Nat, nextTick' \in Nat, up' \in {"down", "refused"}, ticking' = FALSE,
         conns' = <<>>, channels' = {}, peerCounter' \in Nat, inbound' = 0, outbound' = 0, dialing' = <<>>, closes' = {}
  PROVE  ClockOK' /\ ConnsOK' /\ WorkOK' /\ Handshakes' /\ Counted' /\ Dials'
<1>1. ClockOK'
  BY Zenon DEF ClockOK
<1>2. ConnsOK'
  BY DEF ConnsOK
<1>3. WorkOK'
  BY DEF WorkOK
<1>4. Handshakes' /\ Dials'
  BY DEF Handshakes, Dials
<1>5. Incoming' = {} /\ Outgoing' = {} /\ Automatic' = {}
  BY DEF Incoming, Outgoing, Automatic
<1>6. world'.inbound \in Nat /\ world'.outbound \in Nat /\ Len(dialing') = 0
  BY WorldsAssumption, Zenon DEF WorldOK
<1>7. Counted'
  BY <1>5, <1>6, EmptySize DEF Counted
<1> QED BY <1>1, <1>2, <1>3, <1>4, <1>7, Zenon

\* A dialled connection, and an accepted one.
LEMMA SafeDial ==
  ASSUME Known, Safe, NEW a \in Address, NEW kind \in {"normal", "seed"}, NEW auto \in BOOLEAN, up = "up",
         Connect(a, kind, auto), UNCHANGED <<clock, up, channels, peerCounter, nextTick, ticking, closes>>, inbound' = inbound,
         \/ ~auto /\ dialing' = dialing
         \/ auto /\ ticking /\ dialing # <<>> /\ a = Head(dialing) /\ dialing' = Tail(dialing)
  PROVE  ClockOK' /\ ConnsOK' /\ WorkOK' /\ Handshakes' /\ Counted' /\ Dials'
<1> DEFINE dir == "out" phase == "tcp"
<1>1. dir \in {"in", "out"} /\ (auto => dir = "out") /\ phase = IF dir = "out" THEN "tcp" ELSE "receiveVersion"
  BY Zenon
<1>2. conns' = Append(conns, NewConnection(a, dir, kind, auto, phase))
  BY Zenon DEF Connect, Dialled
<1>3. inbound \in Int /\ inbound <= world.inbound
  BY Zenon DEF Safe, Base, WorkOK, Counted
<1>4. /\ inbound' = inbound + (IF dir = "in" THEN 1 ELSE 0) /\ inbound' <= world.inbound
      /\ outbound' = outbound + (IF dir = "out" THEN 1 ELSE 0)
  BY <1>3 DEF Connect
<1> HIDE DEF dir, phase
<1> QED BY <1>1, <1>2, <1>4, SafeGrows, Zenon

\* A connection is accepted within the limit.
LEMMA SafeAccept ==
  ASSUME Known, Safe, NEW a \in Address, up = "up", conns' = Append(conns, Accepted(a)),
         UNCHANGED <<clock, up, channels, peerCounter, tick, closes>>, InboundConnectionsNeeded > 0,
         inbound' = inbound + 1, outbound' = outbound
  PROVE  ClockOK' /\ ConnsOK' /\ WorkOK' /\ Handshakes' /\ Counted' /\ Dials'
<1> DEFINE dir == "in" phase == "receiveVersion" kind == "normal" auto == FALSE
<1>1. /\ dir \in {"in", "out"} /\ (auto => dir = "out") /\ phase = IF dir = "out" THEN "tcp" ELSE "receiveVersion"
      /\ kind \in {"normal", "seed"} /\ auto \in BOOLEAN /\ ~auto
  BY Zenon
<1>2. conns' = Append(conns, NewConnection(a, dir, kind, auto, phase))
  BY Zenon DEF Accepted
<1>3. inbound \in Int /\ outbound \in Int /\ world.inbound \in Nat
  BY WorldsAssumption, Zenon DEF Safe, Base, ClockOK, WorkOK, WorldOK
<1>4. /\ inbound' = inbound + (IF dir = "in" THEN 1 ELSE 0) /\ inbound' <= world.inbound
      /\ outbound' = outbound + (IF dir = "out" THEN 1 ELSE 0)
  BY <1>3 DEF InboundConnectionsNeeded
<1>5. UNCHANGED <<clock, up, channels, peerCounter, nextTick, ticking, closes>> /\ dialing' = dialing
  BY Zenon DEF tick
<1> HIDE DEF dir, phase, kind, auto
<1> QED BY <1>1, <1>2, <1>4, <1>5, SafeGrows, Zenon

\* The process starts: it dials the configured peers and seednodes.
LEMMA SafeStart ==
  ASSUME Known, Safe, Start
  PROVE  ClockOK' /\ ConnsOK' /\ WorkOK' /\ Handshakes' /\ Counted' /\ Dials'
<1>1. ClockOK /\ ConnsOK /\ WorkOK /\ WorldOK(world)
  BY WorldsAssumption, Zenon DEF Safe, Base, ClockOK
<1>2. up = "down" /\ UNCHANGED <<clock, channels, peerCounter, inbound, ticking, dialing, closes>> /\ nextTick' = now
  BY Zenon DEF Start
<1>3. /\ conns = <<>> /\ channels = {} /\ inbound = 0 /\ outbound = 0 /\ ticking = FALSE /\ dialing = <<>> /\ closes = {}
      /\ now \in Nat /\ world \in Worlds /\ peerCounter \in Nat
  BY <1>1, <1>2 DEF ClockOK, ConnsOK, WorkOK
<1>4. CASE ~Loads(file)
  <2>1. up' = "refused" /\ UNCHANGED <<conns, outbound>>
    BY <1>4, Zenon DEF Start
  <2> QED BY <1>2, <1>3, <2>1, SafeEmpty, Zenon DEF clock
<1>5. CASE Loads(file)
  <2> DEFINE n == Len(world.peers)
  <2>1. /\ up' = "up" /\ outbound' = n
        /\ conns' = [i \in 1..n |-> Dialled(world.peers[i], "normal", FALSE)]
    BY <1>5, Zenon DEF Start
  <2>2. n \in Nat /\ \A i \in 1..n : world.peers[i] \in Address
    BY <1>1 DEF WorldOK
  <2>3. world.inbound \in Nat /\ world.outbound \in Nat
    BY <1>1, Configured, Zenon
  <2> HIDE DEF n
  <2>4. ASSUME NEW i \in 1..n PROVE IsNew(conns'[i], world.peers[i], "out", "normal", FALSE, "tcp", now)
    <3>1. PICK r : r = NewConnection(world.peers[i], "out", "normal", FALSE, "tcp")
      BY Zenon
    <3>2. "tcp" \in Handshaking /\ world.peers[i] \in Address /\ "out" \in {"in", "out"} /\ "normal" \in {"normal", "seed"}
      BY <2>2, Zenon DEF Handshaking
    <3>3. IsNew(r, world.peers[i], "out", "normal", FALSE, "tcp", now)
      BY <1>3, <3>1, <3>2, NewConnectionType, Zenon
    <3>4. conns'[i] = r
      BY <2>1, <3>1, Zenon DEF Dialled
    <3> QED BY <3>3, <3>4, Zenon
  <2>5. DOMAIN conns' = 1..n /\ world' = world /\ now' = now
    BY <1>2, <2>1, Zenon DEF clock
  <2>6. ASSUME NEW i \in 1..n
        PROVE  /\ conns'[i] \in Connection /\ StageOK(conns'[i], now, peerCounter) /\ conns'[i].phase = "tcp"
               /\ conns'[i].id = -1 /\ conns'[i].sent = <<>> /\ conns'[i].dir = "out" /\ conns'[i].auto = FALSE
               /\ conns'[i].since = now
    <3>1. PICK r : r = conns'[i]
      BY Zenon
    <3>2. /\ r \in Connection /\ r.phase = "tcp" /\ r.id = -1 /\ r.sent = <<>> /\ r.dir = "out" /\ r.auto = FALSE
          /\ r.since = now /\ r.heard = now /\ r.ping.at = now /\ r.ended = 0 /\ r.reader = "none" /\ r.owed = {}
          /\ r.nonce = 0 /\ r.addrAt = -1 /\ r.disconnecting = FALSE
      BY <2>4, <3>1, Zenon DEF IsNew
    <3>3. now <= now
      BY <1>3
    <3>4. StageOK(r, now, peerCounter)
      BY <3>2, <3>3, Zenon DEF StageOK, Handshaking
    <3> QED BY <3>1, <3>2, <3>4, Zenon
  <2>7. ClockOK'
    <3>1. /\ world' \in Worlds /\ now' \in Nat /\ nextTick' \in Nat /\ ticking' = FALSE /\ up' = "up"
          /\ now' = now /\ nextTick' = now
      BY <1>2, <1>3, <2>1, <2>5, Zenon
    <3>2. now - TickInterval <= now /\ now <= now
      BY <1>3, IntervalsAssumption
    <3> QED BY <3>1, <3>2, Zenon DEF ClockOK
  <2>8. ConnsOK'
    <3>1. conns' \in Seq(Connection)
      <4>1. \A i \in 1..n : conns'[i] \in Connection
        BY <2>6, Zenon
      <4>2. conns' \in [1..n -> Connection]
        BY <2>1, <2>5, <4>1, Zenon
      <4> QED BY <2>2, <4>2
    <3>2. channels' = {d \in DOMAIN conns' : conns'[d].phase = "open"}
      BY <1>2, <1>3, <2>5, <2>6, Zenon
    <3> QED BY <1>2, <1>3, <2>5, <2>6, <3>1, <3>2, Zenon DEF ConnsOK
  <2>9. WorkOK'
    BY <1>2, <1>3, <2>1, <2>2 DEF WorkOK
  <2>10. Handshakes'
    <3>1. ASSUME NEW i \in 1..n PROVE HandshakeOK(conns'[i])
      BY <2>6, Zenon DEF HandshakeOK
    <3> QED BY <2>5, <3>1, Zenon DEF Handshakes
  <2>11. Counted'
    <3>1. Incoming' = {} /\ Outgoing' = 1..n /\ Automatic' = {}
      BY <2>5, <2>6, Zenon DEF Incoming, Outgoing, Automatic, Live, Handshaking
    <3>2. Cardinality(1..n) = n /\ Cardinality({}) = 0 /\ Len(<<>>) = 0
      BY <2>2, EmptySize, Zenon
    <3> QED BY <1>2, <1>3, <2>1, <2>3, <2>5, <3>1, <3>2, SMTT(60) DEF Counted
  <2>12. Dials'
    <3>1. now <= now + HandshakeDeadline
      BY <1>3, IntervalsAssumption
    <3>2. ASSUME NEW i \in 1..n
          PROVE  ~Busy(i)' /\ conns'[i].auto = FALSE /\ conns'[i].since = now
      BY <2>6, Zenon DEF Busy
    <3>3. DOMAIN dialing' = {} /\ now' = now /\ DOMAIN conns' = 1..n
      BY <1>2, <1>3, <2>5
    <3> QED BY <3>1, <3>2, <3>3, Zenon DEF Dials
  <2> QED BY <2>7, <2>8, <2>9, <2>10, <2>11, <2>12, Zenon
<1> QED BY <1>4, <1>5, Zenon

\* The process stops or crashes: no connection is left.
LEMMA SafeEnds ==
  ASSUME Known, Safe, Ends
  PROVE  ClockOK' /\ ConnsOK' /\ WorkOK' /\ Handshakes' /\ Counted' /\ Dials'
<1>1. world \in Worlds /\ now \in Nat /\ nextTick \in Nat
  BY Zenon DEF Safe, Base, ClockOK
<1>2. /\ world' = world /\ now' = now /\ nextTick' = nextTick /\ up' = "down" /\ ticking' = FALSE
      /\ conns' = <<>> /\ channels' = {} /\ peerCounter' = 0 /\ inbound' = 0 /\ outbound' = 0 /\ dialing' = <<>> /\ closes' = {}
  BY Zenon DEF Ends, clock
<1> QED BY <1>1, <1>2, SafeEmpty, Zenon

\* The invariant holds at first.
LEMMA SafeInit ==
  ASSUME Known, Init
  PROVE  Safe
<1>1. world \in Worlds /\ WorldOK(world)
  BY WorldsAssumption, Zenon DEF Init
<1>2. ClockOK
  BY <1>1, Zenon DEF Init, ClockOK
<1>3. ConnsOK
  BY DEF Init, ConnsOK
<1>4. WorkOK
  BY DEF Init, WorkOK
<1>5. Handshakes /\ Dials
  BY DEF Init, Handshakes, Dials
<1>6. Incoming = {} /\ Outgoing = {} /\ Automatic = {}
  BY DEF Init, Incoming, Outgoing, Automatic
<1>7. world.inbound \in Nat /\ world.outbound \in Nat /\ Len(<<>>) = 0
  BY <1>1, Zenon DEF WorldOK
<1>8. Counted
  BY <1>6, <1>7, EmptySize, SMTT(60) DEF Counted, Init
<1>9. TableOK(table, now) /\ now = 0 /\ file = world.file
  BY Zenon DEF Init, Known, TableFacts
<1>10. RowsOK(world.file, 0)
  <2>1. /\ world.file \in Seq(FileRow) /\ \A i \in DOMAIN world.file : world.file[i].time <= 0
        /\ \A i, j \in DOMAIN world.file : world.file[i].addr = world.file[j].addr => i = j
    BY <1>1, Zenon DEF WorldOK
  <2>2. Len(world.file) \in Nat /\ DOMAIN world.file = 1..Len(world.file)
        /\ \A i \in 1..Len(world.file) : world.file[i] \in FileRow
    BY <2>1
  <2>3. ASSUME NEW x \in FileRow PROVE EntryOK(x) /\ x.failures \in Nat
    BY Zenon DEF FileRow, EntryOK
  <2> QED BY <2>1, <2>2, <2>3, Zenon DEF RowsOK
<1>11. StorageOK
  BY <1>9, <1>10, Zenon DEF StorageOK
<1> QED BY <1>2, <1>3, <1>4, <1>5, <1>8, <1>11, Zenon DEF Safe, Base

\* Every step keeps the invariant.
LEMMA SafeStep ==
  ASSUME Known, Safe, [Next]_vars
  PROVE  Safe'
<1>0. ClockOK /\ ConnsOK /\ StorageOK /\ WorkOK /\ Counted /\ WorldOK(world)
  BY WorldsAssumption, Zenon DEF Safe, Base, ClockOK
<1> SUFFICES ASSUME Next PROVE ClockOK' /\ ConnsOK' /\ WorkOK' /\ Handshakes' /\ Counted' /\ Dials'
  <2>1. CASE UNCHANGED vars
    BY <2>1, Zenon DEF Safe, Base, vars, ClockOK, StorageOK, ConnsOK, WorkOK, Handshakes, Counted, Dials, Incoming, Outgoing,
                Automatic, Live, Busy
  <2>2. CASE Next
    BY <1>0, <2>2, StorageStep, Zenon DEF Safe, Base
  <2> QED BY <2>1, <2>2, Zenon
<1>1. CASE Start
  BY <1>1, SafeStart, Zenon
<1>2. CASE Stop \/ CrashInSave
  BY <1>2, SafeEnds, Zenon DEF Stop, CrashInSave
<1>3. CASE Advance
  BY <1>3, SafeAdvance, Zenon
<1>4. CASE Tick
  BY <1>4, SafeTick, Zenon
<1>5. CASE TickConnect
  <2>1. /\ ticking /\ dialing # <<>> /\ dialing' = Tail(dialing) /\ inbound' = inbound
        /\ Connect(Head(dialing), "normal", TRUE)
        /\ UNCHANGED <<clock, up, channels, peerCounter, nextTick, ticking, closes>>
    BY <1>5, Zenon DEF TickConnect
  <2>2. up = "up" /\ Head(dialing) \in Address
    BY <1>0, <2>1 DEF ClockOK, WorkOK
  <2> QED BY <2>1, <2>2, SafeDial, Zenon
<1>6. CASE TickBound \/ TickSave
  <2>1. /\ UNCHANGED <<clock, up, conns, channels, peerCounter, counter, nextTick>> /\ ticking
        /\ dialing' = dialing \/ dialing' = <<>>
        /\ ticking' = ticking \/ (ticking' = FALSE /\ dialing' = <<>>)
    BY <1>6, Zenon DEF TickBound, TickSave
  <2>2. up = "up"
    BY <1>0, <2>1, Zenon DEF ClockOK
  <2> QED BY <2>1, <2>2, SafeIdle, Zenon
<1>7. ASSUME NEW a \in world.addresses, ResolveSeednode(a) \/ AddNode(a) \/ RemoveNode(a) \/ ConnectNormal(a) \/ Listen(a)
      PROVE  ClockOK' /\ ConnsOK' /\ WorkOK' /\ Handshakes' /\ Counted' /\ Dials'
  <2>0. a \in Address /\ inbound \in Int /\ inbound <= world.inbound /\ world.inbound \in Nat
    BY <1>0, Zenon DEF WorldOK, WorkOK, Counted
  <2>1. CASE AddNode(a) \/ RemoveNode(a)
    BY <2>1, SafeIdle, Zenon DEF AddNode, RemoveNode, tick
  <2>2. CASE ResolveSeednode(a) /\ UNCHANGED <<conns, outbound>>
    BY <2>2, SafeIdle, Zenon DEF ResolveSeednode, tick, counter
  <2>3. CASE ResolveSeednode(a) /\ Connect(a, "seed", FALSE)
    BY <2>0, <2>3, SafeDial, Zenon DEF ResolveSeednode, tick
  <2>4. CASE ConnectNormal(a)
    BY <2>0, <2>4, SafeDial, Zenon DEF ConnectNormal, tick
  <2>5. CASE Listen(a)
    BY <2>0, <2>5, SafeAccept, Zenon DEF Listen
  <2>6. ResolveSeednode(a) => Connect(a, "seed", FALSE) \/ UNCHANGED <<conns, outbound>>
    BY Zenon DEF ResolveSeednode
  <2> QED BY <1>7, <2>1, <2>2, <2>3, <2>4, <2>5, <2>6, Zenon
<1>8. ASSUME NEW t \in closes, RunClose(t)
      PROVE  ClockOK' /\ ConnsOK' /\ WorkOK' /\ Handshakes' /\ Counted' /\ Dials'
  <2>1. \/ \E c \in DOMAIN conns : \E r : Proceeds(c, r)
        \/ UNCHANGED <<clock, up, conns, channels, peerCounter, counter, tick>> /\ up = "up"
    BY <1>0, <1>8, RunCloseEffect, Zenon
  <2> QED BY <2>1, SafeProceeds, SafeIdle, Zenon DEF tick
<1>9. ASSUME NEW c \in DOMAIN conns,
             \/ HandshakeWrite(c) \/ ReceiveVerack(c) \/ HandshakeBreaks(c)
             \/ \E v \in world.versions : ReceiveVersion(c, v)
             \/ FinishClose(c) \/ SyncClose(c) \/ ReadFails(c) \/ OnMessage(c)
             \/ \E m \in Messages(conns[c]) : Read(c, m)
      PROVE  ClockOK' /\ ConnsOK' /\ WorkOK' /\ Handshakes' /\ Counted' /\ Dials'
  <2>1. \E r : Proceeds(c, r)
    <3>1. CASE HandshakeWrite(c) \/ ReceiveVerack(c) \/ HandshakeBreaks(c) \/ \E v \in world.versions : ReceiveVersion(c, v)
      <4>1. \E r : Greets(c, r)
        BY <1>0, <3>1, HandshakeWriteEffect, ReceiveVerackEffect, HandshakeBreaksEffect, ReceiveVersionEffect, Zenon
      <4> QED BY <4>1, Zenon DEF Greets
    <3>2. CASE FinishClose(c)
      BY <1>0, <3>2, FinishCloseEffect, Zenon
    <3>3. CASE SyncClose(c)
      BY <1>0, <3>3, SyncCloseEffect, Zenon
    <3>4. CASE ReadFails(c)
      BY <1>0, <3>4, ReadFailsEffect, Zenon
    <3>5. CASE OnMessage(c)
      BY <1>0, <3>5, OnMessageEffect, Zenon
    <3>6. ASSUME NEW m \in Messages(conns[c]), Read(c, m) PROVE \E r : Proceeds(c, r)
      BY <1>0, <3>6, ReadEffect, Zenon
    <3> QED BY <1>9, <3>1, <3>2, <3>3, <3>4, <3>5, <3>6, Zenon
  <2> QED BY <2>1, SafeProceeds, Zenon
<1> QED BY <1>1, <1>2, <1>3, <1>4, <1>5, <1>6, <1>7, <1>8, <1>9, Zenon DEF Next
=============================================================================
