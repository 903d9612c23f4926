---------------------------- MODULE NetworkProofs ----------------------------
(***************************************************************************)
(* The connections of a node keep their counters, limits, handshakes and   *)
(* deadlines, and its table of nodes stays sound, for every configuration  *)
(* and however long the node runs.  NetworkSteps has the invariants and    *)
(* the lemmas on the steps; it and NetworkSafety show that they are kept.  *)
(***************************************************************************)
EXTENDS NetworkSafety, NodeTableProofs

\* What NetworkSafety takes from the library and from the node table's proofs.
LEMMA Facts == Known
<1>1. FiniteSetFacts
  <2>1. \A n \in Nat : IsFiniteSet(1..n) /\ Cardinality(1..n) = n
    BY FS_Interval
  <2>2. \A S : IsFiniteSet(S) => Cardinality(S) \in Nat
    BY FS_CardinalityType
  <2>3. \A S : IsFiniteSet(S) =>
          \A T \in SUBSET S : IsFiniteSet(T) /\ Cardinality(T) <= Cardinality(S)
    BY FS_Subset
  <2>4. \A S : IsFiniteSet(S) => \A x : x \notin S => Cardinality(S \cup {x}) = Cardinality(S) + 1
    BY FS_AddElement
  <2>5. \A S : IsFiniteSet(S) => \A x \in S : Cardinality(S \ {x}) = Cardinality(S) - 1
    BY FS_RemoveElement
  <2> QED BY <2>1, <2>2, <2>3, <2>4, <2>5, FS_EmptySet, SMTT(60) DEF FiniteSetFacts
<1>2. TableFacts
  <2>1. ASSUME NEW t, NEW time \in Int, TableOK(t, time)
        PROVE  /\ \A a \in Address, s \in ServiceSets : \A p :
                    TableOK(Insert(t, a, s, p, time), time) /\ TableOK(Add(t, a, s, p, time), time)
               /\ \A a : /\ TableOK(Remove(t, a), time)
                         /\ TableOK(NoteUsed(t, a, time), time) /\ TableOK(NoteFailure(t, a), time)
               /\ \A e, p : Len(e) \in Nat /\ (\A i \in 1..Len(e) : EntryOK(e[i])) =>
                    TableOK(InsertMany(t, e, p, time), time)
               /\ RowsOK(Save(t), time) /\ \A f \in TornFiles(Save(t)) : RowsOK(f, time)
               /\ \A later \in Int : time <= later => TableOK(t, later)
    <3>1. \A a \in Address, s \in ServiceSets : \A p :
            TableOK(Insert(t, a, s, p, time), time) /\ TableOK(Add(t, a, s, p, time), time)
      BY <2>1, InsertKeeps, AddKeeps, SMTT(60)
    <3>2. \A a : /\ TableOK(Remove(t, a), time)
                 /\ TableOK(NoteUsed(t, a, time), time) /\ TableOK(NoteFailure(t, a), time)
      BY <2>1, RemoveKeeps, NoteKeeps, SMTT(60)
    <3>3. ASSUME NEW e, NEW p, Len(e) \in Nat, \A i \in 1..Len(e) : EntryOK(e[i])
          PROVE  TableOK(InsertMany(t, e, p, time), time)
      BY <2>1, <3>3, InsertManyKeeps, SMTT(60)
    <3>4. RowsOK(Save(t), time) /\ Save(t) \in Seq(FileRow)
      BY <2>1, SavedRowsOK, Zenon
    <3>5. \A f \in TornFiles(Save(t)) : RowsOK(f, time)
      BY <3>4, TornRows
    <3>6. \A later \in Int : time <= later => TableOK(t, later)
      BY <2>1, TableLater
    <3> QED BY <3>1, <3>2, <3>3, <3>4, <3>5, <3>6, ZenonT(60)
  <2>2. ASSUME NEW rows, NEW time \in Int, RowsOK(rows, time)
        PROVE  /\ \A p : TableOK(Load(rows, p), time)
               /\ \A later \in Int : time <= later => RowsOK(rows, later)
    BY <2>2, LoadReads, RowsLater
  <2> QED BY <2>1, <2>2, EmptyTable, Zenon DEF TableFacts
<1>3. PeerFacts
  <2> SUFFICES ASSUME NEW t, NEW time, NEW services, NEW protocol, NEW except, NEW c, NEW limit \in Nat,
                      TableOK(t, time), c = NodesWithServices(t, services, protocol, except, limit)
               PROVE  /\ Len(c) \in Nat /\ Len(c) <= limit
                      /\ \A i \in 1..Len(c) : c[i].addr \in Address /\ c[i].addr \notin except
                      /\ \A i, j \in 1..Len(c) : c[i].addr = c[j].addr => i = j
    BY DEF PeerFacts
  <2> QED BY ChosenPeers
<1> QED BY <1>1, <1>2, <1>3 DEF Known

\* However dials, handshakes, reads and closes interleave, and through stops and
\* crashes: the counters of connections (ConnectionCounter) are exact and within
\* the configured limits, a channel is stored only after a whole handshake, and
\* autoconnect never holds two connections to one address.
THEOREM ConnectionsAreSound == Spec => []ConnectionsSound
<1>1. ASSUME Safe PROVE ConnectionsSound
  <2>1. ClockOK /\ ConnsOK /\ WorkOK /\ Handshakes /\ Counted /\ Dials
    BY <1>1 DEF Safe, Base
  <2>2. TypeOK
    BY <2>1 DEF TypeOK, ClockOK, ConnsOK
  <2>3. CountersExact
    BY <2>1 DEF CountersExact, Counted, Incoming, Outgoing, ConnsOK, StageOK
  <2>4. InboundBounded
    BY <2>1 DEF InboundBounded, Counted
  <2>5. OutboundBounded
    <3>1. Cardinality(Automatic) \in Nat /\ Len(dialing) \in Nat /\ world.outbound \in Nat
      BY <2>1, Facts, FiniteConns, Configured, SMTT(60) DEF WorkOK
    <3>2. Cardinality(Automatic) <= world.outbound
      BY <2>1, <3>1 DEF Counted
    <3> QED BY <3>2 DEF OutboundBounded, Automatic
  <2>6. AutoDialsDistinct
    BY <2>1 DEF AutoDialsDistinct, Dials, Busy
  <2>7. HandshakesComplete
    BY <2>1, SMTT(60) DEF HandshakesComplete, Handshakes, HandshakeOK, ConnsOK
  <2> QED BY <2>2, <2>3, <2>4, <2>5, <2>6, <2>7, SMTT(60) DEF ConnectionsSound
<1> QED BY <1>1, Facts, SafeInit, SafeStep, PTL DEF Spec

\* Through every update of the table, saves, crashes during a save and restarts:
\* the three indexes of the node table agree and its assertions hold, no node was
\* seen in the future, the nodes dialled are the best that are not connected, the
\* nodes advertised the most recent, and the file reads back as the table.
THEOREM NodeTableIsSound == Spec => []NodeTableSound
<1>1. ASSUME Safe PROVE NodeTableSound
  <2>1. TableOK(table, now) /\ ClockOK /\ WorkOK
    BY <1>1 DEF Safe, Base, StorageOK
  <2>2. IndexesAgree
    BY <2>1 DEF IndexesAgree, IndexesAgreeIn, TableOK
  <2>3. NodesSeenInThePast
    BY <2>1 DEF NodesSeenInThePast, TableOK, Nodes
  <2>4. OutboundConnectionsNeeded \in Nat
    BY <2>1, Configured DEF OutboundConnectionsNeeded, WorkOK
  <2>5. BestChosen
    BY <2>1, <2>4, BestAreChosen, SMTT(60) DEF BestChosen
  <2>6. RecentAdvertised
    BY <2>1, RecentAreAdvertised DEF RecentAdvertised
  <2>7. SavedTableReloads
    BY <2>1, SavedIsReloaded DEF SavedTableReloads
  <2> QED BY <2>2, <2>3, <2>5, <2>6, <2>7, SMTT(60) DEF NodeTableSound
<1> QED BY <1>1, Facts, SafeInit, SafeStep, PTL DEF Spec

\* The deadlines of the protocols, whatever the intervals: a peer that answers
\* its pings in time and sends nothing malformed is never closed, one that is
\* silent is dropped within the ping interval, the time given to answer and two
\* ticks, and a seednode that sent addresses is left within its delay.
THEOREM DeadlinesAreKept == Spec => []DeadlinesKept
<1>1. Init => Safe /\ Deadlines
  <2>1. Init => Deadlines
    BY DEF Init, Deadlines
  <2> QED BY <2>1, Facts, SafeInit, SMTT(60)
<1>2. Safe /\ Deadlines /\ [Next]_vars => (Safe /\ Deadlines)'
  BY Facts, SafeStep, DeadlinesStep, SMTT(60)
<1>3. ASSUME Safe, Deadlines PROVE DeadlinesKept
  <2>1. ConnsOK
    BY <1>3 DEF Safe, Base
  <2>2. PunctualPeersKept
    BY <1>3 DEF Deadlines, PunctualOK, PunctualPeersKept
  <2>3. ASSUME NEW c \in channels
        PROVE  /\ now - conns[c].heard <= PingInterval + MaxPingResponse + 2 * TickInterval
               /\ conns[c].addrAt >= 0 => now - conns[c].addrAt <= SeednodeDelay
    <3>1. c \in DOMAIN conns /\ conns[c].phase = "open"
      BY <2>1 DEF ConnsOK
    <3>2. PingOK(conns[c], now, nextTick, closes) /\ SeedOK(conns[c], now, closes)
      BY <1>3, <3>1 DEF Deadlines
    <3> QED BY <3>1, <3>2 DEF PingOK, SeedOK
  <2> QED BY <2>2, <2>3 DEF DeadlinesKept, SilentPeersDropped, SeednodesLeft
<1> QED BY <1>1, <1>2, <1>3, PTL DEF Spec
=============================================================================
