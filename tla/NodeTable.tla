------------------------------ MODULE NodeTable ------------------------------
(***************************************************************************)
(* The table of known nodes (p2p/src/util/node_table.rs): every node once  *)
(* by address, and the same nodes in two ordered sets, by score and by     *)
(* time.  An ordered set finds an element with its comparison only, and    *)
(* each update asserts that it found the old entry in both.                *)
(*                                                                         *)
(* A socket address is [v6, port, ip].  The IPv4 host n has ip = n, as     *)
(* IPv4 and as an IPv4-compatible IPv6 address, and n + MappedBase as an   *)
(* IPv4-mapped one; larger numbers are native IPv6.  The scope of a        *)
(* link-local address is left out.  Services are a set of service bits.    *)
(***************************************************************************)
EXTENDS Integers, FiniteSets, Sequences

CONSTANT TableLimit   \* 1000: the nodes saved, and the nodes advertised

ASSUME TableLimitAssumption == TableLimit \in Nat \ {0}

MappedBase == 10

\* SocketAddr, Services, and the nodes of the table.
Address == [v6 : BOOLEAN, port : Nat, ip : Nat]

ServiceSets == SUBSET STRING

NodeRecord ==
  [addr : Address, time : Int, services : ServiceSets, preferable : BOOLEAN, failures : Nat]

Node(addr, time, services, preferable, failures) ==
  [addr |-> addr, time |-> time, services |-> services, preferable |-> preferable, failures |-> failures]

\* services includes every bit of other.
Includes(services, other) == other \subseteq services

\* The order of addresses: IPv4 first, then the port, then the host.
AddrLess(a, b) ==
  IF a.v6 # b.v6 THEN b.v6
  ELSE IF a.port # b.port THEN a.port < b.port
  ELSE a.ip < b.ip

\* Few failures first, then the preferable, the recent, and the last address.
ByScore(x, y) ==
  IF x.failures # y.failures THEN x.failures < y.failures
  ELSE IF x.preferable # y.preferable THEN x.preferable
  ELSE IF x.time # y.time THEN y.time < x.time
  ELSE AddrLess(y.addr, x.addr)

\* The most recent first.
ByTime(x, y) ==
  IF x.time # y.time THEN y.time < x.time ELSE AddrLess(y.addr, x.addr)

\* Insertion into, and removal from, a set ordered by Less.
TreeHas(S, x, Less(_, _)) == \E y \in S : ~Less(x, y) /\ ~Less(y, x)
TreeAdd(S, x, Less(_, _)) == IF TreeHas(S, x, Less) THEN S ELSE S \cup {x}
TreeDel(S, x, Less(_, _)) == {y \in S : Less(x, y) \/ Less(y, x)}

\* The ordered set as the sequence its iterator yields.
InOrder(S, Less(_, _)) ==
  [i \in 1..Cardinality(S) |-> CHOOSE x \in S : Cardinality({y \in S : Less(y, x)}) = i - 1]

Take(s, n) == IF Len(s) <= n THEN s ELSE SubSeq(s, 1, n)

\* "asserts" turns false when an assertion on the indexes fails.
NoNodes == [byAddr |-> <<>>, byScore |-> {}, byTime |-> {}, asserts |-> TRUE]

Nodes(t) == {t.byAddr[a] : a \in DOMAIN t.byAddr}

\* A node enters by all three ways.
Enter(t, n) ==
  [t EXCEPT !.byAddr = [a \in DOMAIN @ \cup {n.addr} |-> IF a = n.addr THEN n ELSE t.byAddr[a]],
            !.byScore = TreeAdd(@, n, ByScore),
            !.byTime = TreeAdd(@, n, ByTime)]

\* Mutant: the order by time is not refreshed.
ReindexScoreOnly(t, old, new) ==
  [t EXCEPT !.byAddr[old.addr] = new,
            !.byScore = TreeAdd(TreeDel(@, old, ByScore), new, ByScore),
            !.asserts = @ /\ TreeHas(t.byScore, old, ByScore) /\ TreeHas(t.byTime, old, ByTime)]

\* An entry changes: out of both orders, asserting it was there, and in again.
Reindex(t, old, new) ==
  [t EXCEPT !.byAddr[old.addr] = new,
            !.byScore = TreeAdd(TreeDel(@, old, ByScore), new, ByScore),
            !.byTime = TreeAdd(TreeDel(@, old, ByTime), new, ByTime),
            !.asserts = @ /\ TreeHas(t.byScore, old, ByScore) /\ TreeHas(t.byTime, old, ByTime)]

\* Inserts an address after a handshake.  A node already known keeps its
\* failures, and whether it is preferable.
Insert(t, addr, services, preferable, now) ==
  IF addr \in DOMAIN t.byAddr
  THEN Reindex(t, t.byAddr[addr], [t.byAddr[addr] EXCEPT !.time = now, !.services = services])
  ELSE Enter(t, Node(addr, now, services, Includes(services, preferable), 0))

\* Adding an address that is known is an error and changes nothing.
Add(t, addr, services, preferable, now) ==
  IF addr \in DOMAIN t.byAddr THEN t ELSE Insert(t, addr, services, preferable, now)

\* Removal does not assert.
Remove(t, addr) ==
  IF addr \notin DOMAIN t.byAddr THEN t
  ELSE [t EXCEPT !.byAddr = [a \in DOMAIN @ \ {addr} |-> t.byAddr[a]],
                 !.byTime = TreeDel(@, t.byAddr[addr], ByTime),
                 !.byScore = TreeDel(@, t.byAddr[addr], ByScore)]

\* One entry of an addr message that is not newer than now.
InsertEntry(t, e, preferable) ==
  LET known == e.addr \in DOMAIN t.byAddr IN
  IF known /\ t.byAddr[e.addr].time < e.time
    THEN Reindex(t, t.byAddr[e.addr], [t.byAddr[e.addr] EXCEPT !.time = e.time, !.services = e.services])
  ELSE IF known THEN t
  ELSE Enter(t, Node(e.addr, e.time, e.services, Includes(e.services, preferable), 0))

\* The entries of an addr message, those newer than now discarded.
InsertMany(t, entries, preferable, now) ==
  LET fold[i \in 0..Len(entries)] ==
        IF i = 0 THEN t
        ELSE IF entries[i].time <= now THEN InsertEntry(fold[i - 1], entries[i], preferable)
        ELSE fold[i - 1]
  IN  fold[Len(entries)]

NoteUsed(t, addr, now) ==
  IF addr \in DOMAIN t.byAddr THEN Reindex(t, t.byAddr[addr], [t.byAddr[addr] EXCEPT !.time = now]) ELSE t

NoteFailure(t, addr) ==
  IF addr \in DOMAIN t.byAddr THEN Reindex(t, t.byAddr[addr], [t.byAddr[addr] EXCEPT !.failures = @ + 1]) ELSE t

IsAllowed(protocol, addr) == protocol = "any" \/ (protocol = "ipv6") = addr.v6

\* The other form under which a connected address may be listed: the
\* IPv4-compatible address of an IPv4 host, the IPv4 address of either form.
OtherForms(addr) ==
  IF ~addr.v6 THEN {[addr EXCEPT !.v6 = TRUE]}
  ELSE IF addr.ip < 2 * MappedBase THEN {[addr EXCEPT !.v6 = FALSE, !.ip = @ % MappedBase]}
  ELSE {}

\* The best nodes that are allowed, serve and are not connected.
NodesWithServices(t, services, protocol, except, limit) ==
  Take(InOrder({n \in t.byScore : /\ IsAllowed(protocol, n.addr)
                                  /\ Includes(n.services, services)
                                  /\ ({n.addr} \cup OtherForms(n.addr)) \cap except = {}}, ByScore), limit)

RecentlyActiveNodes(t, protocol) ==
  Take(InOrder({n \in t.byTime : IsAllowed(protocol, n.addr)}, ByTime), TableLimit)

\* A row of the file, and the row of a node.
FileRow == [addr : Address, time : Int, services : ServiceSets, failures : Nat, readable : BOOLEAN]

Row(n) == [addr |-> n.addr, time |-> n.time, services |-> n.services, failures |-> n.failures, readable |-> TRUE]

\* The rows of the file: the best nodes.
Save(t) ==
  LET best == Take(InOrder(t.byScore, ByScore), TableLimit)
  IN  [i \in 1..Len(best) |-> Row(best[i])]

\* The files a crash during the save can leave: the file is truncated first,
\* and the last row may be cut.  Failures come last in a row: cut inside that
\* number a row is read with fewer digits, cut before it is not read.
TornFiles(rows) ==
  {SubSeq(rows, 1, n) : n \in 0..Len(rows)} \cup
  {Append(SubSeq(rows, 1, n - 1), [rows[n] EXCEPT !.readable = FALSE]) : n \in 1..Len(rows)} \cup
  {Append(SubSeq(rows, 1, n - 1), [rows[n] EXCEPT !.failures = @ \div 10]) :
     n \in {m \in 1..Len(rows) : rows[m].failures >= 10}}

\* A file with a row that cannot be read is not loaded.
Loads(rows) == \A i \in 1..Len(rows) : rows[i].readable

Load(rows, preferable) ==
  LET fold[i \in 0..Len(rows)] ==
        IF i = 0 THEN NoNodes
        ELSE LET r == rows[i]
             IN  Enter(fold[i - 1], Node(r.addr, r.time, r.services, Includes(r.services, preferable), r.failures))
  IN  fold[Len(rows)]

-----------------------------------------------------------------------------
\* The three ways to the nodes always lead to the same nodes, so no assertion
\* of insert, insert_many, note_used or note_failure fails.
IndexesAgreeIn(t) == t.asserts /\ t.byScore = Nodes(t) /\ t.byTime = Nodes(t)

\* The inductive core of the proofs: the indexes agree on finitely many nodes,
\* each under its own address and last seen at "now" at the latest.
TableOK(t, now) ==
  /\ t = [byAddr |-> t.byAddr, byScore |-> t.byScore, byTime |-> t.byTime, asserts |-> TRUE]
  /\ IsFiniteSet(DOMAIN t.byAddr) /\ t.byAddr \in [DOMAIN t.byAddr -> NodeRecord]
  /\ \A a \in DOMAIN t.byAddr : t.byAddr[a].addr = a /\ t.byAddr[a].time <= now
  /\ t.byScore = Nodes(t) /\ t.byTime = Nodes(t)

\* An entry of an addr message, and the entry of a node in general.
EntryOK(e) == e.addr \in Address /\ e.time \in Int /\ e.services \in ServiceSets

\* Rows the file can have: nodes last seen at "now" at the latest, each
\* address once.
RowsOK(rows, now) ==
  /\ Len(rows) \in Nat
  /\ \A i \in 1..Len(rows) : EntryOK(rows[i]) /\ rows[i].failures \in Nat /\ rows[i].time <= now
  /\ \A i, j \in 1..Len(rows) : rows[i].addr = rows[j].addr => i = j

\* The nodes chosen to be dialled are eligible, at most limit, and no eligible
\* node left out has fewer failures than a chosen one.
BestChosenIn(t, services, protocol, except, limit) ==
  LET chosen   == NodesWithServices(t, services, protocol, except, limit)
      eligible == {n \in Nodes(t) : /\ IsAllowed(protocol, n.addr)
                                    /\ services \subseteq n.services
                                    /\ n.addr \notin except}
      picked   == {chosen[i] : i \in 1..Len(chosen)}
      best     == {n \in eligible : OtherForms(n.addr) \cap except = {}}
  IN  /\ picked \subseteq best
      /\ Cardinality(picked) = Len(chosen)
      /\ Len(chosen) = (IF Cardinality(best) < limit THEN Cardinality(best) ELSE limit)
      /\ \A n \in best \ picked, m \in picked : m.failures <= n.failures

\* The advertised nodes are the most recent ones.
RecentAdvertisedIn(t, protocol) ==
  LET told   == RecentlyActiveNodes(t, protocol)
      picked == {told[i] : i \in 1..Len(told)}
  IN  /\ picked \subseteq {n \in Nodes(t) : IsAllowed(protocol, n.addr)}
      /\ \A i, j \in 1..Len(told) : i < j => told[i].time >= told[j].time
      /\ \A n \in Nodes(t) \ picked :
            IsAllowed(protocol, n.addr) => Len(told) = TableLimit /\ told[TableLimit].time >= n.time

\* What is read back after a complete save is the table (the best of it), but
\* for preferable, which is decided anew.  After a save that a crash cut short
\* the file either is refused or yields a sound table of known nodes.
SavedTableReloadsIn(t, preferable) ==
  LET whole == Load(Save(t), preferable)
      plain(n) == [n EXCEPT !.preferable = FALSE, !.failures = 0]
  IN  /\ Loads(Save(t))
      /\ Cardinality(Nodes(whole)) = (IF Cardinality(Nodes(t)) < TableLimit THEN Cardinality(Nodes(t)) ELSE TableLimit)
      /\ \A a \in DOMAIN whole.byAddr :
            /\ Row(whole.byAddr[a]) = Row(t.byAddr[a])
            /\ \A n \in Nodes(t) : n.addr \notin DOMAIN whole.byAddr => t.byAddr[a].failures <= n.failures
      /\ \A f \in TornFiles(Save(t)) :
            Loads(f) => LET l == Load(f, preferable)
                        IN  /\ IndexesAgreeIn(l)
                            /\ {plain(n) : n \in Nodes(l)} \subseteq {plain(n) : n \in Nodes(t)}
=============================================================================
