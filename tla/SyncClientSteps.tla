--------------------------- MODULE SyncClientSteps ---------------------------
(***************************************************************************)
(* The inductive invariant of the synchronization client, Client, and what *)
(* the operators its handlers are made of do to the parts of it: those of  *)
(* the chain, of the peers' tasks, and execute_synchronization_tasks.      *)
(* SyncClientProofs goes through the handlers.                             *)
(***************************************************************************)
EXTENDS SyncClient, TLAPS

-----------------------------------------------------------------------------
(* The invariants.                                                         *)

\* A block is in one queue, and no queue has a stored one.
QueuesOK(ch) ==
    /\ ch.verifying \cap Pending(ch) = {} /\ ch.scheduled \cap ch.requested = {}
    /\ ch.stored \cap (ch.verifying \cup Pending(ch)) = {}

\* The headers chain hangs off storage without a gap.
HeadersOK(ch) ==
    /\ ch.headers \subseteq ch.verifying \cup Pending(ch)
    /\ \A h \in ch.headers : Parent[h] \in ch.headers \cup ch.stored

StorageOK(ch) ==
    /\ Genesis \in ch.stored /\ ch.best \in ch.stored
    /\ \A b \in ch.stored \ {Genesis} : Parent[b] \in ch.stored

\* Who waits in the pool waits for its parent.
OrphansOK(ch, po) ==
    \A b \in po.blocks : {b, Parent[b]} \cap (ch.stored \cup ch.verifying) = {}

ChainOK(ch, po) ==
    /\ ch \in Chain /\ po \in OrphanPool
    /\ QueuesOK(ch) /\ HeadersOK(ch) /\ StorageOK(ch) /\ OrphansOK(ch, po)

StateOK(ch, st) ==
    /\ st \in {"Synchronizing", "NearlySaturated", "Saturated"}
    /\ st = "Saturated" => Pending(ch) = {}
    /\ st = "NearlySaturated" => Cardinality(Pending(ch)) <= 1

TasksOK(t) ==
    /\ t \in PeersTasks
    /\ Asked(t) \subseteq UsefulPeers(t) \ t.idleBlocks
    /\ t.idleBlocks \subseteq UsefulPeers(t)

QueueOK(ch, q) == q \in Seq(Blocks) /\ ch.verifying \subseteq Elements(q)

\* A peer that has never connected is not known.
Known(t) == t.all \cup t.idleHeaders \cup t.headersRequests
NewOK(co, t) == \A p \in Peers : co[p] = "new" => p \notin Known(t)

\* What the futures wait for, and the peers.
RestOK ==
    /\ conn \in [Peers -> {"new", "open", "left", "gone"}]
    /\ banned \subseteq Peers /\ deferred \subseteq Peers /\ finishing \subseteq Peers
    /\ byPeer \in [Blocks -> Peers \cup {NoPeer}]
    /\ waiting \in BlocksByPeer

\* The invariant behind QueuesAgree.
Client ==
    /\ ChainOK(chain, pool) /\ StateOK(chain, state) /\ TasksOK(tasks)
    /\ QueueOK(chain, queue) /\ NewOK(conn, tasks) /\ RestOK

\* The block can be stored: nothing is wrong with it or below it.
Good(b) == Ancestors[b] \cap (BadBlocks \cup BadHeaders) = {}

\* A good block in the verification thread's channel is there once, is still
\* wanted, and its parent is stored or goes before it.
TaskOK(ch, q, i) ==
    /\ q[i] \in ch.verifying
    /\ \A j \in DOMAIN q : q[j] = q[i] => i = j
    /\ Parent[q[i]] \in ch.stored \/ \E j \in 1..(i - 1) : q[j] = Parent[q[i]]

\* The invariant behind NoKnownBlock and DeadEndsAreInvalid.
Verdicts(ch, q) ==
    /\ \A b \in ch.stored : Good(b)
    /\ \A b \in ch.dead : ~Good(b)
    /\ \A i \in DOMAIN q : Good(q[i]) => TaskOK(ch, q, i)

IsAsked(t, h) == \E p \in Peers : h \in t.blocksRequests[p]

\* The invariant behind RequestedIsAsked.
Requested(ch, po, t) == \A h \in ch.requested : h \in po.blocks \/ IsAsked(t, h)

-----------------------------------------------------------------------------
(* What the proofs take from the library, stated as one predicate so that the *)
(* library's theorems need not be in scope; SyncClientProofs proves it.       *)

PigeonHole(S, T) ==
    Cardinality(T) < Cardinality(S) => \A f \in [S -> T] : \E x, y \in S : x # y /\ f[x] = f[y]

Library ==
    /\ \A S \in SUBSET Nat : S # {} => \E n \in S : \A m \in S : n <= m
    /\ \A S : IsFiniteSet(S) => Cardinality(S) \in Nat /\ (Cardinality(S) = 0 <=> S = {})
    /\ \A n \in Nat : IsFiniteSet(1..n) /\ Cardinality(1..n) = n
    /\ \A S : IsFiniteSet(S) =>
          \A T \in SUBSET S : IsFiniteSet(T) /\ Cardinality(T) <= Cardinality(S)
    /\ \A S : IsFiniteSet(S) => \A x \in S : Cardinality(S \ {x}) = Cardinality(S) - 1
    /\ \A S, T : IsFiniteSet(S) /\ IsFiniteSet(T) =>
          /\ Cardinality(S \cup T) <= Cardinality(S) + Cardinality(T)
          /\ IsFiniteSet(S \cup T) /\ IsFiniteSet(S \X T) /\ PigeonHole(S, T)

\* Every set of natural numbers has a least one.
LEMMA Least ==
    ASSUME Library, NEW S, S \subseteq Nat, S # {}
    PROVE  \E n \in S : \A m \in S : n <= m
BY Zenon DEF Library

\* The size of a finite set.
LEMMA Sizes ==
    ASSUME Library, NEW S, IsFiniteSet(S)
    PROVE  Cardinality(S) \in Nat /\ (Cardinality(S) = 0 <=> S = {})
BY Zenon DEF Library

\* A part of a finite set.
LEMMA Subsets ==
    ASSUME Library, NEW S, IsFiniteSet(S), NEW T \in SUBSET S
    PROVE  IsFiniteSet(T) /\ Cardinality(T) <= Cardinality(S)
BY Zenon DEF Library

\* Two finite sets.
LEMMA Unions ==
    ASSUME Library, NEW S, IsFiniteSet(S), NEW T, IsFiniteSet(T)
    PROVE  /\ Cardinality(S \cup T) <= Cardinality(S) + Cardinality(T)
           /\ IsFiniteSet(S \cup T) /\ IsFiniteSet(S \X T)
BY Zenon DEF Library

\* A list that leaves out an element of a set as large as itself repeats another.
LEMMA Repeats ==
    ASSUME Library, NEW S, IsFiniteSet(S), NEW n \in Nat, n = Cardinality(S), NEW x \in S,
           NEW f \in [1..n -> S \ {x}]
    PROVE  \E i, j \in 1..n : i # j /\ f[i] = f[j]
<1>1. IsFiniteSet(1..n) /\ Cardinality(1..n) = n
  BY Zenon DEF Library
<1>2. IsFiniteSet(S \ {x}) /\ Cardinality(S \ {x}) = Cardinality(S) - 1
  <2>1. S \ {x} \in SUBSET S
    BY Zenon
  <2>2. IsFiniteSet(S \ {x})
    BY <2>1, Subsets, Zenon
  <2> QED BY <2>2, Zenon DEF Library
<1>3. Cardinality(S \ {x}) < Cardinality(1..n)
  BY <1>1, <1>2
<1>4. PigeonHole(1..n, S \ {x})
  BY <1>1, <1>2, Zenon DEF Library
<1> QED BY <1>3, <1>4, Zenon DEF PigeonHole

-----------------------------------------------------------------------------
(* The tree of blocks.                                                     *)

\* A block, its parent and its ancestors.
LEMMA Tree ==
    ASSUME NEW b \in Blocks
    PROVE  /\ b \in Ancestors[b] /\ Ancestors[b] \subseteq Blocks /\ Height[b] \in Nat
           /\ \A a \in Ancestors[b] : Ancestors[a] \subseteq Ancestors[b] /\ (a # b => Height[a] < Height[b])
           /\ b # Genesis => /\ Parent[b] \in Blocks /\ Parent[b] # b /\ b \notin Ancestors[Parent[b]]
                             /\ Strict(b) = Ancestors[Parent[b]]
                             /\ Ancestors[b] = Ancestors[Parent[b]] \cup {b}
                             /\ Height[b] = Height[Parent[b]] + 1
<1>1. b \in Ancestors[b] /\ Ancestors[b] \subseteq Blocks
  BY AncestorsAssumption, TreeAssumption, Zenon
<1>2. \A a \in Ancestors[b] : Ancestors[a] \subseteq Ancestors[b] /\ (a # b => Height[a] < Height[b])
  BY AncestorsAssumption, Zenon DEF Strict
<1>3. Height[b] \in Nat
  BY HeightAssumption
<1>4. ASSUME b # Genesis
      PROVE  /\ Parent[b] \in Blocks /\ Ancestors[b] = Ancestors[Parent[b]] \cup {b}
             /\ Height[b] = Height[Parent[b]] + 1 /\ Height[Parent[b]] \in Nat
  BY <1>4, TreeAssumption, HeightAssumption, AncestorsAssumption
<1>5. ASSUME b # Genesis
      PROVE  Parent[b] # b /\ b \notin Ancestors[Parent[b]]
  <2>1. Parent[b] # b
    BY <1>4, <1>5
  <2>2. ASSUME b \in Ancestors[Parent[b]] PROVE FALSE
    <3>1. b \in Strict(Parent[b])
      BY <2>1, <2>2, Zenon DEF Strict
    <3>2. Height[b] < Height[Parent[b]]
      BY <3>1, <1>4, <1>5, AncestorsAssumption, Zenon
    <3> QED BY <3>2, <1>4, <1>5
  <2> QED BY <2>1, <2>2, Zenon
<1> QED BY <1>1, <1>2, <1>3, <1>4, <1>5, Zenon DEF Strict

\* A set of blocks that has the parents of its blocks has their ancestors.
LEMMA Closed ==
    ASSUME Library, NEW S \in SUBSET Blocks, \A b \in S \ {Genesis} : Parent[b] \in S,
           NEW h \in S
    PROVE  Ancestors[h] \subseteq S
<1> DEFINE D == {Height[b] : b \in {c \in S : ~(Ancestors[c] \subseteq S)}}
<1> SUFFICES ASSUME D # {} PROVE FALSE
  BY Zenon
<1>1. D \in SUBSET Nat
  BY HeightAssumption
<1> HIDE DEF D
<1>2. PICK n \in D : \A m \in D : n <= m
  BY <1>1, Least, Zenon
<1>3. PICK b \in S : ~(Ancestors[b] \subseteq S) /\ n = Height[b]
  BY <1>2, Zenon DEF D
<1>4. b # Genesis
  BY <1>3, AncestorsAssumption, Zenon
<1>5. /\ Parent[b] \in S /\ Ancestors[b] = Ancestors[Parent[b]] \cup {b}
      /\ Height[b] = Height[Parent[b]] + 1 /\ Height[Parent[b]] \in Nat
  BY <1>3, <1>4, Tree, Zenon
<1>6. ~(Ancestors[Parent[b]] \subseteq S)
  BY <1>3, <1>5, Zenon
<1>7. Height[Parent[b]] \in D
  BY <1>5, <1>6, Zenon DEF D
<1> QED BY <1>2, <1>3, <1>5, <1>7

\* Of two blocks of a chain one is below the other.
LEMMA Comparable ==
    ASSUME Library, NEW h \in Blocks, NEW x \in Ancestors[h], NEW y \in Ancestors[h]
    PROVE  x \in Ancestors[y] \/ y \in Ancestors[x]
<1> DEFINE Split(c) == \E v, w \in Ancestors[c] : v \notin Ancestors[w] /\ w \notin Ancestors[v]
           D == {Height[b] : b \in {c \in Blocks : Split(c)}}
<1> SUFFICES ASSUME D # {} PROVE FALSE
  BY Zenon
<1>1. D \in SUBSET Nat
  BY HeightAssumption
<1> HIDE DEF D
<1>2. PICK n \in D : \A m \in D : n <= m
  BY <1>1, Least, Zenon
<1>3. PICK b \in Blocks : Split(b) /\ n = Height[b]
  BY <1>2, Zenon DEF D
<1>4. PICK v, w \in Ancestors[b] : v \notin Ancestors[w] /\ w \notin Ancestors[v]
  BY <1>3, Zenon
<1>5. v # b /\ w # b
  BY <1>4, Tree, Zenon
<1>6. b # Genesis
  BY <1>4, <1>5, AncestorsAssumption, Zenon
<1>7. /\ Parent[b] \in Blocks /\ v \in Ancestors[Parent[b]] /\ w \in Ancestors[Parent[b]]
      /\ Height[b] = Height[Parent[b]] + 1 /\ Height[Parent[b]] \in Nat
  BY <1>4, <1>5, <1>6, Tree
<1>8. Height[Parent[b]] \in D
  BY <1>4, <1>7, Zenon DEF D
<1> QED BY <1>2, <1>3, <1>7, <1>8

-----------------------------------------------------------------------------
(* The chain of the sync crate.                                            *)

\* The header that others are appended to is on its way to storage or stored.
LEMMA TipOK ==
    ASSUME Library, NEW ch, NEW po, ChainOK(ch, po)
    PROVE  BestHeader(ch) \in ch.headers \cup ch.stored /\ BestHeader(ch) \in Blocks
<1>1. CASE ch.headers = {}
  BY <1>1, Zenon DEF ChainOK, Chain, StorageOK, BestHeader
<1>2. CASE ch.headers # {}
  <2> DEFINE Depths == {MaxHeight - Height[h] : h \in ch.headers}
  <2>1. ch.headers \subseteq Blocks
    BY Zenon DEF ChainOK, Chain
  <2>2. Depths \in SUBSET Nat /\ Depths # {}
    BY <1>2, <2>1, HeightAssumption
  <2>3. PICK n \in Depths : \A m \in Depths : n <= m
    <3> HIDE DEF Depths
    <3> QED BY <2>2, Least, Zenon
  <2>4. PICK h \in ch.headers : n = MaxHeight - Height[h]
    BY <2>3, Zenon
  <2>5. ASSUME NEW o \in ch.headers PROVE Height[o] <= Height[h]
    <3>1. n <= MaxHeight - Height[o]
      BY <2>3, Zenon
    <3>2. Height[o] \in Int /\ Height[h] \in Int /\ MaxHeight \in Int
      BY <2>1, HeightAssumption
    <3> HIDE DEF Depths
    <3> QED BY <2>4, <3>1, <3>2
  <2>6. BestHeader(ch) \in ch.headers
    BY <1>2, <2>4, <2>5, Zenon DEF BestHeader
  <2> QED BY <2>1, <2>6, Zenon
<1> QED BY <1>1, <1>2, Zenon

\* The headers and the stored blocks together have all their ancestors.
LEMMA HeadersReachStorage ==
    ASSUME Library, NEW ch, NEW po, ChainOK(ch, po), NEW h \in ch.headers \cup ch.stored
    PROVE  Ancestors[h] \subseteq ch.headers \cup ch.stored
<1>1. ch.headers \cup ch.stored \in SUBSET Blocks
  BY Zenon DEF ChainOK, Chain
<1>2. \A b \in (ch.headers \cup ch.stored) \ {Genesis} : Parent[b] \in ch.headers \cup ch.stored
  BY Zenon DEF ChainOK, HeadersOK, StorageOK
<1> QED BY <1>1, <1>2, Closed, Zenon

\* The blocks leave the queues, and nothing else changes.
Leaves(ch, hs, r) ==
    /\ r \in Chain /\ QueuesOK(r)
    /\ r.verifying = ch.verifying \ hs /\ r.requested = ch.requested \ hs
    /\ r.scheduled = ch.scheduled \ hs
    /\ r.stored = ch.stored /\ r.best = ch.best /\ r.dead = ch.dead /\ r.headers = ch.headers

\* forget_blocks_leave_header.
LEMMA ForgetLeaves ==
    ASSUME NEW ch \in Chain, QueuesOK(ch), NEW hs, NEW r, r = ForgetBlocksLeaveHeader(ch, hs)
    PROVE  Leaves(ch, hs, r)
<1>1. /\ r \in Chain
      /\ r.verifying = ch.verifying \ hs /\ r.requested = ch.requested \ (hs \ ch.verifying)
      /\ r.scheduled = ch.scheduled \ (hs \ (ch.verifying \cup ch.requested))
      /\ r.stored = ch.stored /\ r.best = ch.best /\ r.dead = ch.dead /\ r.headers = ch.headers
  BY Zenon DEF ForgetBlocksLeaveHeader, Chain
<1>2. r.requested = ch.requested \ hs /\ r.scheduled = ch.scheduled \ hs
  BY <1>1, Zenon DEF QueuesOK, Pending
<1> QED BY <1>1, <1>2, Zenon DEF QueuesOK, Pending, Leaves

\* remove of the headers chain: no gap is left.
LEMMA RemovesHeaders ==
    ASSUME NEW ch \in Chain, \A h \in ch.headers : Parent[h] \in ch.headers \cup ch.stored,
           \A h \in ch.headers : h # Genesis,
           NEW hs, NEW r, r = RemoveHeaders(ch, hs)
    PROVE  /\ r \in Chain /\ r.headers = ch.headers \ WithFollowers(ch, hs) /\ hs \subseteq WithFollowers(ch, hs)
           /\ \A h \in r.headers : Parent[h] \in r.headers \cup ch.stored
           /\ r.verifying = ch.verifying /\ r.requested = ch.requested /\ r.scheduled = ch.scheduled
           /\ r.stored = ch.stored /\ r.best = ch.best /\ r.dead = ch.dead
<1>1. /\ r \in Chain /\ r.headers = ch.headers \ WithFollowers(ch, hs)
      /\ r.verifying = ch.verifying /\ r.requested = ch.requested /\ r.scheduled = ch.scheduled
      /\ r.stored = ch.stored /\ r.best = ch.best /\ r.dead = ch.dead
  BY Zenon DEF RemoveHeaders, Chain
<1>2. hs \subseteq WithFollowers(ch, hs)
  BY Zenon DEF WithFollowers
<1>3. ASSUME NEW h \in r.headers, Parent[h] \notin ch.stored PROVE Parent[h] \in r.headers
  <2>1. h \in ch.headers /\ h \in Blocks /\ Parent[h] \in ch.headers /\ h # Genesis
    BY <1>1, <1>3, Zenon DEF Chain
  <2>2. Ancestors[Parent[h]] \subseteq Ancestors[h] /\ Parent[h] \in Ancestors[h]
    BY <2>1, Tree, ZenonT(60)
  <2>3. Parent[h] \notin WithFollowers(ch, hs)
    BY <1>1, <1>3, <2>1, <2>2, Zenon DEF WithFollowers
  <2> QED BY <1>1, <2>1, <2>3, Zenon
<1> QED BY <1>1, <1>2, <1>3, Zenon

\* What is left of a chain when blocks are forgotten.
Forgets(ch, hs, r) ==
    /\ r.verifying = ch.verifying \ hs /\ r.requested = ch.requested \ hs
    /\ r.scheduled = ch.scheduled \ hs /\ r.headers \subseteq ch.headers
    /\ r.stored = ch.stored /\ r.dead = ch.dead

\* forget_blocks.
LEMMA ForgetsBlocks ==
    ASSUME NEW ch, NEW po, ChainOK(ch, po), NEW hs, NEW r, r = ForgetBlocks(ch, hs)
    PROVE  /\ ChainOK(r, po) /\ Forgets(ch, hs, r)
           /\ r.headers = ch.headers \ WithFollowers(ch, hs)
<1>1. PICK x : x = RemoveHeaders(ch, hs)
  BY Zenon
<1>2. \A h \in ch.headers : h # Genesis
  BY Zenon DEF ChainOK, HeadersOK, StorageOK, QueuesOK
<1>3. ch \in Chain /\ \A h \in ch.headers : Parent[h] \in ch.headers \cup ch.stored
  BY Zenon DEF ChainOK, HeadersOK
<1>4. /\ x \in Chain /\ x.headers = ch.headers \ WithFollowers(ch, hs) /\ hs \subseteq WithFollowers(ch, hs)
      /\ \A h \in x.headers : Parent[h] \in x.headers \cup ch.stored
      /\ x.verifying = ch.verifying /\ x.requested = ch.requested /\ x.scheduled = ch.scheduled
      /\ x.stored = ch.stored /\ x.best = ch.best /\ x.dead = ch.dead
  BY <1>1, <1>2, <1>3, RemovesHeaders
<1>5. QueuesOK(x)
  BY <1>4, Zenon DEF ChainOK, QueuesOK, Pending
<1>6. /\ r \in Chain /\ QueuesOK(r)
      /\ r.verifying = x.verifying \ hs /\ r.requested = x.requested \ hs
      /\ r.scheduled = x.scheduled \ hs
      /\ r.stored = x.stored /\ r.best = x.best /\ r.dead = x.dead /\ r.headers = x.headers
  BY <1>1, <1>4, <1>5, ForgetLeaves DEF ForgetBlocks, Leaves
<1>7. HeadersOK(r)
  BY <1>4, <1>6, Zenon DEF ChainOK, HeadersOK, Pending
<1>8. StorageOK(r) /\ OrphansOK(r, po) /\ po \in OrphanPool
  BY <1>4, <1>6 DEF ChainOK, StorageOK, OrphansOK
<1> QED BY <1>4, <1>6, <1>7, <1>8, Zenon DEF ChainOK, Forgets

\* forget_all_blocks_with_state of the requested and the scheduled blocks.
LEMMA ForgetsPending ==
    ASSUME NEW ch, NEW po, ChainOK(ch, po), NEW r, r = ForgetPendingBlocks(ch)
    PROVE  /\ ChainOK(r, po) /\ Pending(r) = {} /\ r.requested = {} /\ r.verifying = ch.verifying
           /\ r.stored = ch.stored /\ r.dead = ch.dead
<1> DEFINE hs == ch.requested \cup ch.scheduled
<1>1. PICK x : x = RemoveHeaders(ch, hs)
  BY Zenon
<1>2. \A h \in ch.headers : h # Genesis
  BY Zenon DEF ChainOK, HeadersOK, StorageOK, QueuesOK
<1>3. ch \in Chain /\ \A h \in ch.headers : Parent[h] \in ch.headers \cup ch.stored
  BY Zenon DEF ChainOK, HeadersOK
<1>4. /\ x \in Chain /\ x.headers = ch.headers \ WithFollowers(ch, hs) /\ hs \subseteq WithFollowers(ch, hs)
      /\ \A h \in x.headers : Parent[h] \in x.headers \cup ch.stored
      /\ x.verifying = ch.verifying /\ x.requested = ch.requested /\ x.scheduled = ch.scheduled
      /\ x.stored = ch.stored /\ x.best = ch.best /\ x.dead = ch.dead
  <2> HIDE DEF hs
  <2> QED BY <1>1, <1>2, <1>3, RemovesHeaders
<1>5. /\ r \in Chain /\ r.requested = {} /\ r.scheduled = {} /\ r.verifying = x.verifying
      /\ r.stored = x.stored /\ r.best = x.best /\ r.dead = x.dead /\ r.headers = x.headers
  BY <1>1, <1>4, Zenon DEF ForgetPendingBlocks, Chain
<1>6. QueuesOK(r)
  BY <1>4, <1>5, Zenon DEF ChainOK, QueuesOK, Pending
<1>7. HeadersOK(r)
  BY <1>4, <1>5, Zenon DEF ChainOK, HeadersOK, Pending
<1>8. StorageOK(r) /\ OrphansOK(r, po) /\ po \in OrphanPool
  BY <1>4, <1>5, Zenon DEF ChainOK, StorageOK, OrphansOK
<1> QED BY <1>4, <1>5, <1>6, <1>7, <1>8, Zenon DEF ChainOK, Pending

\* Blocks may leave the pool at any time.
LEMMA PoolShrinks ==
    ASSUME NEW ch, NEW po, ChainOK(ch, po), NEW new \in OrphanPool, new.blocks \subseteq po.blocks
    PROVE  ChainOK(ch, new)
BY Zenon DEF ChainOK, OrphansOK

\* request_blocks_hashes moves scheduled blocks to the requested ones.
LEMMA RequestsBlocks ==
    ASSUME NEW ch, NEW po, ChainOK(ch, po), NEW hs \in SUBSET ch.scheduled, NEW r, r = RequestBlocksHashes(ch, hs)
    PROVE  /\ ChainOK(r, po) /\ Pending(r) = Pending(ch) /\ r.requested = ch.requested \cup hs
           /\ r.verifying = ch.verifying /\ r.stored = ch.stored /\ r.dead = ch.dead
<1>1. /\ r \in Chain /\ r.requested = ch.requested \cup hs /\ r.scheduled = ch.scheduled \ hs
      /\ r.verifying = ch.verifying /\ r.stored = ch.stored /\ r.best = ch.best /\ r.dead = ch.dead
      /\ r.headers = ch.headers
  BY Zenon DEF ChainOK, Chain, RequestBlocksHashes
<1>2. Pending(r) = Pending(ch)
  BY <1>1, Zenon DEF Pending
<1>3. QueuesOK(r)
  BY <1>1, <1>2, Zenon DEF ChainOK, QueuesOK, Pending
<1> QED BY <1>1, <1>2, <1>3, Zenon DEF ChainOK, HeadersOK, StorageOK, OrphansOK

\* schedule_blocks_headers: unknown headers, each but the first a child of another
\* one of them, are queued; those that follow the headers chain prolong it.
LEMMA SchedulesHeaders ==
    ASSUME Library, NEW ch, NEW po, ChainOK(ch, po), NEW new \in SUBSET Blocks,
           new \cap (ch.stored \cup ch.verifying \cup Pending(ch)) = {},
           NEW first \in new, \A h \in new \ {first} : Parent[h] \in new,
           NEW r, r = ScheduleBlocksHeaders(ch, new)
    PROVE  /\ ChainOK(r, po) /\ r.scheduled = ch.scheduled \cup new /\ r.requested = ch.requested
           /\ r.verifying = ch.verifying /\ r.stored = ch.stored /\ r.dead = ch.dead
<1>1. PICK tip : tip = BestHeader(ch)
  BY Zenon
<1>2. tip \in ch.headers \cup ch.stored /\ tip \in Blocks /\ tip \notin new
  BY <1>1, TipOK, Zenon DEF ChainOK, HeadersOK
<1>3. PICK more : more = InsertHeaders(ch, new)
  BY Zenon
<1>4. more \subseteq new
  BY <1>3, Zenon DEF InsertHeaders
<1>5. ASSUME NEW h \in more PROVE Parent[h] \in more \cup {tip}
  <2>1. (\E x \in new : Parent[x] = tip) /\ h \in new /\ tip \in Strict(h)
    BY <1>1, <1>3, <1>5, Zenon DEF InsertHeaders
  <2>2. Parent[first] = tip
    BY <1>2, <2>1, Zenon
  <2>3. CASE h = first
    BY <2>2, <2>3, Zenon
  <2>4. CASE h # first
    <3>1. Parent[h] \in new /\ h # Genesis
      BY <2>1, <2>4, Zenon DEF ChainOK, StorageOK
    <3>2. tip \in Ancestors[Parent[h]] /\ tip # Parent[h]
      BY <1>2, <2>1, <3>1, Tree, Zenon
    <3> QED BY <1>1, <1>3, <2>1, <3>1, <3>2, Zenon DEF InsertHeaders, Strict
  <2> QED BY <2>3, <2>4, Zenon
<1>6. /\ r \in Chain /\ r.scheduled = ch.scheduled \cup new /\ r.headers = ch.headers \cup more
      /\ r.requested = ch.requested /\ r.verifying = ch.verifying /\ r.stored = ch.stored
      /\ r.best = ch.best /\ r.dead = ch.dead
  BY <1>3, <1>4, Zenon DEF ChainOK, Chain, ScheduleBlocksHeaders
<1>7. QueuesOK(r)
  BY <1>6, Zenon DEF ChainOK, QueuesOK, Pending
<1>8. HeadersOK(r)
  BY <1>2, <1>4, <1>5, <1>6, ZenonT(60) DEF ChainOK, HeadersOK, Pending
<1> QED BY <1>6, <1>7, <1>8, Zenon DEF ChainOK, StorageOK, OrphansOK

\* mark_dead_end_block.
LEMMA MarksDeadEnd ==
    ASSUME NEW ch, NEW po, ChainOK(ch, po), NEW b \in Blocks, NEW r, r = MarkDeadEndBlock(ch, b)
    PROVE  /\ ChainOK(r, po) /\ r.dead = ch.dead \cup {b} /\ r.scheduled = ch.scheduled
           /\ r.requested = ch.requested /\ r.verifying = ch.verifying /\ r.stored = ch.stored
<1>1. /\ r \in Chain /\ r.dead = ch.dead \cup {b} /\ r.scheduled = ch.scheduled
      /\ r.requested = ch.requested /\ r.verifying = ch.verifying /\ r.stored = ch.stored
      /\ r.best = ch.best /\ r.headers = ch.headers
  BY Zenon DEF ChainOK, Chain, MarkDeadEndBlock
<1> QED BY <1>1, Zenon DEF ChainOK, QueuesOK, HeadersOK, StorageOK, OrphansOK, Pending

\* The pooled blocks that a block brings with it: they follow it without a gap,
\* and none that follows them stays behind.
Brings(ch, po, b, bs) ==
    /\ BlocksForParents(po, {b}) \subseteq po.blocks /\ bs \subseteq Blocks
    /\ \A x \in BlocksForParents(po, {b}) :
         x # Genesis /\ Parent[x] \in bs /\ b \in Ancestors[x] /\ x \notin ch.stored \cup ch.verifying
    /\ \A x \in po.blocks : Parent[x] \in bs => x \in bs

\* blocks_for_parents returns whole branches.
LEMMA Brought ==
    ASSUME NEW ch, NEW po, ChainOK(ch, po), NEW b \in Blocks, NEW bs, bs = {b} \cup BlocksForParents(po, {b})
    PROVE  Brings(ch, po, b, bs)
<1>1. po.blocks \subseteq Blocks
  BY Zenon DEF ChainOK, OrphanPool
<1>2. BlocksForParents(po, {b}) \subseteq po.blocks
  BY Zenon DEF BlocksForParents
<1>3. \A x \in po.blocks : x # Genesis /\ x \notin ch.stored \cup ch.verifying
  BY Zenon DEF ChainOK, OrphansOK, StorageOK
<1>4. ASSUME NEW x \in BlocksForParents(po, {b})
      PROVE  Parent[x] \in bs /\ b \in Ancestors[x]
  <2>1. x \in Blocks /\ x # Genesis /\ b \in Strict(x) /\ Ancestors[x] \ Ancestors[b] \subseteq po.blocks
    BY <1>1, <1>2, <1>3, Zenon DEF BlocksForParents
  <2>2. /\ Parent[x] \in Blocks /\ b \in Ancestors[Parent[x]]
        /\ Ancestors[x] = Ancestors[Parent[x]] \cup {x} /\ Parent[x] \in Ancestors[Parent[x]]
    BY <2>1, Tree, Zenon
  <2>3. CASE Parent[x] = b
    BY <2>2, <2>3, Zenon
  <2>4. CASE Parent[x] # b
    <3>1. Height[b] < Height[Parent[x]] /\ Height[b] \in Nat /\ Height[Parent[x]] \in Nat
      BY <2>2, <2>4, Tree, Zenon
    <3>2. Parent[x] \notin Ancestors[b]
      BY <2>4, <3>1, Tree
    <3>3. Parent[x] \in po.blocks /\ Ancestors[Parent[x]] \ Ancestors[b] \subseteq po.blocks
      BY <2>1, <2>2, <3>2, Zenon
    <3> QED BY <2>2, <2>4, <3>3, Zenon DEF BlocksForParents, Strict
  <2> QED BY <2>2, <2>3, <2>4, Zenon
<1>5. ASSUME NEW x \in po.blocks, Parent[x] \in bs PROVE x \in bs
  <2>1. x \in Blocks /\ x # Genesis
    BY <1>1, <1>3, Zenon
  <2>2. /\ Parent[x] \in Blocks /\ Strict(x) = Ancestors[Parent[x]]
        /\ Ancestors[x] = Ancestors[Parent[x]] \cup {x}
    BY <2>1, Tree, Zenon
  <2>3. CASE Parent[x] = b
    BY <2>2, <2>3, Tree DEF BlocksForParents
  <2>4. CASE Parent[x] # b
    <3>1. b \in Ancestors[Parent[x]] /\ Ancestors[Parent[x]] \ Ancestors[b] \subseteq po.blocks
      BY <1>5, <2>4, Zenon DEF BlocksForParents, Strict
    <3> QED BY <2>2, <3>1, Zenon DEF BlocksForParents
  <2> QED BY <2>3, <2>4, Zenon
<1> QED BY <1>1, <1>2, <1>3, <1>4, <1>5, Zenon DEF Brings

\* Who takes blocks out of the pool.
LEMMA PoolRemoves ==
    ASSUME NEW po \in OrphanPool, NEW hs
    PROVE  /\ RemoveBlocksForParents(po, hs) \in OrphanPool
           /\ RemoveBlocksForParents(po, hs).blocks = po.blocks \ BlocksForParents(po, hs)
           /\ RemoveBlocks(po, hs) \in OrphanPool
           /\ RemoveBlocks(po, hs).blocks = po.blocks \ RemovedBlocks(po, hs)
           /\ RemovedBlocks(po, hs) \subseteq po.blocks
BY Zenon DEF OrphanPool, RemoveBlocksForParents, RemoveBlocks, RemovedBlocks, BlocksForParents

\* What becomes of chain and pool when b and the orphans that follow it, bs, are verified.
Verifies(ch, po, b, bs, r) ==
    /\ ChainOK(r, RemoveBlocksForParents(po, {b}))
    /\ r.verifying = ch.verifying \cup bs /\ r.requested = ch.requested \ bs
    /\ r.scheduled = ch.scheduled \ bs /\ r.stored = ch.stored /\ r.dead = ch.dead

\* on_block, a block whose parent is stored or verifying: it and the orphans that
\* follow it leave pool and queues and are verified.
LEMMA VerifiesBlocks ==
    ASSUME Library, NEW ch, NEW po, ChainOK(ch, po), NEW b \in Blocks, b \notin ch.stored \cup ch.verifying,
           Parent[b] \in ch.stored \cup ch.verifying,
           NEW bs, bs = {b} \cup BlocksForParents(po, {b}),
           NEW r \in VerifyBlocks(ForgetBlocksLeaveHeader(ch, bs), bs)
    PROVE  Verifies(ch, po, b, bs, r)
<1>0. ch \in Chain /\ QueuesOK(ch) /\ po \in OrphanPool /\ OrphansOK(ch, po)
  BY Zenon DEF ChainOK
<1>1. /\ bs \subseteq Blocks /\ bs \cap (ch.stored \cup ch.verifying) = {}
      /\ \A x \in po.blocks : Parent[x] \in bs => x \in bs
  <2>1. Brings(ch, po, b, bs)
    BY Brought, Zenon
  <2>2. \A x \in bs : x \notin ch.stored \cup ch.verifying
    BY <2>1, Zenon DEF Brings
  <2>3. bs \subseteq Blocks /\ \A x \in po.blocks : Parent[x] \in bs => x \in bs
    BY <2>1, Zenon DEF Brings
  <2> QED BY <2>2, <2>3, ZenonT(60)
<1>2. PICK x : x = ForgetBlocksLeaveHeader(ch, bs)
  BY Zenon
<1>3. /\ x \in Chain /\ QueuesOK(x)
      /\ x.verifying = ch.verifying \ bs /\ x.requested = ch.requested \ bs
      /\ x.scheduled = ch.scheduled \ bs
      /\ x.stored = ch.stored /\ x.best = ch.best /\ x.dead = ch.dead /\ x.headers = ch.headers
  <2>1. Leaves(ch, bs, x)
    BY <1>0, <1>2, ForgetLeaves, Zenon
  <2> QED BY <2>1, Zenon DEF Leaves
<1>4. PICK tip : tip = BestHeader(x)
  BY Zenon
<1>5. tip \in ch.headers \cup ch.stored /\ tip \in Blocks
  BY <1>3, <1>4, TipOK, Zenon DEF BestHeader
<1>6. PICK branch \in HeaderBranches(x, bs) :
        r = [x EXCEPT !.verifying = @ \cup bs, !.headers = @ \cup branch]
  BY <1>2, Zenon DEF VerifyBlocks
<1>7. branch \subseteq bs /\ \A h \in branch : Parent[h] \in branch \cup {tip}
  <2>1. CASE branch = {}
    BY <2>1, Zenon
  <2>2. CASE branch # {}
    <3>1. PICK e \in bs : tip \in Strict(e) /\ branch = Ancestors[e] \ Ancestors[tip] /\ branch \subseteq bs
      BY <1>4, <1>6, <2>2, Zenon DEF HeaderBranches
    <3>2. ASSUME NEW h \in branch, Parent[h] \notin branch PROVE Parent[h] = tip
      <4>1. e \in Blocks /\ h \in Ancestors[e] /\ tip \in Ancestors[e] /\ h \notin Ancestors[tip] /\ h \in Blocks
        BY <1>1, <3>1, <3>2, Zenon DEF Strict
      <4>2. h # Genesis /\ tip # h
        BY <1>5, <4>1, Tree, AncestorsAssumption, Zenon
      <4>3. tip \in Ancestors[h]
        BY <4>1, Comparable, Zenon
      <4>4. /\ Parent[h] \in Blocks /\ tip \in Ancestors[Parent[h]] /\ Parent[h] \in Ancestors[h]
            /\ Ancestors[h] \subseteq Ancestors[e]
        BY <4>1, <4>2, <4>3, Tree
      <4>5. Parent[h] \in Ancestors[tip]
        BY <3>1, <3>2, <4>4, Zenon
      <4>6. Height[tip] \in Nat /\ Height[Parent[h]] \in Nat
        BY <1>5, <4>4, Tree, Zenon
      <4>7. Parent[h] # tip => Height[tip] < Height[Parent[h]] /\ Height[Parent[h]] < Height[tip]
        BY <1>5, <4>4, <4>5, Tree, Zenon
      <4> QED BY <4>6, <4>7
    <3> QED BY <3>1, <3>2, Zenon
  <2> QED BY <2>1, <2>2, Zenon
<1>8. /\ r \in Chain /\ r.verifying = x.verifying \cup bs /\ r.headers = x.headers \cup branch
      /\ r.requested = x.requested /\ r.scheduled = x.scheduled
      /\ r.stored = x.stored /\ r.best = x.best /\ r.dead = x.dead
  BY <1>1, <1>3, <1>6, <1>7, Zenon DEF Chain
<1>9. r.verifying = ch.verifying \cup bs
  BY <1>3, <1>8, Zenon
<1>10. QueuesOK(r)
  <2>1. Pending(r) = Pending(ch) \ bs
    BY <1>3, <1>8, Zenon DEF Pending
  <2>2. r.scheduled \cap r.requested = {}
    BY <1>0, <1>3, <1>8, Zenon DEF QueuesOK
  <2> QED BY <1>0, <1>1, <1>3, <1>8, <1>9, <2>1, <2>2, SMTT(60) DEF QueuesOK
<1>11. HeadersOK(r)
  <2>1. r.headers \subseteq r.verifying \cup Pending(r)
    BY <1>3, <1>7, <1>8, Zenon DEF ChainOK, HeadersOK, Pending
  <2>2. \A h \in r.headers : Parent[h] \in r.headers \cup r.stored
    BY <1>3, <1>5, <1>7, <1>8, Zenon DEF ChainOK, HeadersOK
  <2> QED BY <2>1, <2>2, Zenon DEF HeadersOK
<1>12. StorageOK(r)
  BY <1>3, <1>8, Zenon DEF ChainOK, StorageOK
<1>13. OrphansOK(r, RemoveBlocksForParents(po, {b})) /\ RemoveBlocksForParents(po, {b}) \in OrphanPool
  <2>1. PICK new : new = RemoveBlocksForParents(po, {b})
    BY Zenon
  <2>2. b \notin po.blocks
    BY <1>0, Zenon DEF OrphansOK
  <2>3. new \in OrphanPool /\ new.blocks = po.blocks \ bs
    BY <1>0, <2>1, <2>2, PoolRemoves
  <2>4. r.stored = ch.stored
    BY <1>3, <1>8, Zenon
  <2>5. OrphansOK(r, new)
    BY <1>0, <1>1, <1>9, <2>3, <2>4, SMTT(60) DEF OrphansOK
  <2> QED BY <2>1, <2>3, <2>5, Zenon
<1> QED BY <1>3, <1>8, <1>9, <1>10, <1>11, <1>12, <1>13, Zenon DEF ChainOK, Verifies

\* insert_best_block of a verified block on top of a stored one.
LEMMA StoresBlock ==
    ASSUME NEW ch, NEW po, ChainOK(ch, po), NEW b \in ch.verifying, Parent[b] \in ch.stored,
           NEW r, r = InsertBestBlock([ch EXCEPT !.verifying = @ \ {b}], b)
    PROVE  /\ ChainOK(r, po) /\ r.stored = ch.stored \cup {b} /\ r.verifying = ch.verifying \ {b}
           /\ r.requested = ch.requested /\ r.scheduled = ch.scheduled /\ r.dead = ch.dead
<1>1. PICK x : x = [ch EXCEPT !.verifying = @ \ {b}]
  BY Zenon
<1>2. /\ x \in Chain /\ x.verifying = ch.verifying \ {b} /\ x.requested = ch.requested
      /\ x.scheduled = ch.scheduled /\ x.stored = ch.stored /\ x.best = ch.best
      /\ x.dead = ch.dead /\ x.headers = ch.headers
  BY <1>1, Zenon DEF ChainOK, Chain
<1>3. Parent[b] \notin ch.headers /\ b \in Blocks
  BY Zenon DEF ChainOK, QueuesOK, HeadersOK, Chain
<1>4. PICK y : y = BlockInsertedToStorage(x, b)
  BY Zenon
<1>5. /\ y \in Chain /\ y.verifying = x.verifying /\ y.requested = x.requested
      /\ y.scheduled = x.scheduled /\ y.stored = x.stored /\ y.best = x.best
      /\ y.dead = x.dead /\ y.headers = x.headers \ {b}
  BY <1>2, <1>3, <1>4, Zenon DEF BlockInsertedToStorage, Chain
<1>6. PICK best \in {b, y.best} : r = [y EXCEPT !.stored = @ \cup {b}, !.best = best]
  <2>1. r = [y EXCEPT !.stored = @ \cup {b}, !.best = IF Height[b] > Height[@] THEN b ELSE @]
    BY <1>1, <1>4, Zenon DEF InsertBestBlock
  <2>2. r = [y EXCEPT !.stored = @ \cup {b}, !.best = IF Height[b] > Height[y.best] THEN b ELSE y.best]
    BY <2>1, Zenon
  <2> QED BY <2>2, Zenon
<1>7. /\ r \in Chain /\ r.stored = y.stored \cup {b} /\ r.best \in {b, y.best}
      /\ r.verifying = y.verifying /\ r.requested = y.requested
      /\ r.scheduled = y.scheduled /\ r.dead = y.dead /\ r.headers = y.headers
  <2>1. best \in Blocks
    BY <1>3, <1>5, Zenon DEF Chain
  <2>2. PICK st \in SUBSET Blocks : st = y.stored \cup {b}
    BY <1>3, <1>5, Zenon DEF Chain
  <2>3. r = [y EXCEPT !.stored = st, !.best = best]
    BY <1>6, <2>2, Zenon
  <2> QED BY <1>5, <2>1, <2>2, <2>3, Zenon DEF Chain
<1>8. QueuesOK(r)
  BY <1>2, <1>5, <1>7, ZenonT(60) DEF ChainOK, QueuesOK, Pending
<1>9. HeadersOK(r)
  BY <1>2, <1>5, <1>7, Zenon DEF ChainOK, HeadersOK, Pending
<1>10. StorageOK(r)
  BY <1>2, <1>5, <1>7, Zenon DEF ChainOK, StorageOK
<1>11. OrphansOK(r, po) /\ po \in OrphanPool
  <2>1. r.stored \cup r.verifying = ch.stored \cup ch.verifying
    BY <1>2, <1>5, <1>7, Zenon
  <2> QED BY <2>1, Zenon DEF ChainOK, OrphansOK
<1> QED BY <1>2, <1>5, <1>7, <1>8, <1>9, <1>10, <1>11, Zenon DEF ChainOK

\* on_block while synchronizing, a block of whose parent nothing is known: it and
\* the orphans that follow it are forgotten.
LEMMA ForgetsUnknown ==
    ASSUME Library, NEW ch, NEW po, ChainOK(ch, po), NEW b \in Blocks, b \notin ch.stored \cup ch.verifying,
           NEW r, r = ForgetBlocksLeaveHeader(ForgetBlocks(ch, {b}), BlocksForParents(po, {b}))
    PROVE  /\ ChainOK(r, RemoveBlocksForParents(po, {b}))
           /\ Forgets(ch, {b} \cup BlocksForParents(po, {b}), r)
<1>1. PICK G : G = BlocksForParents(po, {b})
  BY Zenon
<1>2. G \subseteq po.blocks /\ \A g \in G : b \in Ancestors[g]
  <2>1. PICK bs : bs = {b} \cup BlocksForParents(po, {b})
    BY Zenon
  <2>2. Brings(ch, po, b, bs)
    BY <2>1, Brought, Zenon
  <2> QED BY <1>1, <2>2, Zenon DEF Brings
<1>3. PICK x : x = ForgetBlocks(ch, {b})
  BY Zenon
<1>4. ChainOK(x, po) /\ Forgets(ch, {b}, x) /\ x.headers = ch.headers \ WithFollowers(ch, {b})
  BY <1>3, ForgetsBlocks, Zenon
<1>5. ASSUME NEW g \in G PROVE g \notin x.headers
  <2>1. g \in ch.headers => b \in ch.headers
    BY <1>2, <1>5, HeadersReachStorage, Zenon
  <2> QED BY <1>2, <1>4, <1>5, <2>1, Zenon DEF WithFollowers
<1>6. /\ r \in Chain /\ QueuesOK(r)
      /\ r.verifying = x.verifying \ G /\ r.requested = x.requested \ G
      /\ r.scheduled = x.scheduled \ G
      /\ r.stored = x.stored /\ r.best = x.best /\ r.dead = x.dead /\ r.headers = x.headers
  <2>1. x \in Chain /\ QueuesOK(x) /\ r = ForgetBlocksLeaveHeader(x, G)
    BY <1>1, <1>3, <1>4, Zenon DEF ChainOK
  <2>2. Leaves(x, G, r)
    BY <2>1, ForgetLeaves, Zenon
  <2> QED BY <2>2, Zenon DEF Leaves
<1>7. ChainOK(r, po)
  <2>1. HeadersOK(r)
    BY <1>4, <1>5, <1>6, Zenon DEF ChainOK, HeadersOK, Pending
  <2> QED BY <1>4, <1>6, <2>1, Zenon DEF ChainOK, StorageOK, OrphansOK
<1>8. ChainOK(r, RemoveBlocksForParents(po, {b}))
  BY <1>7, PoolShrinks, PoolRemoves DEF ChainOK
<1> QED BY <1>1, <1>4, <1>6, <1>8, Zenon DEF Forgets

\* on_block when not synchronizing: the block waits in the pool for its parent.
LEMMA KeepsUnknown ==
    ASSUME NEW ch, NEW po, ChainOK(ch, po), NEW b \in Blocks, b \notin ch.stored \cup ch.verifying,
           Parent[b] \notin ch.stored \cup ch.verifying \cup Pending(ch),
           NEW r, r = ForgetBlocksLeaveHeader(ch, {b}),
           NEW new, new = IF b \in po.unknown THEN po ELSE InsertUnknownBlock(po, b)
    PROVE  ChainOK(r, new) /\ Forgets(ch, {b}, r) /\ po.blocks \subseteq new.blocks
<1>1. /\ r \in Chain /\ QueuesOK(r)
      /\ r.verifying = ch.verifying \ {b} /\ r.requested = ch.requested \ {b}
      /\ r.scheduled = ch.scheduled \ {b}
      /\ r.stored = ch.stored /\ r.best = ch.best /\ r.dead = ch.dead /\ r.headers = ch.headers
  BY ForgetLeaves DEF ChainOK, Leaves
<1>2. b \notin ch.headers
  BY Zenon DEF ChainOK, HeadersOK
<1>3. HeadersOK(r) /\ StorageOK(r)
  BY <1>1, <1>2, Zenon DEF ChainOK, HeadersOK, StorageOK, Pending
<1>4. new \in OrphanPool /\ po.blocks \subseteq new.blocks /\ new.blocks \subseteq po.blocks \cup {b}
  BY Zenon DEF ChainOK, OrphanPool, InsertUnknownBlock
<1>5. OrphansOK(r, new)
  BY <1>1, <1>4, SMTT(60) DEF ChainOK, OrphansOK
<1> QED BY <1>1, <1>3, <1>4, <1>5, Zenon DEF ChainOK, Forgets

\* A block whose parent is still to come waits in the pool.
LEMMA KeepsOrphan ==
    ASSUME NEW ch, NEW po, ChainOK(ch, po), NEW b \in Blocks, b \notin ch.stored \cup ch.verifying,
           Parent[b] \in Pending(ch), NEW new, new = InsertOrphanedBlock(po, b)
    PROVE  ChainOK(ch, new) /\ new.blocks = po.blocks \cup {b}
<1>1. new \in OrphanPool /\ new.blocks = po.blocks \cup {b}
  BY Zenon DEF ChainOK, OrphanPool, InsertOrphanedBlock
<1>2. OrphansOK(ch, new)
  BY <1>1, Zenon DEF ChainOK, OrphansOK, QueuesOK
<1> QED BY <1>1, <1>2, Zenon DEF ChainOK

-----------------------------------------------------------------------------
(* The tasks of the peers.                                                 *)

\* What an operation on the tasks may do: it hears of some peers, and no longer
\* asks for some blocks.
TaskStep(t, r, heard, lost) ==
    /\ TasksOK(r)
    /\ Known(r) \subseteq Known(t) \cup heard
    /\ \A h \in Blocks : IsAsked(t, h) => h \in lost \/ IsAsked(r, h)

\* A counter stays in its range when one entry does.
LEMMA CountUpdates ==
    ASSUME NEW S, NEW n \in Nat, NEW f \in [S -> 0..n], NEW x, NEW v \in 0..n
    PROVE  [f EXCEPT ![x] = v] \in [S -> 0..n]
BY Zenon

\* The counters of the tasks.
LEMMA Counters ==
    ASSUME NEW t \in PeersTasks
    PROVE  /\ MaxPeerFailures + 1 \in Nat /\ t.peerFailures \in [Peers -> 0..MaxPeerFailures + 1]
           /\ MaxBlocksFailures \in Nat /\ t.blockFailures \in [Blocks -> 0..MaxBlocksFailures]
BY PeersAssumption DEF PeersTasks

\* The operations that leave the requests alone.
LEMMA SameRequests ==
    ASSUME NEW t, TasksOK(t), NEW r \in PeersTasks, NEW heard,
           r.blocksRequests = t.blocksRequests, Known(r) \subseteq Known(t) \cup heard,
           UsefulPeers(t) \subseteq UsefulPeers(r),
           r.idleBlocks \subseteq UsefulPeers(r), r.idleBlocks \cap Asked(t) = {}
    PROVE  TaskStep(t, r, heard, {})
BY Zenon DEF TaskStep, TasksOK, Asked, IsAsked

\* useful_peer.
LEMMA PeerIsUseful ==
    ASSUME NEW t, TasksOK(t), NEW p \in Peers, NEW r, r = UsefulPeer(t, p)
    PROVE  TaskStep(t, r, {p}, {})
<1>1. t \in PeersTasks
  BY Zenon DEF TasksOK
<1>2. CASE ~(p \notin t.all \/ p \in t.unuseful)
  BY <1>2, Zenon DEF UsefulPeer, TaskStep
<1>3. CASE p \notin t.all \/ p \in t.unuseful
  <2>1. PICK failures \in [Peers -> 0..MaxPeerFailures + 1] : failures = [t.peerFailures EXCEPT ![p] = 0]
    <3>1. 0 \in 0..MaxPeerFailures + 1
      BY <1>1, Counters
    <3> QED BY <1>1, <3>1, Counters, CountUpdates, Zenon
  <2>2. r = [t EXCEPT !.all = @ \cup {p}, !.unuseful = @ \ {p},
                      !.trusted = @ \ {p}, !.peerFailures = failures,
                      !.idleHeaders = @ \cup {p}, !.idleBlocks = @ \cup {p}]
    BY <1>1, <1>3, <2>1, Zenon DEF UsefulPeer, PeersTasks
  <2>7. PICK all, unuseful, trusted, idleHeaders, idleBlocks \in SUBSET Peers :
          /\ all = t.all \cup {p} /\ unuseful = t.unuseful \ {p} /\ trusted = t.trusted \ {p}
          /\ idleHeaders = t.idleHeaders \cup {p} /\ idleBlocks = t.idleBlocks \cup {p}
    BY <1>1, Zenon DEF PeersTasks
  <2>8. r = [t EXCEPT !.all = all, !.unuseful = unuseful, !.trusted = trusted, !.peerFailures = failures,
                      !.idleHeaders = idleHeaders, !.idleBlocks = idleBlocks]
    BY <2>2, <2>7, Zenon
  <2>3. /\ r \in PeersTasks /\ r.all = t.all \cup {p} /\ r.unuseful = t.unuseful \ {p}
        /\ r.idleHeaders = t.idleHeaders \cup {p} /\ r.idleBlocks = t.idleBlocks \cup {p}
        /\ r.headersRequests = t.headersRequests /\ r.blocksRequests = t.blocksRequests
    <3>1. /\ r \in PeersTasks /\ r.all = all /\ r.unuseful = unuseful
          /\ r.idleHeaders = idleHeaders /\ r.idleBlocks = idleBlocks
          /\ r.headersRequests = t.headersRequests /\ r.blocksRequests = t.blocksRequests
      BY <1>1, <2>8, Zenon DEF PeersTasks
    <3> QED BY <2>7, <3>1, Zenon
  <2>4. p \notin Asked(t)
    BY <1>3, Zenon DEF TasksOK, UsefulPeers
  <2>5. Known(r) \subseteq Known(t) \cup {p} /\ UsefulPeers(t) \subseteq UsefulPeers(r)
    BY <2>3, Zenon DEF Known, UsefulPeers
  <2>6. r.idleBlocks \subseteq UsefulPeers(r) /\ r.idleBlocks \cap Asked(t) = {}
    BY <2>3, <2>4, ZenonT(60) DEF TasksOK, UsefulPeers
  <2> QED BY <2>3, <2>5, <2>6, SameRequests, Zenon
<1> QED BY <1>2, <1>3, Zenon

\* unuseful_peer asserts that nothing is asked of the peer.
LEMMA PeersAreUnuseful ==
    ASSUME NEW t, TasksOK(t), NEW ps \in SUBSET Peers, ps \cap Asked(t) = {},
           NEW r, r = UnusefulPeers(t, ps)
    PROVE  TaskStep(t, r, ps, {}) /\ UsefulPeers(r) = UsefulPeers(t) \ ps
<1>1. t \in PeersTasks
  BY Zenon DEF TasksOK
<1>2. /\ r \in PeersTasks /\ r.all = t.all \cup ps /\ r.unuseful = t.unuseful \cup ps
      /\ r.idleHeaders = t.idleHeaders \ ps /\ r.idleBlocks = t.idleBlocks \ ps
      /\ r.headersRequests = t.headersRequests /\ r.blocksRequests = t.blocksRequests
  BY <1>1, Zenon DEF UnusefulPeers, PeersTasks
<1>3. Known(r) \subseteq Known(t) \cup ps /\ UsefulPeers(r) = UsefulPeers(t) \ ps
  BY <1>2, Zenon DEF Known, UsefulPeers
<1>4. Asked(r) = Asked(t)
  BY <1>2, Zenon DEF Asked
<1>5. TasksOK(r)
  BY <1>2, <1>3, <1>4, Zenon DEF TasksOK
<1> QED BY <1>2, <1>3, <1>5, Zenon DEF TaskStep, IsAsked

\* disconnect, after reset_blocks_tasks.
LEMMA PeerDisconnects ==
    ASSUME NEW t, TasksOK(t), NEW p \in Peers, NEW r, r = DisconnectPeer(ResetBlocksTasks(t, {p}), p)
    PROVE  TaskStep(t, r, {}, t.blocksRequests[p])
<1>1. t \in PeersTasks
  BY Zenon DEF TasksOK
<1>2. PICK left \in BlocksByPeer : left = [q \in Peers |-> IF q \in {p} THEN {} ELSE t.blocksRequests[q]]
  BY <1>1, Zenon DEF PeersTasks, BlocksByPeer
<1>3. PICK s : s = [t EXCEPT !.idleBlocks = @ \cup {p}, !.blocksRequests = left]
  BY Zenon
<1>4. s = ResetBlocksTasks(t, {p})
  BY <1>1, <1>2, <1>3, Zenon DEF ResetBlocksTasks, PeersTasks
<1>5. /\ s \in PeersTasks /\ s.all = t.all /\ s.unuseful = t.unuseful /\ s.idleHeaders = t.idleHeaders
      /\ s.idleBlocks = t.idleBlocks \cup {p} /\ s.headersRequests = t.headersRequests /\ s.blocksRequests = left
  BY <1>1, <1>3, Zenon DEF PeersTasks
<1>6. PICK failures \in [Peers -> 0..MaxPeerFailures + 1] : failures = [s.peerFailures EXCEPT ![p] = 0]
  <2>1. 0 \in 0..MaxPeerFailures + 1
    BY <1>5, Counters
  <2> QED BY <1>5, <2>1, Counters, CountUpdates, Zenon
<1>7. [left EXCEPT ![p] = {}] = left
  BY <1>2, Zenon DEF BlocksByPeer
<1>8. r = [s EXCEPT !.all = @ \ {p}, !.unuseful = @ \ {p},
                    !.trusted = @ \ {p}, !.peerFailures = failures,
                    !.idleHeaders = @ \ {p}, !.idleBlocks = @ \ {p},
                    !.headersRequests = @ \ {p}, !.blocksRequests = left]
  BY <1>4, <1>5, <1>6, <1>7, Zenon DEF DisconnectPeer, PeersTasks
<1>9. /\ r \in PeersTasks /\ r.all = s.all \ {p} /\ r.unuseful = s.unuseful \ {p}
      /\ r.idleHeaders = s.idleHeaders \ {p} /\ r.idleBlocks = s.idleBlocks \ {p}
      /\ r.headersRequests = s.headersRequests \ {p} /\ r.blocksRequests = left
  <2>1. PICK all, unuseful, trusted, idleHeaders, idleBlocks, headersRequests \in SUBSET Peers :
          /\ all = s.all \ {p} /\ unuseful = s.unuseful \ {p} /\ trusted = s.trusted \ {p}
          /\ idleHeaders = s.idleHeaders \ {p} /\ idleBlocks = s.idleBlocks \ {p}
          /\ headersRequests = s.headersRequests \ {p}
    BY <1>5, Zenon DEF PeersTasks
  <2>2. r = [s EXCEPT !.all = all, !.unuseful = unuseful, !.trusted = trusted, !.peerFailures = failures,
                      !.idleHeaders = idleHeaders, !.idleBlocks = idleBlocks,
                      !.headersRequests = headersRequests, !.blocksRequests = left]
    BY <1>8, <2>1, Zenon
  <2>3. /\ r \in PeersTasks /\ r.all = all /\ r.unuseful = unuseful
        /\ r.idleHeaders = idleHeaders /\ r.idleBlocks = idleBlocks
        /\ r.headersRequests = headersRequests /\ r.blocksRequests = left
    BY <1>5, <2>2, ZenonT(60) DEF PeersTasks
  <2> QED BY <2>1, <2>3, Zenon
<1>10. Known(r) \subseteq Known(t) /\ UsefulPeers(r) = UsefulPeers(t) \ {p}
  BY <1>5, <1>9, Zenon DEF Known, UsefulPeers
<1>11. Asked(r) = Asked(t) \ {p}
  BY <1>2, <1>9, ZenonT(60) DEF Asked, BlocksByPeer
<1>12. TasksOK(r)
  BY <1>5, <1>9, <1>10, <1>11, Zenon DEF TasksOK
<1>13. \A h \in Blocks : IsAsked(t, h) => h \in t.blocksRequests[p] \/ IsAsked(r, h)
  BY <1>2, <1>9, Zenon DEF IsAsked
<1> QED BY <1>10, <1>12, <1>13, Zenon DEF TaskStep

\* on_block_received.
LEMMA BlockIsReceived ==
    ASSUME NEW t, TasksOK(t), NEW p \in Peers, NEW b \in Blocks, NEW r, r = OnBlockReceived(t, p, b)
    PROVE  TaskStep(t, r, {p}, {b})
<1>1. t \in PeersTasks
  BY Zenon DEF TasksOK
<1>2. PICK blockFailures \in [Blocks -> 0..MaxBlocksFailures] : blockFailures = [t.blockFailures EXCEPT ![b] = 0]
  <2>1. 0 \in 0..MaxBlocksFailures
    BY <1>1, Counters
  <2> QED BY <1>1, <2>1, Counters, CountUpdates, Zenon
<1>3. PICK s : s = [t EXCEPT !.blockFailures = blockFailures]
  BY Zenon
<1>4. /\ s \in PeersTasks /\ s.all = t.all /\ s.unuseful = t.unuseful /\ s.idleHeaders = t.idleHeaders
      /\ s.idleBlocks = t.idleBlocks /\ s.headersRequests = t.headersRequests /\ s.blocksRequests = t.blocksRequests
  BY <1>1, <1>3, Zenon DEF PeersTasks
<1>5. s = [t EXCEPT !.blockFailures[b] = 0]
  BY <1>1, <1>2, <1>3, Zenon DEF PeersTasks
<1>6. CASE b \notin t.blocksRequests[p]
  <2>1. r = s
    BY <1>5, <1>6, Zenon DEF OnBlockReceived
  <2> QED BY <1>4, <2>1, Zenon DEF TaskStep, TasksOK, Known, Asked, UsefulPeers, IsAsked
<1>7. CASE b \in t.blocksRequests[p]
  <2>1. PICK left \in BlocksByPeer : left = [t.blocksRequests EXCEPT ![p] = @ \ {b}]
    BY <1>1, Zenon DEF PeersTasks, BlocksByPeer
  <2>2. PICK failures \in [Peers -> 0..MaxPeerFailures + 1] :
          failures = [t.peerFailures EXCEPT ![p] = IF @ > 0 THEN @ - 1 ELSE 0]
    <3>1. PICK n \in Nat : n = MaxPeerFailures + 1
      BY <1>1, Counters, Zenon
    <3>2. PICK v \in 0..n : v = IF t.peerFailures[p] > 0 THEN t.peerFailures[p] - 1 ELSE 0
      <4>1. t.peerFailures[p] \in 0..n
        BY <1>1, <3>1, Counters, Zenon
      <4> QED BY <4>1
    <3>3. [t.peerFailures EXCEPT ![p] = v] \in [Peers -> 0..MaxPeerFailures + 1]
      BY <1>1, <3>1, <3>2, Counters, CountUpdates, Zenon
    <3> QED BY <3>2, <3>3, Zenon
  <2>3. PICK a : a = [s EXCEPT !.blocksRequests = left, !.trusted = @ \cup {p}, !.peerFailures = failures]
    BY Zenon
  <2>4. s.peerFailures = t.peerFailures
    BY <1>1, <1>3, Zenon DEF PeersTasks
  <2>5. a = [s EXCEPT !.blocksRequests[p] = t.blocksRequests[p] \ {b}, !.trusted = @ \cup {p},
                      !.peerFailures[p] = IF @ > 0 THEN @ - 1 ELSE 0]
    BY <1>4, <2>1, <2>2, <2>3, <2>4, Zenon DEF PeersTasks
  <2>6. /\ a \in PeersTasks /\ a.all = t.all /\ a.unuseful = t.unuseful /\ a.idleHeaders = t.idleHeaders
        /\ a.idleBlocks = t.idleBlocks /\ a.headersRequests = t.headersRequests /\ a.blocksRequests = left
    BY <1>4, <2>3, Zenon DEF PeersTasks
  <2>7. p \in Asked(t)
    BY <1>7, Zenon DEF Asked
  <2>8. /\ left[p] = t.blocksRequests[p] \ {b}
        /\ \A q \in Peers \ {p} : left[q] = t.blocksRequests[q]
    BY <1>1, <2>1, Zenon DEF PeersTasks, BlocksByPeer
  <2>9. \A h \in Blocks : IsAsked(t, h) => h \in {b} \/ \E q \in Peers : h \in left[q]
    BY <2>8, Zenon DEF IsAsked
  <2>10. CASE left[p] # {}
    <3>1. r = a
      BY <1>5, <1>7, <2>5, <2>8, <2>10, Zenon DEF OnBlockReceived
    <3>2. Asked(r) = Asked(t) /\ Known(r) = Known(t) /\ UsefulPeers(r) = UsefulPeers(t)
      BY <2>6, <2>7, <2>8, <2>10, <3>1, Zenon DEF Asked, Known, UsefulPeers
    <3> QED BY <2>6, <2>9, <3>1, <3>2, Zenon DEF TaskStep, TasksOK, IsAsked
  <2>11. CASE left[p] = {}
    <3>1. r = [a EXCEPT !.idleBlocks = @ \cup {p}, !.idleHeaders = @ \cup ({p} \ t.headersRequests)]
      BY <1>5, <1>7, <2>5, <2>8, <2>11, ZenonT(60) DEF OnBlockReceived
    <3>2. /\ r \in PeersTasks /\ r.all = t.all /\ r.unuseful = t.unuseful
          /\ r.idleHeaders \subseteq t.idleHeaders \cup {p}
          /\ r.idleBlocks = t.idleBlocks \cup {p} /\ r.headersRequests = t.headersRequests
          /\ r.blocksRequests = left
      <4>1. PICK ib \in SUBSET Peers : ib = a.idleBlocks \cup {p}
        BY <2>6, Zenon DEF PeersTasks
      <4>2. PICK ih \in SUBSET Peers : ih = a.idleHeaders \cup ({p} \ t.headersRequests)
        BY <2>6, Zenon DEF PeersTasks
      <4>3. r = [a EXCEPT !.idleBlocks = ib, !.idleHeaders = ih]
        BY <3>1, <4>1, <4>2, Zenon
      <4>4. /\ r \in PeersTasks /\ r.all = a.all /\ r.unuseful = a.unuseful /\ r.idleHeaders = ih
            /\ r.idleBlocks = ib /\ r.headersRequests = a.headersRequests /\ r.blocksRequests = a.blocksRequests
        BY <2>6, <4>3, Zenon DEF PeersTasks
      <4> QED BY <2>6, <4>1, <4>2, <4>4, Zenon
    <3>3. Asked(r) = Asked(t) \ {p} /\ Known(r) \subseteq Known(t) \cup {p} /\ UsefulPeers(r) = UsefulPeers(t)
      BY <2>8, <2>11, <3>2, Zenon DEF Asked, Known, UsefulPeers
    <3> QED BY <2>7, <2>9, <3>2, <3>3, Zenon DEF TaskStep, TasksOK, IsAsked
  <2> QED BY <2>10, <2>11, Zenon
<1> QED BY <1>6, <1>7, Zenon

\* on_headers_received.
LEMMA HeadersAreReceived ==
    ASSUME NEW t, TasksOK(t), NEW p \in Peers, NEW r, r = OnHeadersReceived(t, p)
    PROVE  TaskStep(t, r, {p}, {})
<1>1. PICK idle \in SUBSET Peers : idle = IF p \in Asked(t) THEN t.idleHeaders ELSE t.idleHeaders \cup {p}
  BY Zenon DEF TasksOK, PeersTasks
<1>2. r = [t EXCEPT !.headersRequests = @ \ {p}, !.idleHeaders = idle]
  BY <1>1, Zenon DEF OnHeadersReceived, TasksOK, PeersTasks
<1>3. /\ r \in PeersTasks /\ r.all = t.all /\ r.unuseful = t.unuseful /\ r.idleHeaders = idle
      /\ r.idleBlocks = t.idleBlocks /\ r.headersRequests = t.headersRequests \ {p}
      /\ r.blocksRequests = t.blocksRequests
  BY <1>2, Zenon DEF TasksOK, PeersTasks
<1>4. Known(r) \subseteq Known(t) \cup {p} /\ UsefulPeers(r) = UsefulPeers(t)
  BY <1>1, <1>3, Zenon DEF Known, UsefulPeers
<1> QED BY <1>3, <1>4, SameRequests, Zenon DEF TasksOK

\* on_blocks_requested, of useful peers.
LEMMA BlocksAreRequested ==
    ASSUME NEW t, TasksOK(t), NEW request \in BlocksByPeer,
           \A p \in Peers : request[p] # {} => p \in UsefulPeers(t),
           NEW r, r = OnBlocksRequested(t, request)
    PROVE  /\ TaskStep(t, r, {}, {}) /\ UsefulPeers(r) = UsefulPeers(t)
           /\ \A p \in Peers : \A h \in request[p] : IsAsked(r, h)
<1>1. t \in PeersTasks /\ UsefulPeers(t) \subseteq t.all
  BY Zenon DEF TasksOK, UsefulPeers
<1>2. PICK ps \in SUBSET Peers : ps = {p \in Peers : request[p] # {}}
  BY Zenon
<1>3. ps \subseteq UsefulPeers(t) /\ ps \ t.all = {}
  BY <1>1, <1>2, Zenon
<1>4. PICK s : s = UnusefulPeers(t, {})
  BY Zenon
<1>5. /\ s \in PeersTasks /\ s.all = t.all /\ s.unuseful = t.unuseful
      /\ s.idleHeaders = t.idleHeaders /\ s.idleBlocks = t.idleBlocks
      /\ s.headersRequests = t.headersRequests /\ s.blocksRequests = t.blocksRequests
  <2>1. s = [t EXCEPT !.all = t.all, !.unuseful = t.unuseful,
                      !.idleHeaders = t.idleHeaders, !.idleBlocks = t.idleBlocks]
    BY <1>4, Zenon DEF UnusefulPeers
  <2> QED BY <1>1, <2>1, Zenon DEF PeersTasks
<1>6. PICK more \in BlocksByPeer : more = [p \in Peers |-> t.blocksRequests[p] \cup request[p]]
  BY <1>1, Zenon DEF PeersTasks, BlocksByPeer
<1>7. r = [s EXCEPT !.unuseful = @ \ ps, !.idleBlocks = @ \ ps, !.blocksRequests = more]
  <2>1. r = [UnusefulPeers(t, ps \ t.all) EXCEPT !.unuseful = @ \ ps, !.idleBlocks = @ \ ps,
                      !.blocksRequests = [p \in Peers |-> @[p] \cup request[p]]]
    BY <1>2, Zenon DEF OnBlocksRequested
  <2>2. r = [s EXCEPT !.unuseful = @ \ ps, !.idleBlocks = @ \ ps,
                      !.blocksRequests = [p \in Peers |-> @[p] \cup request[p]]]
    BY <1>3, <1>4, <2>1, Zenon
  <2> QED BY <1>5, <1>6, <2>2, Zenon
<1>8. /\ r \in PeersTasks /\ r.all = t.all /\ r.unuseful = t.unuseful \ ps
      /\ r.idleHeaders = t.idleHeaders /\ r.idleBlocks = t.idleBlocks \ ps
      /\ r.headersRequests = t.headersRequests /\ r.blocksRequests = more
  BY <1>5, <1>7, ZenonT(60) DEF PeersTasks
<1>9. UsefulPeers(r) = UsefulPeers(t) /\ Known(r) = Known(t)
  BY <1>3, <1>8, Zenon DEF UsefulPeers, Known
<1>10. Asked(r) = Asked(t) \cup ps
  BY <1>2, <1>6, <1>8 DEF Asked
<1>11. TasksOK(r)
  BY <1>3, <1>8, <1>9, <1>10, Zenon DEF TasksOK
<1>12. \A p \in Peers : r.blocksRequests[p] = t.blocksRequests[p] \cup request[p]
  BY <1>6, <1>8, Zenon
<1> QED BY <1>9, <1>11, <1>12, Zenon DEF TaskStep, IsAsked

\* on_headers_requested of peers that need not be known.
LEMMA HeadersAreRequested ==
    ASSUME NEW t, TasksOK(t), NEW ps \in SUBSET Peers, NEW r, r = OnHeadersRequested(t, ps)
    PROVE  TaskStep(t, r, ps, {}) /\ UsefulPeers(r) = UsefulPeers(t)
<1>1. PICK new \in SUBSET Peers : new = ps \ t.all
  BY Zenon
<1>2. PICK s : s = UnusefulPeers(t, new)
  BY Zenon
<1>3. new \cap UsefulPeers(t) = {} /\ new \cap Asked(t) = {}
  BY <1>1, Zenon DEF TasksOK, UsefulPeers
<1>4. TaskStep(t, s, new, {}) /\ UsefulPeers(s) = UsefulPeers(t)
  BY <1>2, <1>3, PeersAreUnuseful, Zenon
<1>5. r = [s EXCEPT !.idleHeaders = @ \ ps, !.headersRequests = @ \cup ps]
  BY <1>1, <1>2, Zenon DEF OnHeadersRequested
<1>6. /\ r \in PeersTasks /\ r.all = s.all /\ r.unuseful = s.unuseful
      /\ r.idleHeaders = s.idleHeaders \ ps /\ r.idleBlocks = s.idleBlocks
      /\ r.headersRequests = s.headersRequests \cup ps /\ r.blocksRequests = s.blocksRequests
  BY <1>4, <1>5, ZenonT(60) DEF TaskStep, TasksOK, PeersTasks
<1>7. UsefulPeers(r) = UsefulPeers(t) /\ Known(r) \subseteq Known(t) \cup ps
  BY <1>1, <1>4, <1>6, Zenon DEF UsefulPeers, Known, TaskStep
<1>8. Asked(r) = Asked(s)
  BY <1>6, Zenon DEF Asked
<1>9. TasksOK(r)
  BY <1>4, <1>6, <1>7, <1>8, Zenon DEF TaskStep, TasksOK
<1>10. \A h : IsAsked(r, h) <=> IsAsked(s, h)
  BY <1>6, Zenon DEF IsAsked
<1> QED BY <1>4, <1>7, <1>9, <1>10, Zenon DEF TaskStep

\* penalize counts failures and does nothing else.
LEMMA PeersArePenalized ==
    ASSUME NEW t, TasksOK(t), NEW ps \in SUBSET Peers, NEW r, r = Penalize(t, ps)
    PROVE  TaskStep(t, r, {}, {}) /\ Asked(r) = Asked(t) /\ UsefulPeers(r) = UsefulPeers(t)
<1>1. t \in PeersTasks
  BY Zenon DEF TasksOK
<1> DEFINE Count(p) == IF p \notin t.trusted THEN MaxPeerFailures
                       ELSE IF t.peerFailures[p] <= MaxPeerFailures THEN t.peerFailures[p] + 1
                       ELSE t.peerFailures[p]
<1>2. ASSUME NEW p \in Peers PROVE Count(p) \in 0..MaxPeerFailures + 1 /\ t.peerFailures[p] \in 0..MaxPeerFailures + 1
  <2>1. MaxPeerFailures \in Nat
    BY PeersAssumption, Zenon
  <2>2. t.peerFailures[p] \in 0..MaxPeerFailures + 1
    BY <1>1, <1>2, Counters, Zenon
  <2> QED BY <2>1, <2>2
<1>3. PICK failures \in [Peers -> 0..MaxPeerFailures + 1] :
        failures = [p \in Peers |-> IF p \in ps \cap t.all THEN Count(p) ELSE t.peerFailures[p]]
  <2> HIDE DEF Count
  <2> QED BY <1>2, Zenon
<1>4. r = [t EXCEPT !.peerFailures = failures]
  BY <1>1, <1>3, Zenon DEF Penalize, PeersTasks
<1>5. /\ r \in PeersTasks /\ r.all = t.all /\ r.unuseful = t.unuseful
      /\ r.idleHeaders = t.idleHeaders /\ r.idleBlocks = t.idleBlocks
      /\ r.headersRequests = t.headersRequests /\ r.blocksRequests = t.blocksRequests
  BY <1>1, <1>4, Zenon DEF PeersTasks
<1>6. UsefulPeers(r) = UsefulPeers(t) /\ Known(r) = Known(t) /\ Asked(r) = Asked(t)
  BY <1>5, Zenon DEF UsefulPeers, Known, Asked
<1> QED BY <1>5, <1>6, SameRequests, Zenon DEF TasksOK

\* on_peer_headers_failure.
LEMMA HeadersAreLate ==
    ASSUME NEW t, TasksOK(t), NEW ps \in SUBSET t.headersRequests, NEW r, r = OnPeerHeadersFailure(t, ps)
    PROVE  TaskStep(t, r, {}, {})
<1>1. t \in PeersTasks
  BY Zenon DEF TasksOK
<1>2. r = [t EXCEPT !.headersRequests = @ \ ps, !.idleHeaders = @ \cup ps]
  BY Zenon DEF OnPeerHeadersFailure
<1>3. /\ r \in PeersTasks /\ r.all = t.all /\ r.unuseful = t.unuseful
      /\ r.idleHeaders = t.idleHeaders \cup ps /\ r.idleBlocks = t.idleBlocks
      /\ r.headersRequests = t.headersRequests \ ps /\ r.blocksRequests = t.blocksRequests
  BY <1>1, <1>2, Zenon DEF PeersTasks
<1>4. UsefulPeers(r) = UsefulPeers(t) /\ Known(r) \subseteq Known(t)
  BY <1>3, Zenon DEF UsefulPeers, Known
<1> QED BY <1>3, <1>4, SameRequests, Zenon DEF TasksOK

\* reset: all peers are unuseful, nothing is asked for.
LEMMA TasksAreReset ==
    ASSUME NEW t, TasksOK(t), NEW r, r = ResetTasks(t)
    PROVE  TaskStep(t, r, {}, Blocks)
<1>1. t \in PeersTasks
  BY Zenon DEF TasksOK
<1>2. PICK none \in BlocksByPeer : none = [p \in Peers |-> {}]
  BY Zenon DEF BlocksByPeer
<1>3. r = [t EXCEPT !.unuseful = t.all, !.idleHeaders = {}, !.idleBlocks = {},
                    !.headersRequests = {}, !.blocksRequests = none]
  BY <1>2, Zenon DEF ResetTasks
<1>4. /\ r \in PeersTasks /\ r.all = t.all /\ r.unuseful = t.all /\ r.idleHeaders = {} /\ r.idleBlocks = {}
      /\ r.headersRequests = {} /\ r.blocksRequests = none
  BY <1>1, <1>3, ZenonT(60) DEF PeersTasks
<1>5. Asked(r) = {} /\ Known(r) \subseteq Known(t)
  BY <1>2, <1>4, Zenon DEF Asked, Known
<1> QED BY <1>4, <1>5, Zenon DEF TaskStep, TasksOK

\* reset_blocks_tasks of peers that are asked for blocks.
LEMMA BlocksTasksAreReset ==
    ASSUME NEW t, TasksOK(t), NEW ps \in SUBSET Asked(t), NEW r, r = ResetBlocksTasks(t, ps)
    PROVE  TaskStep(t, r, {}, BlocksIn(EntriesOf(t, ps))) /\ Asked(r) = Asked(t) \ ps /\ Known(r) = Known(t)
<1>1. t \in PeersTasks /\ ps \subseteq UsefulPeers(t) /\ ps \subseteq Peers
  BY Zenon DEF TasksOK, Asked
<1>2. PICK left \in BlocksByPeer : left = [p \in Peers |-> IF p \in ps THEN {} ELSE t.blocksRequests[p]]
  BY <1>1, Zenon DEF PeersTasks, BlocksByPeer
<1>3. r = [t EXCEPT !.idleBlocks = @ \cup ps, !.blocksRequests = left]
  BY <1>1, <1>2, Zenon DEF ResetBlocksTasks, PeersTasks
<1>4. /\ r \in PeersTasks /\ r.all = t.all /\ r.unuseful = t.unuseful
      /\ r.idleHeaders = t.idleHeaders /\ r.idleBlocks = t.idleBlocks \cup ps
      /\ r.headersRequests = t.headersRequests /\ r.blocksRequests = left
  BY <1>1, <1>3, Zenon DEF PeersTasks
<1>5. UsefulPeers(r) = UsefulPeers(t) /\ Known(r) = Known(t)
  BY <1>4, Zenon DEF UsefulPeers, Known
<1>6. Asked(r) = Asked(t) \ ps
  BY <1>2, <1>4, ZenonT(60) DEF Asked
<1>7. TasksOK(r)
  BY <1>1, <1>4, <1>5, <1>6, Zenon DEF TasksOK
<1>8. ASSUME NEW h \in Blocks, IsAsked(t, h), ~IsAsked(r, h) PROVE h \in BlocksIn(EntriesOf(t, ps))
  <2>1. PICK p \in Peers : h \in t.blocksRequests[p]
    BY <1>8, Zenon DEF IsAsked
  <2>2. p \in ps
    BY <1>2, <1>4, <1>8, <2>1 DEF IsAsked
  <2>3. <<h, p>> \in EntriesOf(t, ps)
    BY <2>1, <2>2, Zenon DEF EntriesOf
  <2> QED BY <2>3 DEF BlocksIn
<1> QED BY <1>5, <1>6, <1>7, <1>8, Zenon DEF TaskStep

\* on_block_failure counts.
LEMMA FailuresAreCounted ==
    ASSUME NEW t, TasksOK(t), NEW f \in [Blocks -> 0..MaxBlocksFailures], NEW r, r = [t EXCEPT !.blockFailures = f]
    PROVE  TaskStep(t, r, {}, {})
<1>1. t \in PeersTasks
  BY Zenon DEF TasksOK
<1>2. /\ r \in PeersTasks /\ r.all = t.all /\ r.unuseful = t.unuseful
      /\ r.idleHeaders = t.idleHeaders /\ r.idleBlocks = t.idleBlocks
      /\ r.headersRequests = t.headersRequests /\ r.blocksRequests = t.blocksRequests
  BY <1>1, Zenon DEF PeersTasks
<1>3. UsefulPeers(r) = UsefulPeers(t) /\ Known(r) = Known(t)
  BY <1>2, Zenon DEF UsefulPeers, Known
<1> QED BY <1>2, <1>3, SameRequests, Zenon DEF TasksOK

-----------------------------------------------------------------------------
(* execute_synchronization_tasks.                                          *)

CoreOK(c) ==
    /\ c = Core(c.chain, c.pool, c.tasks, c.state)
    /\ ChainOK(c.chain, c.pool) /\ StateOK(c.chain, c.state) /\ TasksOK(c.tasks)

\* A requested block is in the pool, asked for, or about to be asked for again.
Tracked(c, hs) == \A h \in c.chain.requested : h \in c.pool.blocks \/ IsAsked(c.tasks, h) \/ h \in hs

\* What execute_synchronization_tasks leaves alone.
SameBlocks(c, d) ==
    /\ d.chain.verifying = c.chain.verifying /\ d.chain.stored = c.chain.stored /\ d.chain.dead = c.chain.dead
    /\ Known(d.tasks) \subseteq Known(c.tasks)

TracksToo(c, d) == \A hs : Tracked(c, hs) => Tracked(d, hs)

\* The state of the core stays right when the queues only shrink.
LEMMA StateKept ==
    ASSUME Library, NEW ch \in Chain, NEW st, StateOK(ch, st), NEW r \in Chain, Pending(r) \subseteq Pending(ch)
    PROVE  StateOK(r, st)
<1>1. IsFiniteSet(Pending(ch))
  BY SyncAssumption, Subsets, Zenon DEF Chain, Pending
<1>2. Cardinality(Pending(r)) <= Cardinality(Pending(ch)) /\ IsFiniteSet(Pending(r))
  BY <1>1, Subsets, Zenon
<1>3. Cardinality(Pending(ch)) \in Nat /\ Cardinality(Pending(r)) \in Nat
  BY <1>1, <1>2, Sizes, Zenon
<1> QED BY <1>2, <1>3 DEF StateOK

\* The record of the core.
LEMMA CoreFields ==
    ASSUME NEW ch, NEW po, NEW ta, NEW st, NEW c, c = Core(ch, po, ta, st)
    PROVE  /\ c.chain = ch /\ c.pool = po /\ c.tasks = ta /\ c.state = st
           /\ c = Core(c.chain, c.pool, c.tasks, c.state)
BY Zenon DEF Core

\* New tasks in the core.
LEMMA CoreTasks ==
    ASSUME NEW c, CoreOK(c), NEW t, NEW heard \in SUBSET Known(c.tasks), TaskStep(c.tasks, t, heard, {}),
           NEW d, d = Core(c.chain, c.pool, t, c.state)
    PROVE  /\ CoreOK(d) /\ SameBlocks(c, d) /\ d.chain = c.chain /\ d.pool = c.pool /\ d.tasks = t
           /\ TracksToo(c, d)
<1>2. /\ d.chain = c.chain /\ d.pool = c.pool /\ d.tasks = t /\ d.state = c.state
      /\ d = Core(d.chain, d.pool, d.tasks, d.state)
  BY CoreFields
<1>3. CoreOK(d)
  BY <1>2, Zenon DEF CoreOK, TaskStep
<1>4. SameBlocks(c, d)
  BY <1>2, Zenon DEF SameBlocks, TaskStep
<1>5. c.chain.requested \subseteq Blocks
  BY Zenon DEF CoreOK, ChainOK, Chain
<1>6. \A h \in Blocks : IsAsked(c.tasks, h) => IsAsked(t, h)
  BY Zenon DEF TaskStep
<1>7. TracksToo(c, d)
  BY <1>2, <1>5, <1>6, Zenon DEF Tracked, TracksToo
<1> QED BY <1>2, <1>3, <1>4, <1>7, Zenon

\* switch_to_saturated_state.
LEMMA Saturates ==
    ASSUME NEW c, CoreOK(c), NEW d, d = SwitchToSaturatedState(c)
    PROVE  CoreOK(d) /\ SameBlocks(c, d) /\ Tracked(d, {})
<1>1. CASE c.state = "Saturated"
  <2>1. d = c
    BY <1>1, Zenon DEF SwitchToSaturatedState
  <2>2. c.chain.requested = {}
    BY <1>1, Zenon DEF CoreOK, StateOK, Pending
  <2> QED BY <2>1, <2>2, Zenon DEF SameBlocks, Tracked
<1>2. CASE c.state # "Saturated"
  <2>1. PICK x : x = ForgetBlocks(c.chain, KnownBlocks(c.pool))
    BY Zenon
  <2>2. ChainOK(c.chain, c.pool) /\ TasksOK(c.tasks)
    BY Zenon DEF CoreOK
  <2>3. KnownBlocks(c.pool) \subseteq c.pool.blocks
    BY Zenon DEF KnownBlocks
  <2>4. ChainOK(x, c.pool) /\ Forgets(c.chain, KnownBlocks(c.pool), x)
    BY <2>1, <2>2, ForgetsBlocks, Zenon
  <2>5. x.verifying = c.chain.verifying /\ x.stored = c.chain.stored /\ x.dead = c.chain.dead
    <3>1. c.chain.verifying \cap c.pool.blocks = {}
      BY <2>2, Zenon DEF ChainOK, OrphansOK
    <3> QED BY <2>3, <2>4, <3>1, Zenon DEF Forgets
  <2>6. PICK y : y = ForgetPendingBlocks(x)
    BY Zenon
  <2>7. /\ ChainOK(y, c.pool) /\ Pending(y) = {} /\ y.requested = {} /\ y.verifying = x.verifying
        /\ y.stored = x.stored /\ y.dead = x.dead
    BY <2>4, <2>6, ForgetsPending, Zenon
  <2>8. PICK po : po = RemoveBlocks(c.pool, KnownBlocks(c.pool))
    BY Zenon
  <2>9. ChainOK(y, po)
    <3>1. po \in OrphanPool /\ po.blocks \subseteq c.pool.blocks
      BY <2>2, <2>8, PoolRemoves DEF ChainOK
    <3> QED BY <2>7, <3>1, PoolShrinks, Zenon
  <2>10. PICK t : t = ResetTasks(c.tasks)
    BY Zenon
  <2>11. TasksOK(t) /\ Known(t) \subseteq Known(c.tasks)
    BY <2>2, <2>10, TasksAreReset, Zenon DEF TaskStep
  <2>12. d = Core(y, po, t, "Saturated")
    BY <1>2, <2>1, <2>6, <2>8, <2>10, Zenon DEF SwitchToSaturatedState
  <2>13. /\ d.chain = y /\ d.pool = po /\ d.tasks = t /\ d.state = "Saturated"
         /\ d = Core(d.chain, d.pool, d.tasks, d.state)
    BY <2>12, CoreFields
  <2>14. StateOK(y, "Saturated")
    BY <2>7, Zenon DEF StateOK
  <2>15. CoreOK(d)
    BY <2>9, <2>11, <2>13, <2>14, Zenon DEF CoreOK
  <2> QED BY <2>5, <2>7, <2>11, <2>13, <2>15, Zenon DEF SameBlocks, Tracked
<1> QED BY <1>1, <1>2, Zenon

\* prepare_blocks_requests_tasks: every block of the list is asked of a peer.
LEMMA AsksFor ==
    ASSUME NEW c, CoreOK(c), NEW ps \in SUBSET UsefulPeers(c.tasks), NEW entries, BlocksIn(entries) \subseteq Blocks,
           NEW d \in AskFor(c, ps, entries)
    PROVE  /\ CoreOK(d) /\ SameBlocks(c, d) /\ d.chain = c.chain /\ UsefulPeers(d.tasks) = UsefulPeers(c.tasks)
           /\ \A hs : Tracked(c, hs \cup BlocksIn(entries)) => Tracked(d, hs)
<1>1. PICK request \in Requests(ps, entries) : d = [c EXCEPT !.tasks = OnBlocksRequested(@, request)]
  BY Zenon DEF AskFor
<1> DEFINE Share(assigned, p) == {e \in entries : assigned[e] = p}
<1>2. PICK assigned \in [entries -> ps] : request = [p \in Peers |-> BlocksIn(Share(assigned, p))]
  BY <1>1, Zenon DEF Requests
<1>3. ps \subseteq Peers
  BY Zenon DEF CoreOK, TasksOK, PeersTasks, UsefulPeers
<1>4. request \in BlocksByPeer
  BY <1>2, Zenon DEF BlocksByPeer, BlocksIn
<1>5. \A p \in Peers : request[p] # {} => p \in UsefulPeers(c.tasks)
  BY <1>2, Zenon DEF BlocksIn
<1>6. \A h \in BlocksIn(entries) : \E p \in Peers : h \in request[p]
  BY <1>2, <1>3, Zenon DEF BlocksIn
<1> HIDE DEF Share
<1>7. PICK t : t = OnBlocksRequested(c.tasks, request)
  BY Zenon
<1>8. TasksOK(c.tasks) /\ d = Core(c.chain, c.pool, t, c.state)
  BY <1>1, <1>7, Zenon DEF CoreOK, Core
<1>9. /\ TaskStep(c.tasks, t, {}, {}) /\ UsefulPeers(t) = UsefulPeers(c.tasks)
      /\ \A p \in Peers : \A h \in request[p] : IsAsked(t, h)
  BY <1>4, <1>5, <1>7, <1>8, BlocksAreRequested, Zenon
<1>10. /\ CoreOK(d) /\ SameBlocks(c, d) /\ d.chain = c.chain /\ d.pool = c.pool /\ d.tasks = t
       /\ TracksToo(c, d)
  <2>1. PICK heard \in SUBSET Known(c.tasks) : TaskStep(c.tasks, t, heard, {})
    BY <1>9, Zenon
  <2> QED BY <1>8, <2>1, CoreTasks, SMTT(60)
<1>11. \A h \in BlocksIn(entries) : IsAsked(d.tasks, h)
  BY <1>6, <1>9, <1>10, Zenon
<1>12. ASSUME NEW hs, Tracked(c, hs \cup BlocksIn(entries)) PROVE Tracked(d, hs)
  <2>1. Tracked(d, hs \cup BlocksIn(entries))
    BY <1>10, <1>12, Zenon DEF TracksToo
  <2> QED BY <1>11, <2>1, Zenon DEF Tracked
<1> QED BY <1>9, <1>10, <1>12, Zenon

\* The forced and the final requests.
LEMMA AsksUsefulPeers ==
    ASSUME NEW c, CoreOK(c), NEW option, BlocksIn(UNION option) \subseteq Blocks,
           NEW d \in AskUsefulPeers(c, option)
    PROVE  /\ CoreOK(d) /\ SameBlocks(c, d) /\ d.chain = c.chain /\ UsefulPeers(d.tasks) = UsefulPeers(c.tasks)
           /\ \A hs : Tracked(c, hs) => Tracked(d, hs)
           /\ UsefulPeers(c.tasks) # {} => (Tracked(c, BlocksIn(UNION option)) => Tracked(d, {}))
<1>1. CASE option = {} \/ UsefulPeers(c.tasks) = {}
  <2>1. d = c
    BY <1>1, Zenon DEF AskUsefulPeers
  <2>2. option = {} => BlocksIn(UNION option) = {}
    BY Zenon DEF BlocksIn
  <2> QED BY <1>1, <2>1, <2>2, Zenon DEF SameBlocks
<1>2. CASE ~(option = {} \/ UsefulPeers(c.tasks) = {})
  <2>1. d \in AskFor(c, UsefulPeers(c.tasks), UNION option)
    BY <1>2, Zenon DEF AskUsefulPeers
  <2>2. /\ CoreOK(d) /\ SameBlocks(c, d) /\ d.chain = c.chain /\ UsefulPeers(d.tasks) = UsefulPeers(c.tasks)
        /\ \A hs : Tracked(c, hs \cup BlocksIn(UNION option)) => Tracked(d, hs)
    BY <2>1, AsksFor, Zenon
  <2>3. ASSUME NEW hs, Tracked(c, hs) PROVE Tracked(d, hs)
    <3>1. Tracked(c, hs \cup BlocksIn(UNION option))
      BY <2>3, Zenon DEF Tracked
    <3> QED BY <2>2, <3>1, Zenon
  <2>4. ASSUME Tracked(c, BlocksIn(UNION option)) PROVE Tracked(d, {})
    <3>1. Tracked(c, {} \cup BlocksIn(UNION option))
      BY <2>4, Zenon DEF Tracked
    <3> QED BY <2>2, <3>1, Zenon
  <2> QED BY <2>2, <2>3, <2>4, Zenon
<1> QED BY <1>1, <1>2, Zenon

\* Idle peers are asked for headers.
LEMMA AsksForHeaders ==
    ASSUME NEW c, CoreOK(c), NEW d, d = AskForHeaders(c)
    PROVE  /\ CoreOK(d) /\ SameBlocks(c, d) /\ d.chain = c.chain /\ UsefulPeers(d.tasks) = UsefulPeers(c.tasks)
           /\ Tracked(c, {}) => Tracked(d, {})
<1>1. CASE d = c
  BY <1>1, Zenon DEF SameBlocks
<1>2. CASE d # c
  <2>1. PICK t : t = OnHeadersRequested(c.tasks, c.tasks.idleHeaders)
    BY Zenon
  <2>2. d = Core(c.chain, c.pool, t, c.state)
    BY <1>2, <2>1, Zenon DEF AskForHeaders, CoreOK, Core
  <2>3. TasksOK(c.tasks) /\ c.tasks.idleHeaders \in SUBSET Peers /\ c.tasks.idleHeaders \in SUBSET Known(c.tasks)
    BY Zenon DEF CoreOK, TasksOK, PeersTasks, Known
  <2>4. TaskStep(c.tasks, t, c.tasks.idleHeaders, {}) /\ UsefulPeers(t) = UsefulPeers(c.tasks)
    BY <2>1, <2>3, HeadersAreRequested, Zenon
  <2>5. CoreOK(d) /\ SameBlocks(c, d) /\ d.chain = c.chain /\ d.tasks = t /\ TracksToo(c, d)
    BY <2>2, <2>3, <2>4, CoreTasks
  <2> QED BY <2>4, <2>5, Zenon DEF TracksToo
<1> QED BY <1>1, <1>2, Zenon

\* Idle peers are asked for scheduled blocks, and perhaps for requested ones again.
LEMMA AsksForBlocks ==
    ASSUME NEW c, CoreOK(c), NEW idle \in SUBSET UsefulPeers(c.tasks), NEW verifying,
           NEW d \in AskForBlocks(c, idle, verifying)
    PROVE  CoreOK(d) /\ SameBlocks(c, d) /\ (Tracked(c, {}) => Tracked(d, {}))
<1>1. CASE idle = {}
  BY <1>1 DEF AskForBlocks, SameBlocks
<1>2. CASE idle # {}
  <2>1. PICK hs \in NextRequested(c, Cardinality(idle), verifying), copies \in Duplicates(c) :
          d \in AskFor([c EXCEPT !.chain = RequestBlocksHashes(@, hs)], idle, NewEntries(hs \cup copies))
    <3> DEFINE Ask(hs, copies) ==
                 AskFor([c EXCEPT !.chain = RequestBlocksHashes(@, hs)], idle, NewEntries(hs \cup copies))
               next == NextRequested(c, Cardinality(idle), verifying)
    <3>1. d \in UNION {Ask(hs, copies) : hs \in next, copies \in Duplicates(c)}
      BY <1>2 DEF AskForBlocks
    <3> HIDE DEF Ask, next
    <3>2. PICK hs \in next, copies \in Duplicates(c) : d \in Ask(hs, copies)
      BY <3>1
    <3> QED BY <3>2, Zenon DEF Ask, next
  <2>2. hs \in SUBSET c.chain.scheduled
    BY <2>1, Zenon DEF NextRequested
  <2>3. copies \subseteq c.chain.requested
    BY <2>1, Zenon DEF Duplicates
  <2>4. ChainOK(c.chain, c.pool) /\ StateOK(c.chain, c.state) /\ TasksOK(c.tasks)
    BY Zenon DEF CoreOK
  <2>5. PICK x : x = RequestBlocksHashes(c.chain, hs)
    BY Zenon
  <2>6. /\ ChainOK(x, c.pool) /\ Pending(x) = Pending(c.chain) /\ x.requested = c.chain.requested \cup hs
        /\ x.verifying = c.chain.verifying /\ x.stored = c.chain.stored /\ x.dead = c.chain.dead
    BY <2>2, <2>4, <2>5, RequestsBlocks
  <2>7. PICK e : e = [c EXCEPT !.chain = RequestBlocksHashes(@, hs)]
    BY Zenon
  <2>8. e = Core(x, c.pool, c.tasks, c.state)
    BY <2>5, <2>7, Zenon DEF CoreOK, Core
  <2>9. /\ e.chain = x /\ e.pool = c.pool /\ e.tasks = c.tasks /\ e.state = c.state
        /\ e = Core(e.chain, e.pool, e.tasks, e.state)
    BY <2>8, CoreFields
  <2>10. StateOK(x, c.state)
    BY <2>4, <2>6, Zenon DEF StateOK
  <2>11. CoreOK(e)
    BY <2>4, <2>6, <2>9, <2>10, Zenon DEF CoreOK
  <2>12. BlocksIn(NewEntries(hs \cup copies)) = hs \cup copies
    <3>1. \A h \in hs \cup copies : <<h, NoPeer>> \in NewEntries(hs \cup copies)
      BY Zenon DEF NewEntries
    <3>2. \A f \in NewEntries(hs \cup copies) : f[1] \in hs \cup copies
      BY Zenon DEF NewEntries
    <3>3. \A h \in hs \cup copies : \E f \in NewEntries(hs \cup copies) : h = f[1]
      BY <3>1, Zenon
    <3> QED BY <3>2, <3>3, Zenon DEF BlocksIn
  <2>13. hs \cup copies \subseteq Blocks
    BY <2>2, <2>3, <2>4, Zenon DEF ChainOK, Chain
  <2>14. /\ CoreOK(d) /\ SameBlocks(e, d)
         /\ \A gs : Tracked(e, gs \cup BlocksIn(NewEntries(hs \cup copies))) => Tracked(d, gs)
    <3>1. PICK entries : entries = NewEntries(hs \cup copies)
      BY Zenon
    <3>2. BlocksIn(entries) \subseteq Blocks /\ d \in AskFor(e, idle, entries) /\ idle \in SUBSET UsefulPeers(e.tasks)
      BY <2>1, <2>7, <2>9, <2>12, <2>13, <3>1, Zenon
    <3> QED BY <2>11, <3>1, <3>2, AsksFor, Zenon
  <2>15. SameBlocks(c, d)
    BY <2>6, <2>9, <2>14, Zenon DEF SameBlocks
  <2>16. ASSUME Tracked(c, {}) PROVE Tracked(d, {})
    <3>1. Tracked(e, {} \cup BlocksIn(NewEntries(hs \cup copies)))
      BY <2>6, <2>9, <2>12, <2>16, Zenon DEF Tracked
    <3> QED BY <2>14, <3>1, Zenon
  <2> QED BY <2>14, <2>15, <2>16, Zenon
<1> QED BY <1>1, <1>2, Zenon

\* execute_synchronization_tasks keeps the core right, whatever it asks for and
\* of whom; the blocks taken back from a peer are asked for again or given up.
LEMMA Executes ==
    ASSUME NEW c, CoreOK(c), NEW forced, BlocksIn(UNION forced) \subseteq Blocks,
           NEW final, BlocksIn(UNION final) \subseteq Blocks,
           NEW d \in ExecuteSynchronizationTasks(c, forced, final)
    PROVE  CoreOK(d) /\ SameBlocks(c, d) /\ (Tracked(c, BlocksIn(UNION forced)) => Tracked(d, {}))
<1>1. CASE forced # {} /\ UsefulPeers(c.tasks) = {}
  <2>1. d = SwitchToSaturatedState(c)
    BY <1>1, Zenon DEF ExecuteSynchronizationTasks
  <2> QED BY <2>1, Saturates, Zenon
<1>2. CASE ~(forced # {} /\ UsefulPeers(c.tasks) = {})
  <2>0. PICK x \in AskUsefulPeers(c, forced) : \E y \in AskUsefulPeers(x, final) :
          d \in AskForBlocks(AskForHeaders(y), y.tasks.idleBlocks, Cardinality(c.chain.verifying))
    BY <1>2, Zenon DEF ExecuteSynchronizationTasks
  <2>1. PICK y \in AskUsefulPeers(x, final) :
          d \in AskForBlocks(AskForHeaders(y), y.tasks.idleBlocks, Cardinality(c.chain.verifying))
    BY <2>0, Zenon
  <2>2. /\ CoreOK(x) /\ SameBlocks(c, x) /\ UsefulPeers(x.tasks) = UsefulPeers(c.tasks)
        /\ \A hs : Tracked(c, hs) => Tracked(x, hs)
        /\ UsefulPeers(c.tasks) # {} => (Tracked(c, BlocksIn(UNION forced)) => Tracked(x, {}))
    BY <2>0, AsksUsefulPeers, Zenon
  <2>3. ASSUME Tracked(c, BlocksIn(UNION forced)) PROVE Tracked(x, {})
    <3>1. CASE forced = {}
      <4>1. BlocksIn(UNION forced) = {}
        BY <3>1, Zenon DEF BlocksIn
      <4> QED BY <2>2, <2>3, <4>1, Zenon
    <3>2. CASE forced # {}
      BY <1>2, <2>2, <2>3, <3>2, Zenon
    <3> QED BY <3>1, <3>2, Zenon
  <2>4. CoreOK(y) /\ SameBlocks(x, y) /\ (Tracked(x, {}) => Tracked(y, {}))
    BY <2>1, <2>2, AsksUsefulPeers, Zenon
  <2>5. PICK z : z = AskForHeaders(y)
    BY Zenon
  <2>6. /\ CoreOK(z) /\ SameBlocks(y, z) /\ UsefulPeers(z.tasks) = UsefulPeers(y.tasks)
        /\ Tracked(y, {}) => Tracked(z, {})
    BY <2>4, <2>5, AsksForHeaders, Zenon
  <2>7. y.tasks.idleBlocks \in SUBSET UsefulPeers(z.tasks)
    BY <2>4, <2>6, Zenon DEF CoreOK, TasksOK
  <2>8. CoreOK(d) /\ SameBlocks(z, d) /\ (Tracked(z, {}) => Tracked(d, {}))
    BY <2>1, <2>5, <2>6, <2>7, AsksForBlocks, ZenonT(60)
  <2>9. SameBlocks(c, d)
    BY <2>2, <2>4, <2>6, <2>8, Zenon DEF SameBlocks
  <2> QED BY <2>3, <2>4, <2>6, <2>8, <2>9, Zenon
<1> QED BY <1>1, <1>2, Zenon
=============================================================================
