--------------------------- MODULE NodeTableProofs ---------------------------
(***************************************************************************)
(* The node table keeps its three indexes in step, lists nodes in order    *)
(* and survives its file, for tables of any size.                          *)
(***************************************************************************)
EXTENDS NodeTable, FiniteSetTheorems, TLAPS

-----------------------------------------------------------------------------
(* Induction on the natural numbers, for the folds of the table.           *)

\* The order of the naturals is well-founded.
LEMMA NaturalOrder ==
  \E R : IsWellFoundedOn(R, Nat) /\ \A m, n \in Nat : m < n => <<m, n>> \in R
<1>1. \A m, n \in Nat : m < n => <<m, n>> \in OpToRel(<, Nat)
  BY Zenon DEF OpToRel
<1> QED BY <1>1, NatLessThanWellFounded, Zenon

\* Induction over the naturals, with a set in the place of a predicate.
LEMMA SetInduction ==
  ASSUME NEW T, 0 \in T, \A n \in Nat : n \in T => n + 1 \in T
  PROVE  Nat \subseteq T
<1> SUFFICES ASSUME Nat \ T # {} PROVE FALSE
  BY Zenon
<1>0. PICK R : IsWellFoundedOn(R, Nat) /\ \A m, n \in Nat : m < n => <<m, n>> \in R
  BY NaturalOrder, Zenon
<1>1. PICK n \in Nat \ T : \A m \in Nat \ T : <<m, n>> \notin R
  <2>1. Nat \ T \subseteq Nat
    BY Zenon
  <2> QED BY <1>0, <2>1, WFMin, Zenon
<1>2. n # 0 /\ n - 1 \in Nat
  BY <1>1
<1>3. n - 1 \in T
  <2>1. n - 1 < n /\ n \in Nat
    BY <1>2
  <2>2. <<n - 1, n>> \in R
    BY <1>0, <1>2, <2>1, Zenon
  <2> QED BY <1>1, <1>2, <2>2, Zenon
<1> QED BY <1>1, <1>2, <1>3

-----------------------------------------------------------------------------
(* The two orders.                                                         *)

\* Addresses are ordered strictly and totally.
LEMMA AddressOrder ==
  ASSUME NEW a \in Address, NEW b \in Address, NEW c \in Address
  PROVE  /\ ~AddrLess(a, a)
         /\ a # b => AddrLess(a, b) \/ AddrLess(b, a)
         /\ AddrLess(a, b) /\ AddrLess(b, c) => AddrLess(a, c)
<1>1. /\ a.v6 \in BOOLEAN /\ b.v6 \in BOOLEAN /\ c.v6 \in BOOLEAN
      /\ a.port \in Nat /\ b.port \in Nat /\ c.port \in Nat
      /\ a.ip \in Nat /\ b.ip \in Nat /\ c.ip \in Nat
  BY Zenon DEF Address
<1>2. a # b => a.v6 # b.v6 \/ a.port # b.port \/ a.ip # b.ip
  BY DEF Address
<1> QED BY <1>1, <1>2 DEF AddrLess

\* So are nodes, by score and by time, as long as their addresses differ.
LEMMA NodeOrder ==
  ASSUME NEW x \in NodeRecord, NEW y \in NodeRecord, NEW z \in NodeRecord
  PROVE  /\ ~ByScore(x, x) /\ ~ByTime(x, x)
         /\ x.addr # y.addr => ByScore(x, y) \/ ByScore(y, x)
         /\ x.addr # y.addr => ByTime(x, y) \/ ByTime(y, x)
         /\ ByScore(x, y) /\ ByScore(y, z) => ByScore(x, z)
         /\ ByTime(x, y) /\ ByTime(y, z) => ByTime(x, z)
<1>1. /\ x.addr \in Address /\ y.addr \in Address /\ z.addr \in Address
      /\ x.time \in Int /\ y.time \in Int /\ z.time \in Int
      /\ x.failures \in Nat /\ y.failures \in Nat /\ z.failures \in Nat
      /\ x.preferable \in BOOLEAN /\ y.preferable \in BOOLEAN /\ z.preferable \in BOOLEAN
  BY Zenon DEF NodeRecord
<1>2. /\ ~AddrLess(x.addr, x.addr)
      /\ x.addr # y.addr => AddrLess(x.addr, y.addr) \/ AddrLess(y.addr, x.addr)
      /\ AddrLess(y.addr, x.addr) /\ AddrLess(z.addr, y.addr) => AddrLess(z.addr, x.addr)
  BY <1>1, AddressOrder, Zenon
<1> QED BY <1>1, <1>2 DEF ByScore, ByTime

\* A set of nodes with one node for each address.
OnePerAddress(S) ==
  S \subseteq NodeRecord /\ \A x, y \in S : x.addr = y.addr => x = y

\* An ordered set finds the node it holds, and takes out no other.
LEMMA TreeDeletes ==
  ASSUME NEW S, OnePerAddress(S), NEW old \in S
  PROVE  /\ TreeHas(S, old, ByScore) /\ TreeHas(S, old, ByTime)
         /\ TreeDel(S, old, ByScore) = S \ {old} /\ TreeDel(S, old, ByTime) = S \ {old}
<1>1. /\ old \in NodeRecord /\ ~ByScore(old, old) /\ ~ByTime(old, old)
  BY NodeOrder, Zenon DEF OnePerAddress
<1>2. \A y \in S \ {old} : /\ ByScore(old, y) \/ ByScore(y, old)
                           /\ ByTime(old, y) \/ ByTime(y, old)
  BY <1>1, NodeOrder, Zenon DEF OnePerAddress
<1>3. TreeHas(S, old, ByScore) /\ TreeHas(S, old, ByTime)
  BY <1>1, Zenon DEF TreeHas
<1>4. TreeDel(S, old, ByScore) = S \ {old} /\ TreeDel(S, old, ByTime) = S \ {old}
  BY <1>1, <1>2, Zenon DEF TreeDel
<1> QED BY <1>3, <1>4, Zenon

\* A node with a new address enters.
LEMMA TreeInserts ==
  ASSUME NEW S \in SUBSET NodeRecord, NEW n \in NodeRecord, \A y \in S : y.addr # n.addr
  PROVE  TreeAdd(S, n, ByScore) = S \cup {n} /\ TreeAdd(S, n, ByTime) = S \cup {n}
<1>1. \A y \in S : ByScore(n, y) \/ ByScore(y, n)
  BY NodeOrder, Zenon
<1>2. \A y \in S : ByTime(n, y) \/ ByTime(y, n)
  BY NodeOrder, Zenon
<1>3. ~TreeHas(S, n, ByScore) /\ ~TreeHas(S, n, ByTime)
  BY <1>1, <1>2, Zenon DEF TreeHas
<1> QED BY <1>3, Zenon DEF TreeAdd
-----------------------------------------------------------------------------
(* The sequence an ordered set is read as.                                 *)

\* R orders S strictly and totally.
Orders(R, S) ==
  /\ \A x \in S : <<x, x>> \notin R
  /\ \A x, y \in S : x # y => <<x, y>> \in R \/ <<y, x>> \in R
  /\ \A x, y, z \in S : <<x, y>> \in R /\ <<y, z>> \in R => <<x, z>> \in R

Below(S, R, x) == {y \in S : <<y, x>> \in R}

\* The number of elements below one is different for all, and every number
\* up to the size of the set occurs.
LEMMA Ranks ==
  ASSUME NEW S, IsFiniteSet(S), NEW R, Orders(R, S)
  PROVE  /\ Cardinality(S) \in Nat
         /\ \A x \in S : Cardinality(Below(S, R, x)) \in 0..(Cardinality(S) - 1)
         /\ \A x, y \in S : <<x, y>> \in R <=>
              Cardinality(Below(S, R, x)) < Cardinality(Below(S, R, y))
         /\ \A i \in 1..Cardinality(S) : \E x \in S : Cardinality(Below(S, R, x)) = i - 1
<1> DEFINE n == Cardinality(S)
           below(x) == Cardinality(Below(S, R, x))
<1>0. n \in Nat
  BY FS_CardinalityType, Zenon
<1>1. ASSUME NEW x \in S PROVE below(x) \in 0..(n - 1)
  <2>1. Below(S, R, x) \in SUBSET (S \ {x})
    BY Zenon DEF Below, Orders
  <2>2. IsFiniteSet(S \ {x}) /\ Cardinality(S \ {x}) = n - 1
    BY FS_RemoveElement, Zenon
  <2>3. IsFiniteSet(Below(S, R, x)) /\ below(x) <= n - 1
    BY <2>1, <2>2, FS_Subset, ZenonT(60)
  <2>4. below(x) \in Nat
    BY <2>3, FS_CardinalityType, Zenon
  <2> QED BY <1>0, <2>3, <2>4
<1>2. ASSUME NEW x \in S, NEW y \in S, <<x, y>> \in R PROVE below(x) < below(y)
  <2>1. Below(S, R, x) \in SUBSET Below(S, R, y) /\ x \in Below(S, R, y) \ Below(S, R, x)
    BY <1>2, Zenon DEF Below, Orders
  <2>2. IsFiniteSet(Below(S, R, y))
    BY FS_Subset, Zenon DEF Below
  <2>3. below(x) <= below(y) /\ below(y) # below(x)
    BY <2>1, <2>2, FS_Subset, Zenon
  <2> QED BY <2>3, <1>1
<1> DEFINE rank == [x \in S |-> below(x) + 1]
<1> HIDE DEF below, n
<1>3. rank \in [S -> 1..n]
  BY <1>0, <1>1
<1>4. \A x, y \in S : rank[x] = rank[y] => x = y
  <2> SUFFICES ASSUME NEW x \in S, NEW y \in S, rank[x] = rank[y], x # y PROVE FALSE
    BY Zenon
  <2>1. below(x) = below(y)
    BY <1>1
  <2>2. below(x) < below(y) \/ below(y) < below(x)
    BY <1>2, Zenon DEF Orders
  <2> QED BY <2>1, <2>2, <1>1
<1>5. rank \in Injection(S, 1..n)
  BY <1>3, <1>4, Zenon DEF Injection, IsInjective
<1>6. IsFiniteSet(1..n) /\ Cardinality(1..n) = n
  BY <1>0, FS_Interval
<1>7. rank \in Surjection(S, 1..n)
  BY <1>5, <1>6, FS_Injection, Zenon DEF n
<1>8. ASSUME NEW i \in 1..n PROVE \E x \in S : below(x) = i - 1
  <2>1. PICK x \in S : rank[x] = i
    BY <1>7, Zenon DEF Surjection
  <2> QED BY <2>1, <1>1, <1>0
<1>9. ASSUME NEW x \in S, NEW y \in S, below(x) < below(y) PROVE <<x, y>> \in R
  <2>1. x # y /\ ~(<<y, x>> \in R)
    BY <1>9, <1>2, <1>1
  <2> QED BY <2>1, Zenon DEF Orders
<1> QED BY <1>0, <1>1, <1>2, <1>8, <1>9, Zenon DEF below, n

\* The list of an ordered set has every element once, the lesser first.
Lists(s, S, R) ==
  /\ s \in [1..Cardinality(S) -> S]
  /\ \A x \in S : \E i \in DOMAIN s : s[i] = x
  /\ \A i, j \in DOMAIN s : i < j <=> <<s[i], s[j]>> \in R

\* A sequence whose i-th element has i - 1 elements before it lists the set in order.
LEMMA ListedInOrder ==
  ASSUME NEW S, IsFiniteSet(S), NEW R, Orders(R, S),
         NEW s \in [1..Cardinality(S) -> S],
         \A i \in 1..Cardinality(S) : Cardinality(Below(S, R, s[i])) = i - 1
  PROVE  Lists(s, S, R)
<1> DEFINE n == Cardinality(S)
           below(x) == Cardinality(Below(S, R, x))
<1>1. /\ n \in Nat
      /\ \A x \in S : below(x) \in 0..(n - 1)
      /\ \A x, y \in S : <<x, y>> \in R <=> below(x) < below(y)
  BY Ranks, Zenon
<1>2. \A i \in 1..n : s[i] \in S /\ below(s[i]) = i - 1
  BY Zenon
<1>3. s \in [1..n -> S] /\ DOMAIN s = 1..n
  BY Zenon
<1> HIDE DEF n, below
<1>4. ASSUME NEW x \in S PROVE \E i \in 1..n : s[i] = x
  <2>1. below(x) + 1 \in 1..n
    BY <1>1
  <2>2. below(s[below(x) + 1]) = below(x) /\ s[below(x) + 1] \in S
    BY <1>1, <1>2, <2>1
  <2>3. ~(<<x, s[below(x) + 1]>> \in R) /\ ~(<<s[below(x) + 1], x>> \in R)
    BY <1>1, <2>2
  <2> QED BY <2>1, <2>2, <2>3, Zenon DEF Orders
<1>5. \A i, j \in 1..n : i < j <=> <<s[i], s[j]>> \in R
  BY <1>1, <1>2
<1> QED BY <1>3, <1>4, <1>5, Zenon DEF Lists, n

ScoreOrder(S) == {p \in S \X S : ByScore(p[1], p[2])}
TimeOrder(S) == {p \in S \X S : ByTime(p[1], p[2])}

\* by_score.iter().
LEMMA ByScoreLists ==
  ASSUME NEW S, IsFiniteSet(S), OnePerAddress(S)
  PROVE  Lists(InOrder(S, ByScore), S, ScoreOrder(S))
<1> DEFINE s == InOrder(S, ByScore)
           below(x) == {y \in S : ByScore(y, x)}
<1>1. Orders(ScoreOrder(S), S)
  BY NodeOrder, Zenon DEF Orders, OnePerAddress, ScoreOrder
<1>2. \A x \in S : Below(S, ScoreOrder(S), x) = below(x)
  BY Zenon DEF Below, ScoreOrder
<1>3. \A i \in 1..Cardinality(S) : \E x \in S : Cardinality(below(x)) = i - 1
  <2> HIDE DEF below
  <2>1. \A i \in 1..Cardinality(S) :
          \E x \in S : Cardinality(Below(S, ScoreOrder(S), x)) = i - 1
    BY <1>1, Ranks, Zenon
  <2> QED BY <2>1, <1>2, Zenon
<1>4. \A i \in 1..Cardinality(S) : s[i] = CHOOSE x \in S : Cardinality(below(x)) = i - 1
  BY Zenon DEF InOrder
<1>5. s \in [1..Cardinality(S) -> S]
      /\ \A i \in 1..Cardinality(S) : Cardinality(below(s[i])) = i - 1
  <2> HIDE DEF below
  <2>1. \A i \in 1..Cardinality(S) : s[i] \in S /\ Cardinality(below(s[i])) = i - 1
    BY <1>3, <1>4, Zenon
  <2> QED BY <2>1, Zenon DEF InOrder
<1> HIDE DEF s, below
<1>6. \A i \in 1..Cardinality(S) : Cardinality(Below(S, ScoreOrder(S), s[i])) = i - 1
  BY <1>2, <1>5, Zenon
<1> QED BY <1>1, <1>5, <1>6, ListedInOrder, Zenon DEF s

\* by_time.iter().
LEMMA ByTimeLists ==
  ASSUME NEW S, IsFiniteSet(S), OnePerAddress(S)
  PROVE  Lists(InOrder(S, ByTime), S, TimeOrder(S))
<1> DEFINE s == InOrder(S, ByTime)
           below(x) == {y \in S : ByTime(y, x)}
<1>1. Orders(TimeOrder(S), S)
  BY NodeOrder, Zenon DEF Orders, OnePerAddress, TimeOrder
<1>2. \A x \in S : Below(S, TimeOrder(S), x) = below(x)
  BY Zenon DEF Below, TimeOrder
<1>3. \A i \in 1..Cardinality(S) : \E x \in S : Cardinality(below(x)) = i - 1
  <2> HIDE DEF below
  <2>1. \A i \in 1..Cardinality(S) :
          \E x \in S : Cardinality(Below(S, TimeOrder(S), x)) = i - 1
    BY <1>1, Ranks, Zenon
  <2> QED BY <2>1, <1>2, Zenon
<1>4. \A i \in 1..Cardinality(S) : s[i] = CHOOSE x \in S : Cardinality(below(x)) = i - 1
  BY Zenon DEF InOrder
<1>5. s \in [1..Cardinality(S) -> S]
      /\ \A i \in 1..Cardinality(S) : Cardinality(below(s[i])) = i - 1
  <2> HIDE DEF below
  <2>1. \A i \in 1..Cardinality(S) : s[i] \in S /\ Cardinality(below(s[i])) = i - 1
    BY <1>3, <1>4, Zenon
  <2> QED BY <2>1, Zenon DEF InOrder
<1> HIDE DEF s, below
<1>6. \A i \in 1..Cardinality(S) : Cardinality(Below(S, TimeOrder(S), s[i])) = i - 1
  BY <1>2, <1>5, Zenon
<1> QED BY <1>1, <1>5, <1>6, ListedInOrder, Zenon DEF s
-----------------------------------------------------------------------------
(* The operations on the table.                                            *)

\* The empty table is sound.
LEMMA EmptyTable == ASSUME NEW now PROVE TableOK(NoNodes, now)
BY FS_EmptySet DEF TableOK, NoNodes, Nodes

\* A sound table has finitely many nodes, one for an address.
LEMMA NodesOfTable ==
  ASSUME NEW t, NEW now, TableOK(t, now)
  PROVE  OnePerAddress(Nodes(t)) /\ IsFiniteSet(Nodes(t))
<1>1. OnePerAddress(Nodes(t))
  BY DEF TableOK, Nodes, OnePerAddress
<1>2. t.byAddr \in Surjection(DOMAIN t.byAddr, Nodes(t))
  BY Zenon DEF TableOK, Nodes, Surjection
<1> QED BY <1>1, <1>2, FS_Surjection, Zenon DEF TableOK

\* The table as a record, with its one function and its one set of nodes.
LEMMA TableShape ==
  ASSUME NEW t, NEW now, TableOK(t, now)
  PROVE  \E f, N : /\ t = [byAddr |-> f, byScore |-> N, byTime |-> N, asserts |-> TRUE]
                   /\ N = {f[a] : a \in DOMAIN f} /\ N = Nodes(t)
                   /\ IsFiniteSet(DOMAIN f) /\ f \in [DOMAIN f -> NodeRecord]
                   /\ \A a \in DOMAIN f : f[a].addr = a /\ f[a].time <= now
<1>1. /\ t = [byAddr |-> t.byAddr, byScore |-> Nodes(t), byTime |-> Nodes(t), asserts |-> TRUE]
      /\ Nodes(t) = {t.byAddr[a] : a \in DOMAIN t.byAddr}
      /\ IsFiniteSet(DOMAIN t.byAddr) /\ t.byAddr \in [DOMAIN t.byAddr -> NodeRecord]
      /\ \A a \in DOMAIN t.byAddr : t.byAddr[a].addr = a /\ t.byAddr[a].time <= now
  BY Zenon DEF TableOK, Nodes
<1> DEFINE g == t.byAddr
           M == Nodes(t)
<1>2. /\ t = [byAddr |-> g, byScore |-> M, byTime |-> M, asserts |-> TRUE]
      /\ M = {g[a] : a \in DOMAIN g} /\ M = Nodes(t)
      /\ IsFiniteSet(DOMAIN g) /\ g \in [DOMAIN g -> NodeRecord]
      /\ \A a \in DOMAIN g : g[a].addr = a /\ g[a].time <= now
  BY <1>1, Zenon
<1> HIDE DEF g, M
<1> QED BY <1>2, Zenon

\* A table whose trees hold the values of its map is sound.
LEMMA ShapeOfTable ==
  ASSUME NEW t, NEW f, NEW N, NEW now,
         t = [byAddr |-> f, byScore |-> N, byTime |-> N, asserts |-> TRUE],
         N = {f[a] : a \in DOMAIN f},
         IsFiniteSet(DOMAIN f), f \in [DOMAIN f -> NodeRecord],
         \A a \in DOMAIN f : f[a].addr = a /\ f[a].time <= now
  PROVE  TableOK(t, now) /\ Nodes(t) = N
BY ZenonT(60) DEF TableOK, Nodes

\* A table with its three indexes replaced.
LEMMA TableUpdate ==
  ASSUME NEW t, NEW f, NEW N, NEW g, NEW S, NEW T, NEW u,
         t = [byAddr |-> f, byScore |-> N, byTime |-> N, asserts |-> TRUE],
         u = [t EXCEPT !.byAddr = g, !.byScore = S, !.byTime = T]
  PROVE  u = [byAddr |-> g, byScore |-> S, byTime |-> T, asserts |-> TRUE]
BY Zenon

\* A table with its three indexes and its assertion replaced.
LEMMA TableUpdateAll ==
  ASSUME NEW t, NEW f, NEW N, NEW g, NEW S, NEW T, NEW b, NEW u,
         t = [byAddr |-> f, byScore |-> N, byTime |-> N, asserts |-> TRUE],
         u = [t EXCEPT !.byAddr = g, !.byScore = S, !.byTime = T, !.asserts = b]
  PROVE  u = [byAddr |-> g, byScore |-> S, byTime |-> T, asserts |-> b]
BY Zenon

\* A table is still one later.
LEMMA TableLater ==
  ASSUME NEW t, NEW now \in Int, NEW later \in Int, now <= later, TableOK(t, now)
  PROVE  TableOK(t, later)
BY DEF TableOK, NodeRecord

\* Entering a node under a new address in all three indexes keeps the table sound.
LEMMA EnterKeeps ==
  ASSUME NEW t, NEW now, TableOK(t, now), NEW n \in NodeRecord,
         n.addr \notin DOMAIN t.byAddr, n.time <= now
  PROVE  /\ TableOK(Enter(t, n), now) /\ Nodes(Enter(t, n)) = Nodes(t) \cup {n}
         /\ DOMAIN Enter(t, n).byAddr = DOMAIN t.byAddr \cup {n.addr}
<1>0. PICK f, N : /\ t = [byAddr |-> f, byScore |-> N, byTime |-> N, asserts |-> TRUE]
                  /\ N = {f[a] : a \in DOMAIN f} /\ N = Nodes(t)
                  /\ IsFiniteSet(DOMAIN f) /\ f \in [DOMAIN f -> NodeRecord]
                  /\ \A a \in DOMAIN f : f[a].addr = a /\ f[a].time <= now
  BY TableShape
<1> DEFINE d == DOMAIN f \cup {n.addr}
           m == [a \in d |-> IF a = n.addr THEN n ELSE f[a]]
<1>a. t.byAddr = f /\ t.byScore = N /\ t.byTime = N
  BY <1>0, Zenon
<1>1. n.addr \notin DOMAIN f /\ \A y \in N : y \in NodeRecord /\ y.addr # n.addr
  BY <1>0
<1>2. /\ TreeAdd(N, n, ByScore) = N \cup {n} /\ TreeAdd(N, n, ByTime) = N \cup {n}
  BY <1>1, TreeInserts, Zenon
<1>3. Enter(t, n) = [byAddr |-> m, byScore |-> N \cup {n}, byTime |-> N \cup {n}, asserts |-> TRUE]
  <2>1. Enter(t, n) = [t EXCEPT !.byAddr = m, !.byScore = TreeAdd(N, n, ByScore),
                                !.byTime = TreeAdd(N, n, ByTime)]
    BY <1>a, Zenon DEF Enter
  <2> HIDE DEF m
  <2> QED BY <1>0, <1>2, <2>1, TableUpdate, Zenon
<1>4. IsFiniteSet(d)
  BY <1>0, FS_AddElement, Zenon
<1>5. m \in [d -> NodeRecord] /\ DOMAIN m = d /\ \A a \in DOMAIN m : m[a].addr = a /\ m[a].time <= now
  BY <1>0, Zenon
<1>6. N \cup {n} = {m[a] : a \in DOMAIN m}
  <2>1. \A a \in DOMAIN m : m[a] \in N \cup {n}
    BY <1>0, Zenon
  <2>2. \A y \in N \cup {n} : \E a \in DOMAIN m : y = m[a]
    <3>1. m[n.addr] = n /\ n.addr \in DOMAIN m
      BY Zenon
    <3>2. \A a \in DOMAIN f : a \in DOMAIN m /\ m[a] = f[a]
      BY <1>1, Zenon
    <3> HIDE DEF m
    <3> QED BY <1>0, <3>1, <3>2
  <2> HIDE DEF m
  <2> QED BY <2>1, <2>2, Zenon
<1> HIDE DEF m, d
<1>7. TableOK(Enter(t, n), now) /\ Nodes(Enter(t, n)) = N \cup {n}
  <2>1. IsFiniteSet(DOMAIN m) /\ m \in [DOMAIN m -> NodeRecord]
    BY <1>4, <1>5, Zenon
  <2> QED BY <1>3, <1>5, <1>6, <2>1, ShapeOfTable, Zenon
<1>8. DOMAIN Enter(t, n).byAddr = d /\ DOMAIN t.byAddr = DOMAIN f
  BY <1>0, <1>3, <1>5
<1> QED BY <1>0, <1>7, <1>8, Zenon DEF d

\* Replacing a node in all three indexes keeps the table sound.
LEMMA ReindexKeeps ==
  ASSUME NEW t, NEW now, TableOK(t, now), NEW a \in DOMAIN t.byAddr,
         NEW new \in NodeRecord, new.addr = a, new.time <= now
  PROVE  /\ TableOK(Reindex(t, t.byAddr[a], new), now)
         /\ Reindex(t, t.byAddr[a], new).byAddr = [t.byAddr EXCEPT ![a] = new]
<1>0. PICK f, N : /\ t = [byAddr |-> f, byScore |-> N, byTime |-> N, asserts |-> TRUE]
                  /\ N = {f[b] : b \in DOMAIN f} /\ N = Nodes(t)
                  /\ IsFiniteSet(DOMAIN f) /\ f \in [DOMAIN f -> NodeRecord]
                  /\ \A b \in DOMAIN f : f[b].addr = b /\ f[b].time <= now
  BY TableShape
<1> DEFINE old == f[a]
           S == (N \ {old}) \cup {new}
           m == [f EXCEPT ![a] = new]
<1>a. t.byAddr = f /\ a \in DOMAIN f
  BY <1>0, Zenon
<1>1. old \in N /\ old.addr = a /\ OnePerAddress(N)
  BY <1>0, <1>a, NodesOfTable, Zenon
<1>2. /\ TreeHas(N, old, ByScore) /\ TreeHas(N, old, ByTime)
      /\ TreeDel(N, old, ByScore) = N \ {old} /\ TreeDel(N, old, ByTime) = N \ {old}
  BY <1>1, TreeDeletes, Zenon
<1>3. \A y \in N \ {old} : y \in NodeRecord /\ y.addr # new.addr
  BY <1>1, Zenon DEF OnePerAddress
<1>4. TreeAdd(N \ {old}, new, ByScore) = S /\ TreeAdd(N \ {old}, new, ByTime) = S
  BY <1>3, TreeInserts, Zenon
<1>5. /\ DOMAIN m = DOMAIN f /\ m \in [DOMAIN f -> NodeRecord]
      /\ \A b \in DOMAIN f : m[b] = IF b = a THEN new ELSE f[b]
  BY <1>0, Zenon
<1>6. S = {m[b] : b \in DOMAIN m}
  <2>1. \A b \in DOMAIN f : b # a => f[b] # old
    BY <1>0, <1>a, Zenon
  <2> QED BY <1>0, <1>5, <1>a, <2>1
<1>7. Reindex(t, old, new) = [byAddr |-> m, byScore |-> S, byTime |-> S, asserts |-> TRUE]
  <2>1. Reindex(t, old, new)
          = [t EXCEPT !.byAddr = m, !.byScore = TreeAdd(TreeDel(N, old, ByScore), new, ByScore),
                      !.byTime = TreeAdd(TreeDel(N, old, ByTime), new, ByTime),
                      !.asserts = t.asserts /\ TreeHas(N, old, ByScore) /\ TreeHas(N, old, ByTime)]
    <3>1. t.byScore = N /\ t.byTime = N
      BY <1>0, Zenon
    <3> QED BY <1>a, <1>1, <3>1, Zenon DEF Reindex
  <2>2. (t.asserts /\ TreeHas(N, old, ByScore) /\ TreeHas(N, old, ByTime)) = TRUE
    BY <1>0, <1>2, Zenon
  <2> HIDE DEF m, S
  <2> QED BY <1>0, <1>2, <1>4, <2>1, <2>2, TableUpdateAll, ZenonT(60)
<1>8. \A b \in DOMAIN m : m[b].addr = b /\ m[b].time <= now
  BY <1>0, <1>5, Zenon
<1> HIDE DEF m, S
<1>9. TableOK(Reindex(t, old, new), now)
  <2>1. IsFiniteSet(DOMAIN m) /\ m \in [DOMAIN m -> NodeRecord]
    BY <1>0, <1>5, Zenon
  <2> QED BY <2>1, <1>6, <1>7, <1>8, ShapeOfTable, Zenon
<1> QED BY <1>a, <1>7, <1>9 DEF m

\* NodeTable::insert keeps the table sound.
LEMMA InsertKeeps ==
  ASSUME NEW t, NEW now \in Int, TableOK(t, now), NEW addr \in Address,
         NEW services \in ServiceSets, NEW preferable
  PROVE  TableOK(Insert(t, addr, services, preferable, now), now)
<1>1. CASE addr \in DOMAIN t.byAddr
  <2> DEFINE new == [t.byAddr[addr] EXCEPT !.time = now, !.services = services]
  <2>0. t.byAddr[addr] \in NodeRecord /\ t.byAddr[addr].addr = addr
    BY <1>1, Zenon DEF TableOK
  <2>a. PICK n : n = t.byAddr[addr]
    BY Zenon
  <2>b. new = [n EXCEPT !.time = now, !.services = services] /\ n \in NodeRecord /\ n.addr = addr
    BY <2>0, <2>a, Zenon
  <2> HIDE DEF new
  <2>1. new \in NodeRecord /\ new.addr = addr /\ new.time <= now
    <3>1. new \in NodeRecord
      BY <2>b, Zenon DEF NodeRecord
    <3>2. new.addr = addr
      BY <2>b, Zenon DEF NodeRecord
    <3>3. new.time = now
      BY <2>b, Zenon DEF NodeRecord
    <3> QED BY <3>1, <3>2, <3>3
  <2> HIDE DEF new
  <2>2. TableOK(Reindex(t, t.byAddr[addr], new), now)
    BY <1>1, <2>1, ReindexKeeps, Zenon
  <2> QED BY <1>1, <2>2, Zenon DEF Insert, new
<1>2. CASE addr \notin DOMAIN t.byAddr
  <2> DEFINE n == Node(addr, now, services, Includes(services, preferable), 0)
  <2>1. n \in NodeRecord /\ n.addr = addr /\ n.time = now
    BY Zenon DEF Node, NodeRecord, Includes
  <2> HIDE DEF n
  <2>2. TableOK(Enter(t, n), now)
    BY <1>2, <2>1, EnterKeeps
  <2> QED BY <1>2, <2>2, Zenon DEF Insert, n
<1> QED BY <1>1, <1>2, Zenon

\* NodeTable::add keeps the table sound.
LEMMA AddKeeps ==
  ASSUME NEW t, NEW now \in Int, TableOK(t, now), NEW addr \in Address,
         NEW services \in ServiceSets, NEW preferable
  PROVE  TableOK(Add(t, addr, services, preferable, now), now)
BY InsertKeeps, Zenon DEF Add

\* NodeTable::remove keeps the table sound.
LEMMA RemoveKeeps ==
  ASSUME NEW t, NEW now, TableOK(t, now), NEW addr
  PROVE  TableOK(Remove(t, addr), now)
<1>1. CASE addr \notin DOMAIN t.byAddr
  BY <1>1, Zenon DEF Remove
<1>2. CASE addr \in DOMAIN t.byAddr
  <2>0. PICK f, N : /\ t = [byAddr |-> f, byScore |-> N, byTime |-> N, asserts |-> TRUE]
                    /\ N = {f[a] : a \in DOMAIN f} /\ N = Nodes(t)
                    /\ IsFiniteSet(DOMAIN f) /\ f \in [DOMAIN f -> NodeRecord]
                    /\ \A a \in DOMAIN f : f[a].addr = a /\ f[a].time <= now
    BY TableShape, ZenonT(60)
  <2> DEFINE old == f[addr]
             d == DOMAIN f \ {addr}
             m == [a \in d |-> f[a]]
  <2>a. t.byAddr = f /\ addr \in DOMAIN f
    BY <1>2, <2>0, Zenon
  <2>1. old \in N /\ old.addr = addr /\ OnePerAddress(N)
    BY <2>0, <2>a, NodesOfTable, Zenon
  <2>2. /\ TreeDel(N, old, ByScore) = N \ {old} /\ TreeDel(N, old, ByTime) = N \ {old}
    BY <2>1, TreeDeletes, Zenon
  <2>3. Remove(t, addr) = [byAddr |-> m, byScore |-> N \ {old}, byTime |-> N \ {old},
                           asserts |-> TRUE]
    BY <1>2, <2>0, <2>a, <2>2, Zenon DEF Remove
  <2>4. IsFiniteSet(d)
    BY <2>0, FS_RemoveElement, Zenon
  <2>5. m \in [d -> NodeRecord] /\ DOMAIN m = d /\ \A a \in DOMAIN m : m[a].addr = a /\ m[a].time <= now
    BY <2>0, Zenon
  <2>6. N \ {old} = {m[a] : a \in DOMAIN m}
    <3>1. \A b \in d : f[b] # old /\ f[b] \in N
      BY <2>0, <2>a, Zenon
    <3>2. \A y \in N \ {old} : \E b \in d : y = f[b]
      BY <2>0, Zenon
    <3> QED BY <2>5, <3>1, <3>2
  <2> HIDE DEF m, d
  <2>7. IsFiniteSet(DOMAIN m) /\ m \in [DOMAIN m -> NodeRecord]
    BY <2>4, <2>5, Zenon
  <2> QED BY <2>3, <2>5, <2>6, <2>7, ShapeOfTable, Zenon
<1> QED BY <1>1, <1>2, Zenon

\* NodeTable::note_used and note_failure keep the table sound.
LEMMA NoteKeeps ==
  ASSUME NEW t, NEW now \in Int, TableOK(t, now), NEW addr
  PROVE  TableOK(NoteUsed(t, addr, now), now) /\ TableOK(NoteFailure(t, addr), now)
<1>1. CASE addr \notin DOMAIN t.byAddr
  BY <1>1, Zenon DEF NoteUsed, NoteFailure
<1>2. CASE addr \in DOMAIN t.byAddr
  <2> DEFINE used == [t.byAddr[addr] EXCEPT !.time = now]
             failed == [t.byAddr[addr] EXCEPT !.failures = @ + 1]
  <2>1. /\ used \in NodeRecord /\ used.addr = addr /\ used.time <= now
        /\ failed \in NodeRecord /\ failed.addr = addr /\ failed.time <= now
    BY <1>2 DEF TableOK, NodeRecord
  <2> HIDE DEF used, failed
  <2>2. /\ TableOK(Reindex(t, t.byAddr[addr], used), now)
        /\ TableOK(Reindex(t, t.byAddr[addr], failed), now)
    BY <1>2, <2>1, ReindexKeeps, Zenon
  <2> QED BY <1>2, <2>2, Zenon DEF NoteUsed, NoteFailure, used, failed
<1> QED BY <1>1, <1>2, Zenon

\* One entry of NodeTable::insert_many keeps the table sound.
LEMMA InsertEntryKeeps ==
  ASSUME NEW t, NEW now, TableOK(t, now), NEW e, EntryOK(e), e.time <= now, NEW preferable
  PROVE  TableOK(InsertEntry(t, e, preferable), now)
<1>1. CASE e.addr \in DOMAIN t.byAddr
  <2> DEFINE new == [t.byAddr[e.addr] EXCEPT !.time = e.time, !.services = e.services]
  <2>1. new \in NodeRecord /\ new.addr = e.addr /\ new.time <= now
    BY <1>1, ZenonT(60) DEF TableOK, NodeRecord, EntryOK
  <2> HIDE DEF new
  <2>2. TableOK(Reindex(t, t.byAddr[e.addr], new), now)
    BY <1>1, <2>1, ReindexKeeps, Zenon
  <2> QED BY <1>1, <2>2, Zenon DEF InsertEntry, new
<1>2. CASE e.addr \notin DOMAIN t.byAddr
  <2> DEFINE n == Node(e.addr, e.time, e.services, Includes(e.services, preferable), 0)
  <2>1. n \in NodeRecord /\ n.addr = e.addr /\ n.time <= now
    BY Zenon DEF Node, NodeRecord, Includes, EntryOK
  <2> HIDE DEF n
  <2>2. TableOK(Enter(t, n), now)
    BY <1>2, <2>1, EnterKeeps, Zenon
  <2> QED BY <1>2, <2>2, Zenon DEF InsertEntry, n
<1> QED BY <1>1, <1>2, Zenon

InsertingStep(f, i, t, entries, preferable, now) ==
  IF i = 0 THEN t
  ELSE IF entries[i].time <= now THEN InsertEntry(f[i - 1], entries[i], preferable)
  ELSE f[i - 1]

\* The fold over the entries of an addr message is a function.
LEMMA InsertManyFolds ==
  ASSUME NEW t, NEW entries, NEW preferable, NEW now, NEW N \in Nat
  PROVE  \E f : f = [i \in 0..N |-> InsertingStep(f, i, t, entries, preferable, now)]
<1> USE DEF InsertingStep
<1> DEFINE step(f, i) == InsertingStep(f, i, t, entries, preferable, now)
           T == {m \in Nat : \E f : f = [i \in 0..m |-> step(f, i)]}
<1>1. 0 \in T
  <2> DEFINE f == [i \in 0..0 |-> t]
  <2>1. f = [i \in 0..0 |-> step(f, i)]
    OBVIOUS
  <2> QED BY <2>1, Zenon
<1>2. ASSUME NEW m \in Nat, m \in T PROVE m + 1 \in T
  <2>1. PICK f : f = [i \in 0..m |-> step(f, i)]
    BY <1>2, Zenon
  <2> DEFINE g == [i \in 0..(m + 1) |-> IF i = m + 1 THEN step(f, m + 1) ELSE f[i]]
  <2>2. ASSUME NEW i \in 0..(m + 1) PROVE g[i] = step(g, i)
    <3>1. CASE i = m + 1
      <4>1. g[i - 1] = f[i - 1] /\ g[i] = step(f, i)
        BY <3>1
      <4> HIDE DEF g
      <4> QED BY <3>1, <4>1, Zenon
    <3>2. CASE i = 0
      BY <2>1, <3>2
    <3>3. CASE i \in 1..m
      <4>1. g[i] = f[i] /\ g[i - 1] = f[i - 1] /\ i \in 0..m
        BY <3>3
      <4>2. f[i] = step(f, i)
        <5> HIDE DEF g, step
        <5> QED BY <2>1, <4>1, Zenon
      <4> HIDE DEF g
      <4> QED BY <4>1, <4>2, Zenon
    <3> QED BY <3>1, <3>2, <3>3
  <2>3. g = [i \in 0..(m + 1) |-> g[i]]
    BY Zenon
  <2> HIDE DEF g, step
  <2>4. g = [i \in 0..(m + 1) |-> step(g, i)]
    BY <2>2, <2>3, Zenon
  <2> QED BY <2>4
<1> HIDE DEF T
<1>3. N \in T
  BY <1>1, <1>2, SetInduction, Zenon
<1> QED BY <1>3, Zenon DEF T

\* What an addr message brings in.
LEMMA InsertManyKeeps ==
  ASSUME NEW t, NEW now, TableOK(t, now), NEW entries, Len(entries) \in Nat,
         \A i \in 1..Len(entries) : EntryOK(entries[i]), NEW preferable
  PROVE  TableOK(InsertMany(t, entries, preferable, now), now)
<1> DEFINE fold[i \in 0..Len(entries)] ==
             IF i = 0 THEN t
             ELSE IF entries[i].time <= now THEN InsertEntry(fold[i - 1], entries[i], preferable)
             ELSE fold[i - 1]
<1>1. fold = [i \in 0..Len(entries) |->
                IF i = 0 THEN t
                ELSE IF entries[i].time <= now THEN InsertEntry(fold[i - 1], entries[i], preferable)
                ELSE fold[i - 1]]
  <2>1. \E f : f = [i \in 0..Len(entries) |->
                       IF i = 0 THEN t
                       ELSE IF entries[i].time <= now THEN InsertEntry(f[i - 1], entries[i], preferable)
                       ELSE f[i - 1]]
    <3>1. \E f : f = [i \in 0..Len(entries) |-> InsertingStep(f, i, t, entries, preferable, now)]
      BY InsertManyFolds
    <3> QED BY <3>1, Zenon DEF InsertingStep
  <2> QED BY <2>1, Zenon
<1>2. InsertMany(t, entries, preferable, now) = fold[Len(entries)]
  BY Zenon DEF InsertMany
<1> HIDE DEF fold
<1>3. fold[0] = t /\ \A i \in 1..Len(entries) :
         fold[i] = IF entries[i].time <= now THEN InsertEntry(fold[i - 1], entries[i], preferable)
                   ELSE fold[i - 1]
  BY <1>1, SMTT(60)
<1> DEFINE T == {m \in Nat : m <= Len(entries) => TableOK(fold[m], now)}
<1>4. 0 \in T
  BY <1>3, Zenon
<1>5. ASSUME NEW m \in Nat, m \in T PROVE m + 1 \in T
  <2> SUFFICES ASSUME m + 1 <= Len(entries) PROVE TableOK(fold[m + 1], now)
    OBVIOUS
  <2>1. TableOK(fold[m], now) /\ m + 1 \in 1..Len(entries) /\ (m + 1) - 1 = m
    BY <1>5
  <2>2. EntryOK(entries[m + 1])
    BY <2>1, Zenon
  <2>3. fold[m + 1] = IF entries[m + 1].time <= now
                      THEN InsertEntry(fold[m], entries[m + 1], preferable) ELSE fold[m]
    BY <1>3, <2>1, Zenon
  <2> QED BY <2>1, <2>2, <2>3, InsertEntryKeeps, Zenon
<1> HIDE DEF T
<1>6. Len(entries) \in T
  BY <1>4, <1>5, SetInduction, Zenon
<1> QED BY <1>2, <1>6 DEF T
-----------------------------------------------------------------------------
(* The file.                                                               *)

\* The fold over the rows of the file is a function.
LEMMA LoadFolds ==
  ASSUME NEW rows, NEW preferable, NEW N \in Nat
  PROVE  \E f : f = [i \in 0..N |->
                       IF i = 0 THEN NoNodes
                       ELSE LET r == rows[i]
                            IN  Enter(f[i - 1], Node(r.addr, r.time, r.services,
                                                     Includes(r.services, preferable), r.failures))]
<1> DEFINE step(f, i) == IF i = 0 THEN NoNodes
                         ELSE LET r == rows[i]
                              IN  Enter(f[i - 1], Node(r.addr, r.time, r.services,
                                                       Includes(r.services, preferable), r.failures))
           T == {m \in Nat : \E f : f = [i \in 0..m |-> step(f, i)]}
<1>1. 0 \in T
  <2> DEFINE f == [i \in 0..0 |-> NoNodes]
  <2>1. f = [i \in 0..0 |-> step(f, i)]
    OBVIOUS
  <2> QED BY <2>1, Zenon
<1>2. ASSUME NEW m \in Nat, m \in T PROVE m + 1 \in T
  <2>1. PICK f : f = [i \in 0..m |-> step(f, i)]
    BY <1>2, Zenon
  <2> DEFINE g == [i \in 0..(m + 1) |-> IF i = m + 1 THEN step(f, m + 1) ELSE f[i]]
  <2>2. ASSUME NEW i \in 0..(m + 1) PROVE g[i] = step(g, i)
    <3>1. CASE i = m + 1
      <4>1. g[i - 1] = f[i - 1] /\ g[i] = step(f, i)
        BY <3>1
      <4> HIDE DEF g
      <4> QED BY <3>1, <4>1, Zenon
    <3>2. CASE i = 0
      BY <2>1, <3>2
    <3>3. CASE i \in 1..m
      <4>1. g[i] = f[i] /\ g[i - 1] = f[i - 1] /\ i \in 0..m
        BY <3>3
      <4>2. f[i] = step(f, i)
        <5> HIDE DEF g, step
        <5> QED BY <2>1, <4>1, Zenon
      <4> HIDE DEF g
      <4> QED BY <4>1, <4>2, Zenon
    <3> QED BY <3>1, <3>2, <3>3
  <2>3. g = [i \in 0..(m + 1) |-> g[i]]
    BY Zenon
  <2> HIDE DEF g, step
  <2>4. g = [i \in 0..(m + 1) |-> step(g, i)]
    BY <2>2, <2>3, Zenon
  <2> QED BY <2>4
<1> HIDE DEF T
<1>3. N \in T
  BY <1>1, <1>2, SetInduction, Zenon
<1> QED BY <1>3, Zenon DEF T

\* Rows that are not of the future stay so.
LEMMA RowsLater ==
  ASSUME NEW rows, NEW now \in Int, NEW later \in Int, now <= later, RowsOK(rows, now)
  PROVE  RowsOK(rows, later)
BY DEF RowsOK, EntryOK

NodeOfRow(r, preferable) ==
  Node(r.addr, r.time, r.services, Includes(r.services, preferable), r.failures)

\* The table read from a file is the rows of the file.
LEMMA LoadReads ==
  ASSUME NEW rows, NEW now, RowsOK(rows, now), NEW preferable
  PROVE  /\ TableOK(Load(rows, preferable), now)
         /\ DOMAIN Load(rows, preferable).byAddr = {rows[i].addr : i \in 1..Len(rows)}
         /\ Nodes(Load(rows, preferable)) = {NodeOfRow(rows[i], preferable) : i \in 1..Len(rows)}
<1> DEFINE fold[i \in 0..Len(rows)] ==
             IF i = 0 THEN NoNodes
             ELSE LET r == rows[i]
                  IN  Enter(fold[i - 1], Node(r.addr, r.time, r.services,
                                              Includes(r.services, preferable), r.failures))
<1>0. Len(rows) \in Nat
  BY Zenon DEF RowsOK
<1>1. fold = [i \in 0..Len(rows) |->
                IF i = 0 THEN NoNodes
                ELSE LET r == rows[i]
                     IN  Enter(fold[i - 1], Node(r.addr, r.time, r.services,
                                                 Includes(r.services, preferable), r.failures))]
  BY <1>0, LoadFolds, ZenonT(60)
<1>2. Load(rows, preferable) = fold[Len(rows)]
  BY Zenon DEF Load
<1> HIDE DEF fold
<1>3. fold[0] = NoNodes /\ \A i \in 1..Len(rows) : fold[i] = Enter(fold[i - 1], NodeOfRow(rows[i], preferable))
  BY <1>0, <1>1 DEF NodeOfRow
<1> DEFINE Reads(m) == /\ TableOK(fold[m], now)
                       /\ DOMAIN fold[m].byAddr = {rows[i].addr : i \in 1..m}
                       /\ Nodes(fold[m]) = {NodeOfRow(rows[i], preferable) : i \in 1..m}
           T == {m \in Nat : m <= Len(rows) => Reads(m)}
<1>4. 0 \in T
  BY <1>3, EmptyTable DEF NoNodes, Nodes
<1>5. ASSUME NEW m \in Nat, m \in T PROVE m + 1 \in T
  <2> SUFFICES ASSUME m + 1 <= Len(rows) PROVE Reads(m + 1)
    OBVIOUS
  <2> DEFINE n == NodeOfRow(rows[m + 1], preferable)
  <2>1. m + 1 \in 1..Len(rows) /\ 1..(m + 1) = 1..m \cup {m + 1} /\ m \in 0..Len(rows)
    BY <1>0
  <2>2. Reads(m)
    BY <1>5, <1>0
  <2>3. n \in NodeRecord /\ n.time <= now /\ n.addr = rows[m + 1].addr
    BY <2>1, Zenon DEF NodeOfRow, Node, NodeRecord, Includes, RowsOK, EntryOK
  <2>4. n.addr \notin DOMAIN fold[m].byAddr
    BY <2>1, <2>2, <2>3 DEF RowsOK
  <2>5. fold[m + 1] = Enter(fold[m], n)
    BY <1>3, <2>1
  <2> HIDE DEF n
  <2>6. /\ TableOK(fold[m + 1], now) /\ Nodes(fold[m + 1]) = Nodes(fold[m]) \cup {n}
        /\ DOMAIN fold[m + 1].byAddr = DOMAIN fold[m].byAddr \cup {n.addr}
    BY <2>2, <2>3, <2>4, <2>5, EnterKeeps
  <2> QED BY <2>1, <2>2, <2>3, <2>6 DEF n
<1> HIDE DEF T
<1>6. Len(rows) \in T
  BY <1>0, <1>4, <1>5, SetInduction, Zenon
<1> QED BY <1>0, <1>2, <1>6 DEF T
-----------------------------------------------------------------------------
(* The lists of nodes.                                                     *)

\* t is the first k elements of s, a list of n elements of S, or all of them.
IsTaken(t, s, n, k, S) ==
  /\ Len(t) = (IF n < k THEN n ELSE k)
  /\ \A i \in 1..Len(t) : i \in 1..n /\ t[i] = s[i] /\ t[i] \in S

\* Iterator::take: a prefix, of the length asked for or whole.
LEMMA TakeFacts ==
  ASSUME NEW S, NEW n \in Nat, NEW s \in [1..n -> S], NEW k \in Nat, NEW t, t = Take(s, k)
  PROVE  IsTaken(t, s, n, k, S)
<1>1. s \in Seq(S) /\ Len(s) = n
  OBVIOUS
<1>2. CASE n <= k
  BY <1>1, <1>2 DEF Take, IsTaken
<1>3. CASE n > k
  BY <1>1, <1>3 DEF Take, IsTaken
<1> QED BY <1>1, <1>2, <1>3

\* A node before another one has no more failures, or is no less recent.
LEMMA OrderOfFields ==
  ASSUME NEW x \in NodeRecord, NEW y \in NodeRecord
  PROVE  /\ ByScore(x, y) => x.failures <= y.failures
         /\ ByTime(x, y) => x.time >= y.time
<1>1. x.failures \in Nat /\ y.failures \in Nat /\ x.time \in Int /\ y.time \in Int
  BY Zenon DEF NodeRecord
<1> QED BY <1>1 DEF ByScore, ByTime

\* c lists k nodes of S, or all, and no other has fewer failures.
IsBest(c, S, k) ==
  /\ Cardinality(S) \in Nat /\ Len(c) \in Nat
  /\ Len(c) = (IF Cardinality(S) < k THEN Cardinality(S) ELSE k)
  /\ \A i \in 1..Len(c) : c[i] \in S
  /\ \A i, j \in 1..Len(c) : c[i] = c[j] => i = j
  /\ \A n \in S : (\A j \in 1..Len(c) : c[j] # n) =>
                     \A i \in 1..Len(c) : c[i].failures <= n.failures

\* The first k nodes by score are the best.
LEMMA BestOf ==
  ASSUME NEW S, IsFiniteSet(S), OnePerAddress(S), NEW k \in Nat,
         NEW c, c = Take(InOrder(S, ByScore), k)
  PROVE  IsBest(c, S, k)
<1> DEFINE s == InOrder(S, ByScore)
           N == Cardinality(S)
<1>0. N \in Nat
  BY FS_CardinalityType, Zenon
<1>1. Lists(s, S, ScoreOrder(S))
  BY ByScoreLists, Zenon
<1>a. c = Take(s, k)
  BY Zenon
<1> HIDE DEF s
<1>2. /\ s \in [1..N -> S] /\ \A x \in S : \E i \in 1..N : s[i] = x
      /\ \A i, j \in 1..N : i < j <=> <<s[i], s[j]>> \in ScoreOrder(S)
  BY <1>1, Zenon DEF Lists
<1> HIDE DEF N
<1>3. /\ Len(c) = (IF N < k THEN N ELSE k)
      /\ \A i \in 1..Len(c) : i \in 1..N /\ c[i] = s[i] /\ c[i] \in S
  <2>1. s \in [1..N -> S]
    BY <1>2, Zenon
  <2>2. IsTaken(c, s, N, k, S)
    BY <1>a, <1>0, <2>1, TakeFacts, Zenon
  <2> QED BY <2>2, Zenon DEF IsTaken
<1>4. Len(c) \in Nat
  BY <1>0, <1>3, Zenon
<1>5. ASSUME NEW i \in 1..Len(c), NEW j \in 1..Len(c), c[i] = c[j] PROVE i = j
  <2>1. i \in 1..N /\ j \in 1..N /\ s[i] = s[j]
    BY <1>3, <1>5, Zenon
  <2>2. i < j <=> j < i
    BY <1>2, <2>1, Zenon
  <2> QED BY <2>1, <2>2, <1>0
<1>6. ASSUME NEW n \in S, NEW i \in 1..Len(c), \A j \in 1..Len(c) : c[j] # n
      PROVE  c[i].failures <= n.failures
  <2>1. PICK j \in 1..N : s[j] = n
    BY <1>2, Zenon
  <2>2. j > Len(c)
    BY <2>1, <1>3, <1>6, <1>4, <1>0
  <2>3. i < j /\ i \in 1..N
    BY <2>2, <1>3, <1>4, <1>0
  <2>4. <<c[i], n>> \in ScoreOrder(S)
    BY <1>2, <1>3, <2>1, <2>3, Zenon
  <2>5. ByScore(c[i], n) /\ c[i] \in NodeRecord /\ n \in NodeRecord
    BY <2>4, Zenon DEF ScoreOrder, OnePerAddress
  <2> QED BY <2>5, OrderOfFields, Zenon
<1> QED BY <1>0, <1>3, <1>4, <1>5, <1>6, Zenon DEF N, IsBest

\* The first k nodes by time: the recent first, and no other is more recent.
LEMMA RecentOf ==
  ASSUME NEW S, IsFiniteSet(S), OnePerAddress(S), NEW k \in Nat \ {0},
         NEW c, c = Take(InOrder(S, ByTime), k)
  PROVE  /\ Len(c) \in Nat
         /\ \A i \in 1..Len(c) : c[i] \in S
         /\ \A i, j \in 1..Len(c) : i < j => c[i].time >= c[j].time
         /\ \A n \in S : (\A j \in 1..Len(c) : c[j] # n) => Len(c) = k /\ c[k].time >= n.time
<1> DEFINE s == InOrder(S, ByTime)
           N == Cardinality(S)
<1>0. N \in Nat
  BY FS_CardinalityType, Zenon
<1>1. Lists(s, S, TimeOrder(S))
  BY ByTimeLists, Zenon
<1>a. c = Take(s, k)
  BY Zenon
<1> HIDE DEF s
<1>2. /\ s \in [1..N -> S] /\ \A x \in S : \E i \in 1..N : s[i] = x
      /\ \A i, j \in 1..N : i < j <=> <<s[i], s[j]>> \in TimeOrder(S)
  BY <1>1, Zenon DEF Lists
<1> HIDE DEF N
<1>3. /\ Len(c) = (IF N < k THEN N ELSE k)
      /\ \A i \in 1..Len(c) : i \in 1..N /\ c[i] = s[i] /\ c[i] \in S
  <2>1. s \in [1..N -> S]
    BY <1>2, Zenon
  <2>2. IsTaken(c, s, N, k, S)
    BY <1>a, <1>0, <2>1, TakeFacts, Zenon
  <2> QED BY <2>2, Zenon DEF IsTaken
<1>4. Len(c) \in Nat
  BY <1>0, <1>3, Zenon
<1>5. \A x, y \in S : <<x, y>> \in TimeOrder(S) => x.time >= y.time
  <2>1. \A x, y \in S : <<x, y>> \in TimeOrder(S) => ByTime(x, y)
    BY Zenon DEF TimeOrder
  <2> QED BY <2>1, OrderOfFields, Zenon DEF OnePerAddress
<1>6. ASSUME NEW i \in 1..Len(c), NEW j \in 1..Len(c), i < j PROVE c[i].time >= c[j].time
  BY <1>2, <1>3, <1>5, <1>6, Zenon
<1>7. ASSUME NEW n \in S, \A j \in 1..Len(c) : c[j] # n
      PROVE  Len(c) = k /\ c[k].time >= n.time
  <2>1. PICK j \in 1..N : s[j] = n
    BY <1>2, Zenon
  <2>2. j > Len(c)
    BY <2>1, <1>3, <1>7, <1>4, <1>0
  <2>3. Len(c) = k /\ k \in 1..Len(c) /\ k \in 1..N /\ k < j
    BY <2>2, <1>3, <1>0
  <2>4. <<c[k], n>> \in TimeOrder(S)
    BY <1>2, <1>3, <2>1, <2>3, Zenon
  <2> QED BY <1>3, <1>5, <2>3, <2>4, Zenon
<1> QED BY <1>3, <1>4, <1>6, <1>7, Zenon

\* A part of the nodes has one node for an address too.
LEMMA SubsetOnePerAddress ==
  ASSUME NEW S, IsFiniteSet(S), OnePerAddress(S), NEW U \in SUBSET S
  PROVE  IsFiniteSet(U) /\ OnePerAddress(U)
BY FS_Subset, Zenon DEF OnePerAddress

\* The members of a list without repetitions are as many as the list is long.
LEMMA ListSize ==
  ASSUME NEW c, NEW n \in Nat, \A i, j \in 1..n : c[i] = c[j] => i = j,
         NEW P, P = {c[i] : i \in 1..n}
  PROVE  IsFiniteSet(P) /\ Cardinality(P) = n
<1> DEFINE f == [i \in 1..n |-> c[i]]
<1>1. f \in Bijection(1..n, P)
  BY Zenon DEF Bijection, Injection, IsInjective, Surjection
<1> HIDE DEF f
<1>2. ExistsBijection(1..n, P)
  BY <1>1, Zenon DEF ExistsBijection
<1>3. IsFiniteSet(1..n) /\ Cardinality(1..n) = n
  BY FS_Interval
<1> QED BY <1>2, <1>3, FS_Bijection, Zenon

\* nodes_with_services chooses the best nodes.
LEMMA BestAreChosen ==
  ASSUME NEW t, NEW now, TableOK(t, now), NEW services, NEW protocol, NEW except, NEW limit \in Nat
  PROVE  BestChosenIn(t, services, protocol, except, limit)
<1> DEFINE c == NodesWithServices(t, services, protocol, except, limit)
           S == {n \in t.byScore : /\ IsAllowed(protocol, n.addr)
                                   /\ Includes(n.services, services)
                                   /\ ({n.addr} \cup OtherForms(n.addr)) \cap except = {}}
           best == {n \in {n \in Nodes(t) : /\ IsAllowed(protocol, n.addr)
                                            /\ services \subseteq n.services
                                            /\ n.addr \notin except} :
                      OtherForms(n.addr) \cap except = {}}
           picked == {c[i] : i \in 1..Len(c)}
<1>1. S = best
  BY Zenon DEF TableOK, Includes
<1>2. IsFiniteSet(S) /\ OnePerAddress(S)
  BY NodesOfTable, SubsetOnePerAddress, ZenonT(60) DEF TableOK
<1>3. c = Take(InOrder(S, ByScore), limit)
  BY Zenon DEF NodesWithServices
<1> HIDE DEF c, S
<1>4. IsBest(c, S, limit)
  BY <1>2, <1>3, BestOf, Zenon
<1>5. Cardinality(picked) = Len(c)
  <2>1. Len(c) \in Nat /\ \A i, j \in 1..Len(c) : c[i] = c[j] => i = j
    BY <1>4, Zenon DEF IsBest
  <2>2. picked = {c[i] : i \in 1..Len(c)}
    BY Zenon
  <2> HIDE DEF picked
  <2> QED BY <2>1, <2>2, ListSize
<1>6. picked \subseteq S /\ \A n \in S \ picked, m \in picked : m.failures <= n.failures
  BY <1>4, Zenon DEF IsBest
<1> HIDE DEF best, picked
<1>7. /\ picked \subseteq best
      /\ Cardinality(picked) = Len(c)
      /\ Len(c) = (IF Cardinality(best) < limit THEN Cardinality(best) ELSE limit)
      /\ \A n \in best \ picked, m \in picked : m.failures <= n.failures
  BY <1>1, <1>4, <1>5, <1>6, Zenon DEF IsBest
<1> QED BY <1>7, Zenon DEF BestChosenIn, c, best, picked

\* The addresses chosen differ, and none of them is connected.
LEMMA ChosenPeers ==
  ASSUME NEW t, NEW now, TableOK(t, now), NEW services, NEW protocol, NEW except, NEW limit \in Nat,
         NEW c, c = NodesWithServices(t, services, protocol, except, limit)
  PROVE  /\ Len(c) \in Nat /\ Len(c) <= limit
         /\ \A i \in 1..Len(c) : c[i].addr \in Address /\ c[i].addr \notin except
         /\ \A i, j \in 1..Len(c) : c[i].addr = c[j].addr => i = j
<1> DEFINE S == {n \in t.byScore : /\ IsAllowed(protocol, n.addr)
                                   /\ Includes(n.services, services)
                                   /\ ({n.addr} \cup OtherForms(n.addr)) \cap except = {}}
<1>1. \A n \in S : n \in NodeRecord /\ n.addr \notin except
  BY DEF TableOK, Nodes
<1>2. IsFiniteSet(S) /\ OnePerAddress(S)
  BY NodesOfTable, SubsetOnePerAddress, ZenonT(60) DEF TableOK
<1>3. c = Take(InOrder(S, ByScore), limit)
  BY Zenon DEF NodesWithServices
<1> HIDE DEF S
<1>4. IsBest(c, S, limit)
  BY <1>2, <1>3, BestOf, Zenon
<1>5. Len(c) \in Nat /\ Len(c) <= limit
  BY <1>4 DEF IsBest
<1>6. \A i \in 1..Len(c) : c[i] \in S
  BY <1>4, Zenon DEF IsBest
<1>7. ASSUME NEW i \in 1..Len(c) PROVE c[i].addr \in Address /\ c[i].addr \notin except
  BY <1>1, <1>6, Zenon DEF NodeRecord
<1>8. ASSUME NEW i \in 1..Len(c), NEW j \in 1..Len(c), c[i].addr = c[j].addr PROVE i = j
  <2>1. c[i] = c[j]
    BY <1>2, <1>6, <1>8, Zenon DEF OnePerAddress
  <2> QED BY <1>4, <2>1, Zenon DEF IsBest
<1> QED BY <1>5, <1>7, <1>8, Zenon

\* recently_active_nodes chooses the most recent nodes.
LEMMA RecentAreAdvertised ==
  ASSUME NEW t, NEW now, TableOK(t, now), NEW protocol
  PROVE  RecentAdvertisedIn(t, protocol)
<1> DEFINE c == RecentlyActiveNodes(t, protocol)
           S == {n \in t.byTime : IsAllowed(protocol, n.addr)}
<1>1. S = {n \in Nodes(t) : IsAllowed(protocol, n.addr)}
  BY Zenon DEF TableOK
<1>2. IsFiniteSet(S) /\ OnePerAddress(S)
  BY NodesOfTable, SubsetOnePerAddress, Zenon DEF TableOK
<1>3. c = Take(InOrder(S, ByTime), TableLimit)
  BY Zenon DEF RecentlyActiveNodes
<1> HIDE DEF c, S
<1>4. /\ Len(c) \in Nat
      /\ \A i \in 1..Len(c) : c[i] \in S
      /\ \A i, j \in 1..Len(c) : i < j => c[i].time >= c[j].time
      /\ \A n \in S : (\A j \in 1..Len(c) : c[j] # n) =>
                         Len(c) = TableLimit /\ c[TableLimit].time >= n.time
  BY <1>2, <1>3, RecentOf, TableLimitAssumption, SMTT(60)
<1> DEFINE picked == {c[i] : i \in 1..Len(c)}
<1>5. picked \subseteq S
  BY <1>4, Zenon
<1>6. \A n \in Nodes(t) \ picked :
        IsAllowed(protocol, n.addr) => Len(c) = TableLimit /\ c[TableLimit].time >= n.time
  BY <1>1, <1>4, Zenon
<1> HIDE DEF picked
<1>7. picked \subseteq {n \in Nodes(t) : IsAllowed(protocol, n.addr)}
  BY <1>1, <1>5, Zenon
<1> QED BY <1>4, <1>6, <1>7, Zenon DEF RecentAdvertisedIn, c, picked

\* The fields that NodeTable::save writes for a node.
LEMMA RowFields ==
  ASSUME NEW n \in NodeRecord
  PROVE  /\ Row(n).addr = n.addr /\ Row(n).time = n.time /\ Row(n).services = n.services
         /\ Row(n).failures = n.failures /\ Row(n).readable = TRUE /\ Row(n) \in FileRow
BY Zenon DEF Row, NodeRecord, FileRow

\* The rows saved are those of the best nodes.
LEMMA SavedRows ==
  ASSUME NEW t, NEW now, TableOK(t, now)
  PROVE  \E best : /\ IsBest(best, Nodes(t), TableLimit)
                   /\ Save(t) = [i \in 1..Len(best) |-> Row(best[i])]
                   /\ Len(Save(t)) = Len(best)
                   /\ \A i \in 1..Len(best) : Save(t)[i] = Row(best[i])
                   /\ \A i \in 1..Len(best) :
                        best[i].addr \in DOMAIN t.byAddr /\ best[i] = t.byAddr[best[i].addr]
<1> DEFINE best == Take(InOrder(t.byScore, ByScore), TableLimit)
<1>1. IsBest(best, Nodes(t), TableLimit)
  <2>1. best = Take(InOrder(Nodes(t), ByScore), TableLimit)
    BY Zenon DEF TableOK
  <2>2. TableLimit \in Nat /\ IsFiniteSet(Nodes(t)) /\ OnePerAddress(Nodes(t))
    BY NodesOfTable, TableLimitAssumption, Zenon
  <2> HIDE DEF best
  <2> QED BY <2>1, <2>2, BestOf, Zenon
<1>2. Save(t) = [i \in 1..Len(best) |-> Row(best[i])]
  BY Zenon DEF Save
<1> HIDE DEF best
<1>3. Len(best) \in Nat /\ \A i \in 1..Len(best) : best[i] \in Nodes(t)
  BY <1>1, Zenon DEF IsBest
<1>4. Len(Save(t)) = Len(best) /\ \A i \in 1..Len(best) : Save(t)[i] = Row(best[i])
  <2>1. ASSUME NEW n \in Nat, NEW r, r = [i \in 1..n |-> Row(best[i])]
        PROVE  Len(r) = n /\ \A i \in 1..n : r[i] = Row(best[i])
    BY <2>1
  <2> QED BY <1>2, <1>3, <2>1, Zenon
<1>5. \A i \in 1..Len(best) : best[i].addr \in DOMAIN t.byAddr /\ best[i] = t.byAddr[best[i].addr]
  BY <1>3 DEF Nodes, TableOK
<1> QED BY <1>1, <1>2, <1>4, <1>5, Zenon

\* What NodeTable::save writes are readable rows, one for an address.
LEMMA SavedRowsOK ==
  ASSUME NEW t, NEW now, TableOK(t, now)
  PROVE  /\ RowsOK(Save(t), now) /\ Save(t) \in Seq(FileRow)
         /\ \A i \in 1..Len(Save(t)) : Save(t)[i].readable = TRUE
<1>1. PICK best : /\ IsBest(best, Nodes(t), TableLimit)
                  /\ Save(t) = [i \in 1..Len(best) |-> Row(best[i])]
                  /\ Len(Save(t)) = Len(best)
                  /\ \A i \in 1..Len(best) : Save(t)[i] = Row(best[i])
                  /\ \A i \in 1..Len(best) :
                       best[i].addr \in DOMAIN t.byAddr /\ best[i] = t.byAddr[best[i].addr]
  BY SavedRows, ZenonT(60)
<1>2. Len(best) \in Nat /\ \A i, j \in 1..Len(best) : best[i] = best[j] => i = j
  BY <1>1, Zenon DEF IsBest
<1>3. \A i \in 1..Len(best) : best[i] \in NodeRecord /\ best[i].time <= now
  BY <1>1, Zenon DEF TableOK
<1>4. \A i \in 1..Len(best) :
        /\ Save(t)[i].addr = best[i].addr /\ Save(t)[i].time = best[i].time
        /\ Save(t)[i].services = best[i].services /\ Save(t)[i].failures = best[i].failures
        /\ Save(t)[i].readable = TRUE /\ Save(t)[i] \in FileRow
  BY <1>1, <1>3, RowFields, ZenonT(60)
<1>5. \A i, j \in 1..Len(best) : Save(t)[i].addr = Save(t)[j].addr => i = j
  BY <1>1, <1>2, <1>4
<1>6. \A i \in 1..Len(best) :
        EntryOK(Save(t)[i]) /\ Save(t)[i].failures \in Nat /\ Save(t)[i].time <= now
  BY <1>3, <1>4, Zenon DEF EntryOK, NodeRecord
<1>7. Save(t) \in Seq(FileRow)
  <2>1. PICK r : r = Save(t)
    BY Zenon
  <2>2. r = [i \in 1..Len(best) |-> Row(best[i])] /\ \A i \in 1..Len(best) : Row(best[i]) \in FileRow
    BY <1>1, <1>3, <2>1, RowFields, Zenon
  <2> QED BY <1>2, <2>1, <2>2
<1> QED BY <1>1, <1>2, <1>4, <1>5, <1>6, <1>7, Zenon DEF RowsOK

\* A file that a crash cut short has rows of the table, if it can be read.
LEMMA TornRows ==
  ASSUME NEW rows \in Seq(FileRow), NEW now, RowsOK(rows, now), NEW f \in TornFiles(rows)
  PROVE  /\ RowsOK(f, now) /\ Len(f) <= Len(rows)
         /\ \A i \in 1..Len(f) : /\ f[i].addr = rows[i].addr /\ f[i].time = rows[i].time
                                 /\ f[i].services = rows[i].services
<1> DEFINE Like(g) == /\ Len(g) \in Nat /\ Len(g) <= Len(rows)
                      /\ \A i \in 1..Len(g) : /\ g[i].addr = rows[i].addr /\ g[i].time = rows[i].time
                                              /\ g[i].services = rows[i].services
                                              /\ g[i].failures \in Nat
<1>0. Len(rows) \in Nat /\ \A i \in 1..Len(rows) : rows[i] \in FileRow /\ rows[i].failures \in Nat
  <2>1. Len(rows) \in Nat /\ \A i \in 1..Len(rows) : rows[i] \in FileRow
    OBVIOUS
  <2> QED BY <2>1, Zenon DEF FileRow
<1>1. ASSUME NEW n \in 0..Len(rows), f = SubSeq(rows, 1, n) PROVE Like(f)
  <2>1. Len(f) = n /\ \A i \in 1..n : f[i] = rows[i]
    BY <1>1, <1>0
  <2> QED BY <1>0, <2>1
<1>2. ASSUME NEW n \in 1..Len(rows), NEW r \in FileRow, f = Append(SubSeq(rows, 1, n - 1), r),
             r.addr = rows[n].addr, r.time = rows[n].time, r.services = rows[n].services
      PROVE  Like(f)
  <2> DEFINE g == SubSeq(rows, 1, n - 1)
  <2>1. g \in Seq(FileRow) /\ Len(g) = n - 1 /\ \A i \in 1..(n - 1) : g[i] = rows[i]
    BY <1>0
  <2>2. f = Append(g, r)
    BY <1>2, Zenon
  <2> HIDE DEF g
  <2>3. Len(f) = n /\ f[n] = r /\ \A i \in 1..(n - 1) : f[i] = rows[i]
    BY <2>1, <2>2
  <2>4. r.failures \in Nat
    BY Zenon DEF FileRow
  <2>5. \A i \in 1..n : i = n \/ i \in 1..(n - 1)
    OBVIOUS
  <2> QED BY <1>0, <1>2, <2>3, <2>4, <2>5
<1> HIDE DEF Like
<1>3. Like(f)
  <2>1. CASE f \in {SubSeq(rows, 1, n) : n \in 0..Len(rows)}
    BY <2>1, <1>1, Zenon
  <2>2. CASE f \in {Append(SubSeq(rows, 1, n - 1), [rows[n] EXCEPT !.readable = FALSE]) : n \in 1..Len(rows)}
    <3>1. PICK n \in 1..Len(rows) : f = Append(SubSeq(rows, 1, n - 1), [rows[n] EXCEPT !.readable = FALSE])
      BY <2>2, Zenon
    <3>2. PICK r : r = [rows[n] EXCEPT !.readable = FALSE]
      BY Zenon
    <3>3. r \in FileRow /\ r.addr = rows[n].addr /\ r.time = rows[n].time /\ r.services = rows[n].services
      BY <1>0, <3>2, Zenon DEF FileRow
    <3> QED BY <3>1, <3>2, <3>3, <1>2, Zenon
  <2>3. CASE f \in {Append(SubSeq(rows, 1, n - 1), [rows[n] EXCEPT !.failures = @ \div 10]) :
                      n \in {m \in 1..Len(rows) : rows[m].failures >= 10}}
    <3>1. PICK n \in 1..Len(rows) : f = Append(SubSeq(rows, 1, n - 1), [rows[n] EXCEPT !.failures = @ \div 10])
      BY <2>3, Zenon
    <3>2. PICK r : r = [rows[n] EXCEPT !.failures = @ \div 10]
      BY Zenon
    <3>3. r \in FileRow /\ r.addr = rows[n].addr /\ r.time = rows[n].time /\ r.services = rows[n].services
      <4>1. rows[n].failures \div 10 \in Nat
        BY <1>0
      <4> QED BY <1>0, <3>2, <4>1, Zenon DEF FileRow
    <3> QED BY <3>1, <3>2, <3>3, <1>2, Zenon
  <2> QED BY <2>1, <2>2, <2>3, Zenon DEF TornFiles
<1>4. \A i \in 1..Len(f) : i \in 1..Len(rows)
  BY <1>3, <1>0 DEF Like
<1> QED BY <1>3, <1>4, Zenon DEF RowsOK, EntryOK, Like

\* The node that NodeTable::load makes of a row.
LEMMA RowNode ==
  ASSUME NEW r, EntryOK(r), r.failures \in Nat, NEW preferable
  PROVE  LET n == NodeOfRow(r, preferable) IN
         /\ n \in NodeRecord /\ n.addr = r.addr /\ n.time = r.time
         /\ n.services = r.services /\ n.failures = r.failures
BY Zenon DEF NodeOfRow, Node, NodeRecord, Includes, EntryOK

\* What a save writes is read back, whole or cut short.
LEMMA SavedIsReloaded ==
  ASSUME NEW t, NEW now, TableOK(t, now), NEW preferable
  PROVE  SavedTableReloadsIn(t, preferable)
<1> DEFINE rows == Save(t)
           whole == Load(rows, preferable)
           size == IF Cardinality(Nodes(t)) < TableLimit THEN Cardinality(Nodes(t)) ELSE TableLimit
           plain(n) == [n EXCEPT !.preferable = FALSE, !.failures = 0]
<1>1. PICK best : /\ IsBest(best, Nodes(t), TableLimit)
                  /\ rows = [i \in 1..Len(best) |-> Row(best[i])]
                  /\ Len(rows) = Len(best)
                  /\ \A i \in 1..Len(best) : rows[i] = Row(best[i])
                  /\ \A i \in 1..Len(best) :
                       best[i].addr \in DOMAIN t.byAddr /\ best[i] = t.byAddr[best[i].addr]
  BY SavedRows, ZenonT(60)
<1>2. RowsOK(rows, now) /\ rows \in Seq(FileRow) /\ Loads(rows)
  BY SavedRowsOK, Zenon DEF Loads
<1>3. /\ TableOK(whole, now)
      /\ DOMAIN whole.byAddr = {rows[i].addr : i \in 1..Len(rows)}
      /\ Nodes(whole) = {NodeOfRow(rows[i], preferable) : i \in 1..Len(rows)}
  BY <1>2, LoadReads
<1> HIDE DEF rows, whole
<1>4. \A i \in 1..Len(rows) :
        LET n == NodeOfRow(rows[i], preferable) IN
        /\ n \in NodeRecord /\ n.addr = rows[i].addr /\ n.time = rows[i].time
        /\ n.services = rows[i].services /\ n.failures = rows[i].failures
  BY <1>2, RowNode, Zenon DEF RowsOK
<1>5. Cardinality(Nodes(whole)) = size
  <2> DEFINE c == [i \in 1..Len(rows) |-> NodeOfRow(rows[i], preferable)]
  <2>1. Len(rows) \in Nat /\ \A i, j \in 1..Len(rows) : c[i] = c[j] => i = j
    BY <1>2, <1>4 DEF RowsOK
  <2>2. Nodes(whole) = {c[i] : i \in 1..Len(rows)}
    BY <1>3, Zenon
  <2> DEFINE n == Len(rows)
             P == Nodes(whole)
  <2>3. n \in Nat /\ (\A i, j \in 1..n : c[i] = c[j] => i = j) /\ P = {c[i] : i \in 1..n}
    BY <2>1, <2>2, Zenon
  <2> HIDE DEF c, n, P
  <2>4. Cardinality(P) = n
    BY <2>3, ListSize
  <2>5. Cardinality(Nodes(whole)) = Len(rows)
    BY <2>4, Zenon DEF n, P
  <2> QED BY <1>1, <2>5, Zenon DEF IsBest
<1>6. ASSUME NEW a \in DOMAIN whole.byAddr
      PROVE  \E i \in 1..Len(best) : whole.byAddr[a] = NodeOfRow(rows[i], preferable) /\ best[i].addr = a
  <2>1. whole.byAddr[a] \in Nodes(whole) /\ whole.byAddr[a].addr = a
    BY <1>3, Zenon DEF Nodes, TableOK
  <2>2. PICK i \in 1..Len(rows) : whole.byAddr[a] = NodeOfRow(rows[i], preferable)
    BY <1>3, <2>1, Zenon
  <2>3. rows[i].addr = a
    BY <1>4, <2>1, <2>2, Zenon
  <2>4. best[i] \in NodeRecord
    BY <1>1, <2>2, Zenon DEF TableOK
  <2>5. best[i].addr = a
    BY <1>1, <2>2, <2>3, <2>4, RowFields, Zenon
  <2> QED BY <1>1, <2>2, <2>5, Zenon
<1>7. ASSUME NEW a \in DOMAIN whole.byAddr
      PROVE  /\ Row(whole.byAddr[a]) = Row(t.byAddr[a])
             /\ \A n \in Nodes(t) : n.addr \notin DOMAIN whole.byAddr => t.byAddr[a].failures <= n.failures
  <2>1. PICK i \in 1..Len(best) : whole.byAddr[a] = NodeOfRow(rows[i], preferable) /\ best[i].addr = a
    BY <1>6, Zenon
  <2>2. best[i] = t.byAddr[a] /\ best[i] \in NodeRecord /\ rows[i] = Row(best[i])
    BY <1>1, <2>1, Zenon DEF TableOK
  <2>3. Row(whole.byAddr[a]) = Row(best[i])
    <3>1. PICK m : m = whole.byAddr[a]
      BY Zenon
    <3>2. /\ m.addr = best[i].addr /\ m.time = best[i].time
          /\ m.services = best[i].services /\ m.failures = best[i].failures
      <4>1. m.addr = rows[i].addr /\ m.time = rows[i].time
            /\ m.services = rows[i].services /\ m.failures = rows[i].failures
        <5>1. i \in 1..Len(rows)
          BY <1>1, Zenon
        <5>2. m = NodeOfRow(rows[i], preferable)
          BY <2>1, <3>1, Zenon
        <5> QED BY <1>4, <5>1, <5>2, Zenon
      <4> QED BY <2>2, <4>1, RowFields, Zenon
    <3> QED BY <3>1, <3>2, Zenon DEF Row
  <2>4. ASSUME NEW n \in Nodes(t), n.addr \notin DOMAIN whole.byAddr
        PROVE  t.byAddr[a].failures <= n.failures
    <3>1. \A j \in 1..Len(best) : rows[j].addr = best[j].addr
      <4>1. \A j \in 1..Len(best) : best[j] \in NodeRecord
        BY <1>1, Zenon DEF TableOK
      <4> QED BY <1>1, <4>1, RowFields, Zenon
    <3>2. \A j \in 1..Len(best) : best[j] # n
      BY <1>1, <1>3, <2>4, <3>1
    <3>3. best[i].failures <= n.failures
      BY <1>1, <2>1, <2>4, <3>2, Zenon DEF IsBest
    <3> QED BY <2>2, <3>3, Zenon
  <2> QED BY <2>2, <2>3, <2>4, Zenon
<1>8. ASSUME NEW f \in TornFiles(rows), Loads(f)
      PROVE  /\ IndexesAgreeIn(Load(f, preferable))
             /\ {plain(n) : n \in Nodes(Load(f, preferable))} \subseteq {plain(n) : n \in Nodes(t)}
  <2>1. /\ RowsOK(f, now) /\ Len(f) <= Len(rows)
        /\ \A i \in 1..Len(f) : /\ f[i].addr = rows[i].addr /\ f[i].time = rows[i].time
                                /\ f[i].services = rows[i].services
    BY <1>2, TornRows, Zenon
  <2>2. /\ TableOK(Load(f, preferable), now)
        /\ Nodes(Load(f, preferable)) = {NodeOfRow(f[i], preferable) : i \in 1..Len(f)}
    BY <2>1, LoadReads, ZenonT(60)
  <2>3. IndexesAgreeIn(Load(f, preferable))
    BY <2>2, SMTT(60) DEF IndexesAgreeIn, TableOK
  <2>4. ASSUME NEW i \in 1..Len(f)
        PROVE  \E n \in Nodes(t) : plain(NodeOfRow(f[i], preferable)) = plain(n)
    <3>1. i \in 1..Len(best)
      BY <1>1, <1>2, <2>1 DEF RowsOK
    <3>2. best[i] \in Nodes(t) /\ best[i] \in NodeRecord
      BY <1>1, <3>1, Zenon DEF TableOK, Nodes
    <3>3. PICK m : m = NodeOfRow(f[i], preferable)
      BY Zenon
    <3>4. m \in NodeRecord /\ m.addr = f[i].addr /\ m.time = f[i].time /\ m.services = f[i].services
      BY <2>1, <3>3, RowNode, ZenonT(60) DEF RowsOK
    <3>5. m.addr = best[i].addr /\ m.time = best[i].time /\ m.services = best[i].services
      BY <1>1, <2>1, <3>1, <3>2, <3>4, RowFields, ZenonT(60)
    <3>6. ASSUME NEW x \in NodeRecord, NEW y \in NodeRecord, x.addr = y.addr, x.time = y.time,
                 x.services = y.services, NEW p, p = plain(x), NEW q, q = plain(y)
          PROVE  p = q
      BY <3>6, Zenon DEF NodeRecord
    <3>7. plain(m) = plain(best[i])
      <4> HIDE DEF plain
      <4> QED BY <3>2, <3>4, <3>5, <3>6, Zenon
    <3> QED BY <3>2, <3>3, <3>7, Zenon
  <2> HIDE DEF plain
  <2> QED BY <2>2, <2>3, <2>4, Zenon
<1> HIDE DEF size, plain
<1>9. /\ Loads(rows)
      /\ Cardinality(Nodes(whole)) = size
      /\ \A a \in DOMAIN whole.byAddr :
            /\ Row(whole.byAddr[a]) = Row(t.byAddr[a])
            /\ \A n \in Nodes(t) : n.addr \notin DOMAIN whole.byAddr => t.byAddr[a].failures <= n.failures
      /\ \A f \in TornFiles(rows) :
            Loads(f) => /\ IndexesAgreeIn(Load(f, preferable))
                        /\ {plain(n) : n \in Nodes(Load(f, preferable))} \subseteq {plain(n) : n \in Nodes(t)}
  BY <1>2, <1>5, <1>7, <1>8, Zenon
<1> QED BY <1>9, Zenon DEF SavedTableReloadsIn, rows, whole, size, plain
=============================================================================
