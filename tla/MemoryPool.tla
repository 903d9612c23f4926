----------------------------- MODULE MemoryPool -----------------------------
(***************************************************************************)
(* MemoryPool of the miner crate: the verified transactions that wait for  *)
(* a block, and the orderings they leave it in.                            *)
(*                                                                         *)
(* A pool is a record with the fields of Storage.  An operation is an      *)
(* operator from pools to pools; where the iteration order of a HashSet    *)
(* shows it takes that order as a parameter.  `fault` names the first      *)
(* assertion or expect of the code that failed.                            *)
(*                                                                         *)
(* Transactions are numbers that order like their hashes.  An outpoint is  *)
(* a pair of a transaction and the position of its output.                 *)
(***************************************************************************)
EXTENDS Integers, SequencesExt

CONSTANTS
    Tx,              \* the transactions, a set of numbers
    Inputs,          \* [Tx -> Seq(outpoints)], the outputs a transaction spends
    OutputValues,    \* [Tx -> Seq(Nat)], the values of its outputs
    TxSize,          \* [Tx -> Nat], its size in bytes
    IsFinal,         \* [Tx -> BOOLEAN], false when it may be replaced
    AcceptZeroFee    \* accept_zero_fee_transactions

Null == 0   \* the transaction a coinbase claims to spend

Strategies == {"ByTimestamp", "ByTransactionScore", "ByPackageScore"}

Prevouts(t) == ToSet(Inputs[t])
Parents(t) == {o[1] : o \in Prevouts(t)}
Outpoints(t) == {<<t, i>> : i \in DOMAIN OutputValues[t]}

Hashes == Tx \cup {Null}

NewPool ==
    [counter |-> 0, bytes |-> 0, byHash |-> <<>>, byPrevout |-> <<>>,
     refs |-> [byInput |-> [t \in Hashes |-> {}], pending |-> {},
               byTime |-> {}, byScore |-> {}, byPackage |-> {}],
     fault |-> "none"]

InPool(p) == DOMAIN p.byHash

\* The types of an entry and of the storage with its references and orderings.
Entries ==
    [ancestors : SUBSET Tx, index : Nat, size : Nat, fee : Nat, virtual : Int,
     packageSize : Nat, packageFee : Nat, packageVirtual : Int]

IsStorage(p) ==
    /\ p.counter \in Nat /\ p.bytes \in Nat
    /\ InPool(p) \subseteq Tx /\ \A t \in InPool(p) : p.byHash[t] \in Entries
    /\ \A o \in DOMAIN p.byPrevout : o[1] \in Hashes /\ p.byPrevout[o] \in Tx
    /\ p.refs.byInput \in [Hashes -> SUBSET Tx] /\ p.refs.pending \subseteq Tx
    /\ p.refs.byTime \subseteq [hash : Tx, index : Nat]
    /\ p.refs.byScore \cup p.refs.byPackage \subseteq [hash : Tx, size : Nat, fee : Int]

-----------------------------------------------------------------------------
\* The ordered sets hold copies of what they are ordered by.

TimeKey(t, e) == [hash |-> t, index |-> e.index]
ScoreKey(t, e) == [hash |-> t, size |-> e.size, fee |-> e.fee + e.virtual]
PackageKey(t, e) == [hash |-> t, size |-> e.packageSize, fee |-> e.packageFee + e.packageVirtual]

TimeBefore(k, l) == k.index < l.index \/ (k.index = l.index /\ k.hash < l.hash)

\* The better fee per byte comes first.
ScoreBefore(k, l) ==
    \/ k.fee * l.size > l.fee * k.size
    \/ k.fee * l.size = l.fee * k.size /\ k.hash < l.hash

First(keys, Before(_, _)) ==
    IF keys = {} THEN Null
    ELSE (CHOOSE k \in keys : \A l \in keys \ {k} : Before(k, l)).hash

\* The transaction that leaves next, Null when none may leave.
Top(refs, strategy) ==
    CASE strategy = "ByTimestamp" -> First(refs.byTime, TimeBefore)
      [] strategy = "ByTransactionScore" -> First(refs.byScore, ScoreBefore)
      [] strategy = "ByPackageScore" -> First(refs.byPackage, ScoreBefore)

InsertToOrderings(refs, byHash, ts) ==
    [refs EXCEPT !.byTime = @ \cup {TimeKey(t, byHash[t]) : t \in ts},
                 !.byScore = @ \cup {ScoreKey(t, byHash[t]) : t \in ts},
                 !.byPackage = @ \cup {PackageKey(t, byHash[t]) : t \in ts}]

RemoveFromOrderings(refs, t, e) ==
    [refs EXCEPT !.byTime = @ \ {TimeKey(t, e)},
                 !.byScore = @ \ {ScoreKey(t, e)},
                 !.byPackage = @ \ {PackageKey(t, e)}]

HasInPoolAncestors(byHash, removed, t) == Parents(t) \cap (DOMAIN byHash \ removed) # {}

\* Mutant: a child is released although another parent of it is in the pool.
RemoveReferencesEarly(refs, byHash, removed, t, e) ==
    LET freed == refs.byInput[t] \cap DOMAIN byHash
        ordered == InsertToOrderings(refs, byHash, freed)
    IN  RemoveFromOrderings([ordered EXCEPT !.byInput[t] = {}, !.pending = @ \ (freed \cup {t})], t, e)

\* The children of t that wait for no other transaction may now be ordered.
\* That they are children of t is forgotten, for those that stay in the pool too.
RemoveReferences(refs, byHash, removed, t, e) ==
    LET freed == {d \in refs.byInput[t] \cap DOMAIN byHash : ~HasInPoolAncestors(byHash, removed, d)}
        ordered == InsertToOrderings(refs, byHash, freed)
    IN  RemoveFromOrderings([ordered EXCEPT !.byInput[t] = {}, !.pending = @ \ (freed \cup {t})], t, e)

-----------------------------------------------------------------------------
\* Fees.

Sum(f, S) == FoldSet(LAMBDA x, acc : acc + f[x], 0, S)

\* What the inputs of t are worth to the pool and the transactions in `known`;
\* an output nobody knows is worth nothing.
InputValue(p, known, t) ==
    LET Value(o) == IF o[1] \in known \cup InPool(p) /\ o \in Outpoints(o[1])
                    THEN OutputValues[o[1]][o[2]] ELSE 0
    IN  FoldLeft(LAMBDA acc, o : acc + Value(o), 0, Inputs[t])

OutputValue(t) == Sum(OutputValues[t], DOMAIN OutputValues[t])

TransactionFee(p, known, t) ==
    LET in == InputValue(p, known, t)
    IN  IF in > OutputValue(t) THEN in - OutputValue(t) ELSE 0

-----------------------------------------------------------------------------
\* Storage.

AncestorsOf(p, t) ==
    UNION {{a} \cup p.byHash[a].ancestors : a \in Parents(t) \cap InPool(p)}

Entry(p, known, t) ==
    [ancestors |-> AncestorsOf(p, t), index |-> p.counter + 1, size |-> TxSize[t],
     fee |-> TransactionFee(p, known, t), virtual |-> 0,
     packageSize |-> TxSize[t], packageFee |-> TransactionFee(p, known, t), packageVirtual |-> 0]

Refused(e) == ~AcceptZeroFee /\ e.fee = 0

\* make_entry takes a number even when the transaction is then refused.
Counted(p) == [p EXCEPT !.counter = @ + 1]

\* Storage::insert of an entry: the packages of its ancestors grow by it.
StorageInsert(p, t, e) ==
    LET grown == e.ancestors \cap InPool(p)
        Grown(a) == [p.byHash[a] EXCEPT !.packageSize = @ + e.size, !.packageFee = @ + e.packageFee,
                                        !.packageVirtual = @ + e.packageVirtual]
        ranked == {a \in grown : PackageKey(a, p.byHash[a]) \in p.refs.byPackage}
        entries == [a \in InPool(p) \cup {t} |->
                       IF a = t THEN e ELSE IF a \in grown THEN Grown(a) ELSE p.byHash[a]]
        linked == [p.refs EXCEPT
                     !.byInput = [h \in Hashes |-> IF h \in Parents(t) THEN @[h] \cup {t} ELSE @[h]],
                     !.byPackage = (@ \ {PackageKey(a, p.byHash[a]) : a \in ranked})
                                       \cup {PackageKey(a, Grown(a)) : a \in ranked}]
    IN  [p EXCEPT !.bytes = @ + e.size, !.byHash = entries,
                  !.byPrevout = [o \in DOMAIN @ \cup Prevouts(t) |-> IF o \in Prevouts(t) THEN t ELSE @[o]],
                  !.refs = IF HasInPoolAncestors(p.byHash, {}, t)
                           THEN [linked EXCEPT !.pending = @ \cup {t}]
                           ELSE InsertToOrderings(linked, entries, {t}),
                  !.fault = IF @ = "none" /\ Prevouts(t) \cap DOMAIN p.byPrevout # {} THEN "double_spend" ELSE @]

\* Only t is removed; its descendants stay.
RemoveByHash(p, t) ==
    IF t \notin InPool(p) THEN p
    ELSE LET e == p.byHash[t]
             rest == Restrict(p.byHash, InPool(p) \ {t})
         IN  [p EXCEPT !.bytes = @ - e.size, !.byHash = rest,
                       !.byPrevout = Restrict(@, DOMAIN @ \ Prevouts(t)),
                       !.refs = RemoveReferences(@, rest, {}, t, e),
                       !.fault = IF /\ @ = "none"
                                    /\ \E o \in Prevouts(t) :
                                          o \notin DOMAIN p.byPrevout \/ p.byPrevout[o] # t
                                 THEN "not_spent" ELSE @]

RemoveAll(p, ts) == FoldSet(LAMBDA t, q : RemoveByHash(q, t), p, ts)

\* The least set that contains S and whatever Next finds for its members.
Closure(Next(_), S) == FoldSet(LAMBDA t, acc : acc \cup UNION {Next(u) : u \in acc}, S, Tx)

SpendersOf(p, t) == {p.byPrevout[o] : o \in DOMAIN p.byPrevout \cap Outpoints(t)}

\* The transaction that spends an output goes, with all that depends on it.
RemoveByPrevout(p, o) ==
    IF o \notin DOMAIN p.byPrevout THEN p
    ELSE RemoveAll(p, Closure(LAMBDA t : SpendersOf(p, t), {p.byPrevout[o]}))

RemoveByPrevouts(p, t) == FoldLeft(RemoveByPrevout, p, Inputs[t])

-----------------------------------------------------------------------------
\* A transaction inserted after its descendants.

Descendants(p, t) == Closure(LAMBDA d : p.refs.byInput[d], p.refs.byInput[t])

\* sort_by on a short vector: elements are put in front of the sorted rest one
\* by one, from the last to the first, and move behind those that are less.
\* Unrelated transactions compare equal.
SortDescendants(p, s) ==
    LET IsLess(d, e) == /\ e \notin p.byHash[d].ancestors
                        /\ d \in p.byHash[e].ancestors
        InsertHead(e, rest) ==
            LET less == {n \in 0..Len(rest) : \A i \in 1..n : IsLess(rest[i], e)}
            IN  InsertAt(rest, Max(less) + 1, e)
    IN  FoldRight(InsertHead, s, <<>>)

\* The sort looks up every descendant as soon as there are two.
DescendantsMissing(p, ds) == Cardinality(ds) > 1 /\ ~(ds \subseteq InPool(p))

MakeAndInsert(p, known, t) ==
    LET e == Entry(p, known, t)
    IN  IF Refused(e) THEN Counted(p) ELSE StorageInsert(Counted(p), t, e)

\* The pool after insert_verified; hash sets are iterated in the order of `hashOrder`.
InsertVerified(p, known, hashOrder, t) ==
    LET e == Entry(p, known, t)
        ds == Descendants(p, t)
        found == SelectSeq(hashOrder, LAMBDA d : d \in ds \cap InPool(p))
        sorted == SortDescendants(p, found)
        own == StorageInsert(Counted(RemoveAll(p, ds)), t, e)
    IN  IF Refused(e) THEN Counted(p)
        ELSE IF DescendantsMissing(p, ds)
        THEN [Counted(p) EXCEPT !.fault = IF @ = "none" THEN "by_input" ELSE @]
        ELSE FoldLeft(LAMBDA q, d : MakeAndInsert(q, known, d), own, sorted)

-----------------------------------------------------------------------------
\* Ordered removal and iteration.

\* The transactions an iterator over the pool yields, up to n of them.
Iterate(p, strategy, n) ==
    LET Step(it, i) ==
            LET t == Top(it.refs, strategy)
            IN  IF t = Null THEN it
                ELSE [refs |-> RemoveReferences(it.refs, p.byHash, it.removed \cup {t}, t, p.byHash[t]),
                      removed |-> it.removed \cup {t},
                      yielded |-> Append(it.yielded, t)]
    IN  FoldLeftDomain(Step, [refs |-> p.refs, removed |-> {}, yielded |-> <<>>],
                       [i \in 1..n |-> i]).yielded

\* remove_n_with_strategy: the pool that is left and the transactions removed, in order.
RemoveNWithStrategy(p, n, strategy) ==
    LET Step(acc, i) ==
            LET t == Top(acc.pool.refs, strategy)
            IN  IF t = Null THEN acc
                ELSE [pool |-> RemoveByHash(acc.pool, t), removed |-> Append(acc.removed, t)]
    IN  FoldLeftDomain(Step, [pool |-> p, removed |-> <<>>], [i \in 1..n |-> i])

\* A new virtual fee counts in the packages of the ancestors, not in t's own.
SetVirtualFee(p, t, v) ==
    LET change == v - p.byHash[t].virtual
        ancestors == p.byHash[t].ancestors \cap InPool(p)
        New(a) == IF a = t THEN [p.byHash[a] EXCEPT !.virtual = v]
                  ELSE [p.byHash[a] EXCEPT !.packageVirtual = @ + change]
        moved == {a \in ancestors : PackageKey(a, p.byHash[a]) \in p.refs.byPackage}
        scored == {t} \cap {k.hash : k \in p.refs.byScore}
    IN  IF t \notin InPool(p) THEN p
        ELSE [p EXCEPT
                !.byHash = [a \in InPool(p) |-> IF a \in ancestors \cup {t} THEN New(a) ELSE @[a]],
                !.refs.byScore = (@ \ {ScoreKey(a, p.byHash[a]) : a \in scored})
                                     \cup {ScoreKey(a, New(a)) : a \in scored},
                !.refs.byPackage = (@ \ {PackageKey(a, p.byHash[a]) : a \in moved})
                                     \cup {PackageKey(a, New(a)) : a \in moved}]

-----------------------------------------------------------------------------
\* Double spends.

SpentInPool(p, o) == o \in DOMAIN p.byPrevout

\* The outpoints of t that transactions of the pool spend too.
DoubleSpends(p, t) == {o \in Prevouts(t) : SpentInPool(p, o)}

FinalDoubleSpend(p, t) == \E o \in DoubleSpends(p, t) : IsFinal[p.byPrevout[o]]

\* The outputs that go from the pool when t replaces what it conflicts with.
DependentSpends(p, t) ==
    LET replaced == {p.byPrevout[o] : o \in DoubleSpends(p, t)}
    IN  UNION {Outpoints(u) : u \in Closure(LAMBDA d : SpendersOf(p, d), replaced)}
=============================================================================
