--------------------------- MODULE KvStackProofs ---------------------------
(***************************************************************************)
(* The key-value layers implement KvStore, for any keys, values and        *)
(* transactions, any flush interval, any cache capacity and any number of  *)
(* readers; then what other threads read while the writer and its flush    *)
(* are under way, and what a crash of the process leaves.                  *)
(***************************************************************************)
EXTENDS KvStack, FiniteSetTheorems, TLAPS

-----------------------------------------------------------------------------
(* Facts about keys, states and layers.                                    *)

\* No two keys have the same column and identifier.
LEMMA RawKeyInjective ==
    ASSUME NEW k \in Keys, NEW l \in Keys, RawKey(k) = RawKey(l)
    PROVE  k = l
<1>1. k.kind \in Kinds /\ l.kind \in Kinds
  BY KeysAssumption, Zenon
<1>2. COL[k.kind] = COL[l.kind] /\ k.id = l.id
  BY Zenon DEF RawKey
<1>3. k.kind = l.kind
  BY <1>1, <1>2 DEF COL, Kinds
<1> QED BY <1>2, <1>3, KeysAssumption, Zenon

\* A transaction gives every key a state.
LEMMA EffectType ==
    ASSUME NEW t \in Seq(Operation)
    PROVE  Effect(t) \in [Keys -> KeyState]
<1> SUFFICES ASSUME NEW k \in Keys PROVE Effect(t)[k] \in KeyState
  BY Zenon DEF Effect
<1>1. CASE \E i \in DOMAIN t : IsLast(t, i, k)
  <2> DEFINE l == CHOOSE i \in DOMAIN t : IsLast(t, i, k)
  <2>1. l \in DOMAIN t
    BY <1>1, Zenon
  <2>2. t[l] \in Operation
    BY <2>1
  <2>3. Effect(t)[k] = t[l].state
    BY <1>1, Zenon DEF Effect
  <2> HIDE DEF l
  <2> QED BY <2>2, <2>3, Zenon DEF Operation
<1>2. CASE ~\E i \in DOMAIN t : IsLast(t, i, k)
  BY <1>2, Zenon DEF Effect, KeyState
<1> QED BY <1>1, <1>2, Zenon

\* A drained fork has the effect of the fork's overlay.
LEMMA ForkEffect ==
    ASSUME NEW f \in [Keys -> KeyState], NEW t \in ForkTransactions(f)
    PROVE  t \in Seq(Operation) /\ Effect(t) = f
<1>1. PICK o \in KeyOrders :
        t = [i \in DOMAIN o |-> [key |-> o[i], state |-> f[o[i]]]]
  BY Zenon DEF ForkTransactions
<1> DEFINE n == Cardinality(Keys)
<1>2. /\ o \in [1..n -> Keys]
      /\ \A k \in Keys : \E i \in 1..n : o[i] = k
      /\ \A i, j \in 1..n : o[i] = o[j] => i = j
  BY Zenon DEF KeyOrders
<1>3. t \in [1..n -> Operation]
  BY <1>1, <1>2, Zenon DEF Operation
<1>4. \A i \in 1..n : t[i].key = o[i] /\ t[i].state = f[o[i]]
  BY <1>1, <1>2, Zenon
<1>5. Effect(t) = f
  <2> SUFFICES ASSUME NEW k \in Keys PROVE Effect(t)[k] = f[k]
    BY Zenon DEF Effect
  <2>1. PICK i \in 1..n : o[i] = k
    BY <1>2, Zenon
  <2>2. \A j \in 1..n : IsLast(t, j, k) <=> j = i
    BY <2>1, <1>2, <1>3, <1>4 DEF IsLast
  <2>3. (CHOOSE j \in DOMAIN t : IsLast(t, j, k)) = i
    BY <2>2, <1>3, Zenon
  <2> QED BY <2>1, <2>2, <2>3, <1>3, <1>4, Zenon DEF Effect
<1>6. t \in Seq(Operation)
  <2>1. n \in Nat
    BY KeysAssumption, FS_CardinalityType, Zenon
  <2> QED BY <2>1, <1>3
<1> QED BY <1>5, <1>6, Zenon

\* Laying three layers over one another does not depend on the grouping.
LEMMA OverAssociative ==
    ASSUME NEW a, NEW b, NEW c
    PROVE  Over(Over(a, b), c) = Over(a, Over(b, c))
BY Zenon DEF Over

\* A layer with nothing in it changes no map.
LEMMA OverNothing ==
    ASSUME NEW m \in [Keys -> KeyState]
    PROVE  Over(Nothing, m) = m /\ Over(m, Nothing) = m
BY Zenon DEF Over, Nothing

\* A map over a map is a map.
LEMMA OverType ==
    ASSUME NEW a \in [Keys -> KeyState], NEW b \in [Keys -> KeyState]
    PROVE  Over(a, b) \in [Keys -> KeyState]
BY Zenon DEF Over

\* A batch makes the disk what the drained layer over the disk was.
LEMMA BatchWritten ==
    ASSUME disk \in [RawKeys -> Values \cup {Unknown}],
           NEW s \in [Keys -> KeyState],
           disk' = DiskWrite(s)
    PROVE  /\ disk' \in [RawKeys -> Values \cup {Unknown}]
           /\ \A k \in Keys : DiskStates'[k] = IF s[k] = Unknown THEN DiskStates[k]
                                             ELSE IF s[k] = Delete THEN Unknown
                                             ELSE s[k]
           /\ DiskView' = Options(Over(s, DiskStates))
<1>1. ASSUME NEW k \in Keys
      PROVE  disk'[RawKey(k)] = IF s[k] = Unknown THEN disk[RawKey(k)]
                                ELSE IF s[k] = Delete THEN Unknown ELSE s[k]
  <2>1. RawKey(k) \in RawKeys
    BY Zenon DEF RawKeys
  <2>2. \A l \in Keys : RawKey(l) = RawKey(k) <=> l = k
    BY RawKeyInjective, Zenon
  <2>3. CASE s[k] = Unknown
    BY <2>1, <2>2, <2>3, Zenon DEF DiskWrite
  <2>4. CASE s[k] # Unknown
    <3>1. (CHOOSE l \in Keys : RawKey(l) = RawKey(k) /\ s[l] # Unknown) = k
      BY <2>2, <2>4, Zenon
    <3> QED BY <2>1, <2>2, <2>4, <3>1, Zenon DEF DiskWrite
  <2> QED BY <2>3, <2>4, Zenon
<1>2. disk' \in [RawKeys -> Values \cup {Unknown}]
  <2>1. \A r \in RawKeys : disk'[r] \in Values \cup {Unknown}
    BY <1>1, ZenonT(60) DEF RawKeys, KeyState
  <2> QED BY <2>1, Zenon DEF DiskWrite
<1>3. \A k \in Keys : DiskStates'[k] = IF s[k] = Unknown THEN DiskStates[k]
                                    ELSE IF s[k] = Delete THEN Unknown
                                    ELSE s[k]
  BY <1>1, Zenon DEF DiskStates, DiskGet
<1>4. DiskView' = Options(Over(s, DiskStates))
  BY <1>3, Zenon DEF DiskView, Options, Over, IntoOption
<1> QED BY <1>2, <1>3, <1>4, Zenon

\* The layer with nothing in it is a map.
LEMMA NothingType == Nothing \in [Keys -> KeyState]
BY Zenon DEF Nothing, KeyState

\* The structure of the layers is an inductive invariant.
THEOREM StructureInvariant == Spec => []Structure
<1>1. Init => Structure
  BY NothingType DEF Init, Structure
<1>2. Structure /\ [Next]_vars => Structure'
  <2> SUFFICES ASSUME Structure, [Next]_vars PROVE Structure'
    BY Zenon
  <2> USE NothingType
  <2>1. CASE Open
    BY <2>1, Zenon DEF Open, Structure
  <2>2. CASE Crash
    BY <2>2 DEF Crash, Forget, Structure
  <2>3. CASE Drop
    BY <2>3, Zenon DEF Drop, Structure
  <2>4. ASSUME NEW t \in Transactions, Write(t) PROVE Structure'
    <3>1. t \in Seq(Operation)
      BY KeysAssumption, Zenon
    <3>2. /\ UNCHANGED <<disk, overlay, drained, fork>> /\ pc = "idle"
          /\ fork = NoFork /\ pc' = "cache" /\ tx' = t /\ source' = "db"
      BY <2>4, Zenon DEF Write
    <3>3. up'
      BY <2>4, Zenon DEF Write
    <3> QED BY <3>1, <3>2, <3>3, Zenon DEF Structure
  <2>5. ASSUME NEW t \in Transactions, ForkWrite(t) PROVE Structure'
    <3>1. Over(Effect(t), fork) \in [Keys -> KeyState]
      BY <2>5, KeysAssumption, EffectType, OverType, Zenon DEF ForkWrite, Structure
    <3> QED BY <2>5, <3>1, Zenon DEF ForkWrite, Structure
  <2>6. CASE CacheWrite
    <3>1. UNCHANGED <<disk, up, overlay, drained, fork, pc, tx, source>>
      BY <2>6, Zenon DEF CacheWrite
    <3> QED BY <3>1, Zenon DEF Structure
  <2>7. CASE OverlayWrite
    <3>1. Over(Effect(tx), overlay) \in [Keys -> KeyState]
      BY EffectType, OverType, Zenon DEF Structure
    <3>2. /\ UNCHANGED <<disk, up, drained>> /\ pc = "cache"
          /\ overlay' = Over(Effect(tx), overlay) /\ fork' = NoFork
          /\ pc' \in {"drain", "idle"} /\ tx' = <<>>
      BY <2>7, Zenon DEF OverlayWrite, OverlayWritten
    <3> QED BY <3>1, <3>2 DEF Structure
  <2>8. CASE Drain
    BY <2>8, Zenon DEF Drain, DrainTransaction, Structure
  <2>9. CASE FlushWrite
    <3>1. disk' \in [RawKeys -> Values \cup {Unknown}]
      BY <2>9, BatchWritten, Zenon DEF FlushWrite, Structure
    <3> QED BY <2>9, <3>1, Zenon DEF FlushWrite, Structure
  <2>10. CASE Fork
    BY <2>10, Zenon DEF Fork, Structure
  <2>11. CASE ForkDrop
    BY <2>11, Zenon DEF ForkDrop, Structure
  <2>12. CASE Switch
    BY <2>12, ForkEffect, Zenon DEF Switch, Structure
  <2>13. ASSUME NEW r \in Readers, NEW k \in Keys, GetBegin(r, k) PROVE Structure'
    BY <2>13, Zenon DEF GetBegin, Structure
  <2>14. ASSUME NEW r \in Readers, GetCached(r) PROVE Structure'
    BY <2>14, Zenon DEF GetCached, Structure
  <2>15. ASSUME NEW r \in Readers, GetOverlay(r) PROVE Structure'
    BY <2>15, Zenon DEF GetOverlay, Structure
  <2>16. ASSUME NEW r \in Readers, GetDisk(r) PROVE Structure'
    BY <2>16, Zenon DEF GetDisk, Structure
  <2>17. CASE UNCHANGED vars
    BY <2>17, Zenon DEF vars, Structure
  <2> QED
    BY <2>1, <2>2, <2>3, <2>4, <2>5, <2>6, <2>7, <2>8, <2>9, <2>10, <2>11,
       <2>12, <2>13, <2>14, <2>15, <2>16, <2>17, StackAssumption, Zenon DEF Next
<1> QED BY <1>1, <1>2, PTL DEF Spec

-----------------------------------------------------------------------------
(* The refinement.                                                         *)

BranchView == IF fork = NoFork THEN NoFork ELSE Options(Over(fork, BaseStates))

\* A map of options is never the mark of a missing branch.
LEMMA OptionsNotEmpty == ASSUME NEW m PROVE Options(m) # NoFork
<1>1. BestNumber \in DOMAIN Options(m)
  BY StackAssumption, Zenon DEF Options
<1>2. DOMAIN NoFork = {}
  BY DEF NoFork
<1> QED BY <1>1, <1>2, Zenon

\* Applying a transaction to the options of some layers is laying its
\* effect over them.
LEMMA ApplyIsOver ==
    ASSUME NEW t \in Seq(Operation), NEW m \in [Keys -> KeyState]
    PROVE  Abstract!Apply(t, Options(m)) = Options(Over(Effect(t), m))
<1>1. Abstract!Effect(t) = Effect(t)
  BY Zenon DEF Abstract!Effect, Effect, Abstract!IsLast, IsLast
<1> QED BY <1>1, Zenon DEF Abstract!Apply, Options, Over, IntoOption, Abstract!IntoOption

\* A step that leaves the layers and the fork alone is a stutter.
LEMMA Stutter ==
    ASSUME UNCHANGED <<disk, overlay, drained, fork>>
    PROVE  UNCHANGED <<View, DiskView, BranchView>>
BY Zenon DEF View, DiskView, BranchView, BaseStates, DiskStates, DiskGet, Options, Over

\* The cache, the overlay with its flush in two steps, the disk and the
\* overlay of a fork implement the transactional map KvStore.
THEOREM StackImplementsStore == Spec => ImplementsStore
<1>1. Init => Abstract!Init
  <2> SUFFICES ASSUME Init PROVE Abstract!Init
    BY Zenon
  <2>1. \A k \in Keys : DiskGet(k) = Unknown
    BY Zenon DEF Init, DiskGet, RawKeys
  <2> QED BY <2>1, Zenon DEF Init, Abstract!Init, View, DiskView, BaseStates, DiskStates,
                      Options, Over, Nothing, IntoOption, Abstract!NoBranch, NoFork
<1>2. Structure /\ [Next]_vars => [Abstract!Next]_<<View, DiskView, BranchView>>
  <2> SUFFICES ASSUME Structure, [Next]_vars
               PROVE  Abstract!Next \/ UNCHANGED <<View, DiskView, BranchView>>
    BY Zenon
  <2>a. DiskStates \in [Keys -> KeyState]
    BY Zenon DEF Structure, DiskStates, DiskGet, RawKeys, KeyState
  <2>b. BaseStates \in [Keys -> KeyState]
    BY <2>a, OverType, Zenon DEF Structure, BaseStates
  <2>1. CASE Open
    BY <2>1, Stutter, Zenon DEF Open
  <2>2. CASE Crash
    <3>1. DiskStates' = DiskStates
      BY <2>2, Zenon DEF Crash, DiskStates, DiskGet
    <3>2. View' = DiskView
      BY <2>2, <3>1, <2>a, OverNothing, Zenon DEF Crash, Forget, View, DiskView, BaseStates, Options
    <3>3. DiskView' = DiskView
      BY <3>1, Zenon DEF DiskView, Options
    <3>4. fork' = NoFork
      BY <2>2, Zenon DEF Crash, Forget
    <3>5. Abstract!Crash
      BY <3>2, <3>3, <3>4, Zenon DEF Abstract!Crash, Abstract!NoBranch, NoFork
    <3> QED BY <3>5, Zenon DEF Abstract!Next
  <2>3. CASE Drop
    BY <2>3, Stutter, Zenon DEF Drop
  <2>4. ASSUME NEW t \in Transactions, Write(t)
        PROVE  UNCHANGED <<View, DiskView, BranchView>>
    BY <2>4, Stutter, Zenon DEF Write
  <2>5. ASSUME NEW t \in Transactions, ForkWrite(t) PROVE Abstract!Next
    <3>1. t \in Seq(Operation)
      BY KeysAssumption, Zenon
    <3>2. UNCHANGED <<disk, overlay, drained>>
      BY <2>5, Zenon DEF ForkWrite
    <3>3. UNCHANGED <<View, DiskView, BaseStates>>
      BY <3>2, Zenon DEF View, DiskView, BaseStates, DiskStates, DiskGet, Options, Over
    <3>4. fork \in [Keys -> KeyState] /\ fork # NoFork /\ fork' = Over(Effect(t), fork)
      BY <2>5, Zenon DEF ForkWrite, Structure
    <3>5. fork' # NoFork
      <4>1. BestNumber \in DOMAIN Over(Effect(t), fork)
        BY StackAssumption, Zenon DEF Over
      <4>2. DOMAIN NoFork = {}
        BY DEF NoFork
      <4> QED BY <4>1, <4>2, <3>4, Zenon
    <3>6. Over(fork, BaseStates) \in [Keys -> KeyState]
      BY <3>4, <2>b, OverType, Zenon
    <3>7. Options(Over(fork, BaseStates))' = Options(Over(Effect(t), Over(fork, BaseStates)))
      BY <3>3, <3>4, OverAssociative DEF Options
    <3>8. BranchView' = Abstract!Apply(t, BranchView)
      BY <3>1, <3>4, <3>5, <3>6, <3>7, ApplyIsOver, Zenon DEF BranchView
    <3>9. Abstract!BranchCommit(t)
      BY <3>3, <3>4, <3>8, OptionsNotEmpty, Zenon
         DEF Abstract!BranchCommit, Abstract!NoBranch, BranchView, NoFork
    <3> QED BY <3>9, Zenon DEF Abstract!Next
  <2>6. CASE CacheWrite
    BY <2>6, Stutter, Zenon DEF CacheWrite
  <2>7. CASE OverlayWrite
    <3>1. /\ UNCHANGED <<disk, drained>> /\ pc = "cache"
          /\ overlay' = Over(Effect(tx), overlay) /\ fork' = NoFork
      BY <2>7, Zenon DEF OverlayWrite, OverlayWritten
    <3>2. DiskStates' = DiskStates /\ DiskView' = DiskView
      BY <3>1, Zenon DEF DiskStates, DiskGet, DiskView, Options
    <3>3. BaseStates' = Over(Effect(tx), BaseStates)
      BY <3>1, <3>2, OverAssociative DEF BaseStates
    <3>4. View' = Options(Over(Effect(tx), BaseStates))
      BY <3>3, Zenon DEF View, Options
    <3>5. CASE source = "db" /\ fork = NoFork /\ tx \in Transactions
      <4>1. View' = Abstract!Apply(tx, View)
        BY <3>4, <2>b, ApplyIsOver, Zenon DEF Structure, View
      <4>2. Abstract!Commit(tx)
        BY <4>1, <3>1, <3>2, <3>5, Zenon DEF Abstract!Commit, Abstract!NoBranch, NoFork
      <4> QED BY <4>2, <3>5, Zenon DEF Abstract!Next
    <3>6. CASE source = "fork" /\ fork # NoFork /\ Effect(tx) = fork
      <4>1. Abstract!Switch
        BY <3>1, <3>2, <3>4, <3>6, OptionsNotEmpty, Zenon
           DEF Abstract!Switch, Abstract!NoBranch, NoFork
      <4> QED BY <4>1, Zenon DEF Abstract!Next
    <3> QED BY <3>1, <3>5, <3>6, Zenon DEF Structure
  <2>8. CASE Drain
    <3>1. /\ UNCHANGED <<disk, fork>> /\ drained = Nothing
          /\ overlay' = Nothing /\ drained' = overlay
      BY <2>8, Zenon DEF Drain, DrainTransaction, Structure
    <3>2. DiskStates' = DiskStates /\ DiskView' = DiskView
      BY <3>1, Zenon DEF DiskStates, DiskGet, DiskView, Options
    <3>3. Over(overlay, DiskStates) \in [Keys -> KeyState]
      BY <2>a, OverType, Zenon DEF Structure
    <3>4. BaseStates' = BaseStates
      BY <3>1, <3>2, <3>3, <2>a, OverNothing, Zenon DEF BaseStates
    <3> QED BY <3>1, <3>2, <3>4, Zenon DEF View, BranchView, Options, Over
  <2>9. CASE FlushWrite
    <3>1. /\ UNCHANGED <<overlay, fork>> /\ overlay = Nothing /\ fork = NoFork
          /\ disk' = DiskWrite(drained) /\ drained' = Nothing
      BY <2>9, Zenon DEF FlushWrite, Structure
    <3>2. DiskView' = Options(Over(drained, DiskStates))
      BY <3>1, BatchWritten, Zenon DEF Structure
    <3>3. disk' \in [RawKeys -> Values \cup {Unknown}]
      BY <3>1, BatchWritten, Zenon DEF Structure
    <3>4. DiskStates' \in [Keys -> KeyState]
      BY <3>3, Zenon DEF DiskStates, DiskGet, RawKeys, KeyState
    <3>5. Over(drained, DiskStates) \in [Keys -> KeyState]
      BY <2>a, OverType, Zenon DEF Structure
    <3>6. View = DiskView'
      BY <3>1, <3>2, <3>5, OverNothing, Zenon DEF View, BaseStates
    <3>7. View' = DiskView'
      BY <3>1, <3>4, OverNothing, Zenon DEF View, BaseStates, DiskView, Options
    <3>8. Abstract!Persist
      BY <3>1, <3>6, <3>7, Zenon DEF Abstract!Persist
    <3> QED BY <3>8, Zenon DEF Abstract!Next
  <2>10. CASE Fork
    <3>1. /\ UNCHANGED <<disk, overlay, drained>>
          /\ fork = NoFork /\ fork' = Nothing
      BY <2>10, Zenon DEF Fork
    <3>2. UNCHANGED <<View, DiskView, BaseStates>>
      BY <3>1, Zenon DEF View, DiskView, BaseStates, DiskStates, DiskGet, Options, Over
    <3>3. fork' # NoFork
      <4>1. BestNumber \in DOMAIN Nothing
        BY StackAssumption, Zenon DEF Nothing
      <4>2. DOMAIN NoFork = {}
        BY DEF NoFork
      <4> QED BY <4>1, <4>2, <3>1, Zenon
    <3>4. Options(Over(fork, BaseStates))' = View
      BY <3>1, <3>2, <2>b, OverNothing, Zenon DEF View, Options
    <3>5. Abstract!Branch
      BY <3>1, <3>2, <3>3, <3>4, Zenon DEF Abstract!Branch, Abstract!NoBranch, NoFork
    <3> QED BY <3>5, Zenon DEF Abstract!Next
  <2>11. CASE ForkDrop
    <3>1. UNCHANGED <<disk, overlay, drained>> /\ fork' = NoFork
      BY <2>11, Zenon DEF ForkDrop
    <3>2. UNCHANGED <<View, DiskView>>
      BY <3>1, Zenon DEF View, DiskView, BaseStates, DiskStates, DiskGet, Options, Over
    <3>3. Abstract!Abandon
      BY <3>1, <3>2, Zenon DEF Abstract!Abandon, Abstract!NoBranch, NoFork
    <3> QED BY <3>3, Zenon DEF Abstract!Next
  <2>12. CASE Switch
    BY <2>12, Stutter, Zenon DEF Switch
  <2>13. ASSUME NEW r \in Readers, NEW k \in Keys, GetBegin(r, k)
         PROVE  UNCHANGED <<View, DiskView, BranchView>>
    BY <2>13, Stutter, Zenon DEF GetBegin
  <2>14. ASSUME NEW r \in Readers, GetCached(r)
         PROVE  UNCHANGED <<View, DiskView, BranchView>>
    BY <2>14, Stutter, Zenon DEF GetCached
  <2>15. ASSUME NEW r \in Readers, GetOverlay(r)
         PROVE  UNCHANGED <<View, DiskView, BranchView>>
    BY <2>15, Stutter, Zenon DEF GetOverlay
  <2>16. ASSUME NEW r \in Readers, GetDisk(r)
         PROVE  UNCHANGED <<View, DiskView, BranchView>>
    BY <2>16, Stutter, Zenon DEF GetDisk
  <2>17. CASE UNCHANGED vars
    BY <2>17, Stutter, Zenon DEF vars
  <2> QED
    BY <2>1, <2>2, <2>3, <2>4, <2>5, <2>6, <2>7, <2>8, <2>9, <2>10, <2>11,
       <2>12, <2>13, <2>14, <2>15, <2>16, <2>17, StackAssumption, Zenon DEF Next
<1>3. Structure /\ [Next]_vars => [Abstract!Next]_(Abstract!vars)
  BY <1>2, Zenon DEF Abstract!vars, BranchView
<1> QED BY <1>1, <1>3, StructureInvariant, PTL
        DEF Spec, ImplementsStore, Abstract!Spec

-----------------------------------------------------------------------------
(* The best block is never torn.                                           *)

\* A layer knows the same of the two keys of the best block.
Paired(m) ==
    \A s \in {Delete, Unknown} : m[BestNumber] = s <=> m[BestHash] = s

\* Every layer is paired, and so is what the writer holds.
BestPaired ==
    /\ Paired(overlay) /\ Paired(drained) /\ Paired(DiskStates)
    /\ fork # NoFork => Paired(fork)

\* Best number and best hash stay together when one map is laid over another.
LEMMA OverPaired ==
    ASSUME NEW a \in [Keys -> KeyState], NEW b \in [Keys -> KeyState],
           Paired(a), Paired(b)
    PROVE  Paired(Over(a, b))
BY StackAssumption, Zenon DEF Paired, Over

\* Best number and best hash are both missing from nothing.
LEMMA NothingPaired == Paired(Nothing)
BY StackAssumption, Zenon DEF Paired, Nothing

\* Number and hash of the best block are written, deleted and lost together,
\* so that neither a restart nor a fork panics with "Inconsistent DB".
THEOREM BestBlockTogether == Spec => []BestBlockNeverTorn
<1> USE DEF NoFork
<1>1. Init => BestPaired
  <2> SUFFICES ASSUME Init PROVE BestPaired
    BY Zenon
  <2>1. DiskStates = Nothing
    BY Zenon DEF Init, DiskStates, DiskGet, RawKeys, Nothing
  <2> QED BY <2>1, NothingPaired, Zenon DEF Init, BestPaired
<1>2. Structure /\ Structure' /\ BestPaired /\ [Next]_vars => BestPaired'
  <2> SUFFICES ASSUME Structure, Structure', BestPaired, [Next]_vars PROVE BestPaired'
    BY Zenon
  <2> USE NothingPaired
  <2>a. ASSUME UNCHANGED disk PROVE DiskStates' = DiskStates
    BY <2>a, Zenon DEF DiskStates, DiskGet
  <2>b. ASSUME NEW t \in Transactions
        PROVE  Paired(Effect(t)) /\ Effect(t) \in [Keys -> KeyState]
    BY BestBlockAssumption, KeysAssumption, EffectType, Zenon DEF Paired
  <2>c. ASSUME UNCHANGED <<disk, overlay, drained, fork>> PROVE BestPaired'
    BY <2>a, <2>c, Zenon DEF BestPaired, Paired
  <2>1. CASE Open
    BY <2>1, <2>c, Zenon DEF Open
  <2>2. CASE Crash
    <3>1. UNCHANGED disk /\ overlay' = Nothing /\ drained' = Nothing /\ fork' = NoFork
      BY <2>2, Zenon DEF Crash, Forget
    <3> QED BY <3>1, <2>a, Zenon DEF BestPaired, Paired
  <2>3. CASE Drop
    BY <2>3, <2>c, Zenon DEF Drop
  <2>4. ASSUME NEW t \in Transactions, Write(t) PROVE BestPaired'
    BY <2>4, <2>c, Zenon DEF Write
  <2>5. ASSUME NEW t \in Transactions, ForkWrite(t) PROVE BestPaired'
    <3>1. /\ UNCHANGED <<disk, overlay, drained>>
          /\ fork \in [Keys -> KeyState] /\ fork # NoFork /\ fork' = Over(Effect(t), fork)
      BY <2>5, Zenon DEF ForkWrite, Structure
    <3>2. Paired(Over(Effect(t), fork))
      BY <2>b, <3>1, OverPaired, Zenon DEF BestPaired
    <3> QED BY <3>1, <3>2, <2>a, Zenon DEF BestPaired, Paired
  <2>6. CASE CacheWrite
    BY <2>6, <2>c, Zenon DEF CacheWrite
  <2>7. CASE OverlayWrite
    <3>1. /\ UNCHANGED <<disk, drained>> /\ pc = "cache"
          /\ overlay' = Over(Effect(tx), overlay) /\ fork' = NoFork
      BY <2>7, Zenon DEF OverlayWrite, OverlayWritten
    <3>2. Paired(Effect(tx))
      BY <3>1, <2>b, Zenon DEF Structure, BestPaired
    <3>3. Effect(tx) \in [Keys -> KeyState]
      BY EffectType, Zenon DEF Structure
    <3>4. Paired(Over(Effect(tx), overlay))
      BY <3>2, <3>3, OverPaired, Zenon DEF Structure, BestPaired
    <3> QED BY <3>1, <3>4, <2>a, Zenon DEF BestPaired, Paired
  <2>8. CASE Drain
    <3>1. UNCHANGED <<disk, fork>> /\ overlay' = Nothing /\ drained' = overlay
      BY <2>8, Zenon DEF Drain, DrainTransaction
    <3> QED BY <3>1, <2>a, Zenon DEF BestPaired, Paired
  <2>9. CASE FlushWrite
    <3>1. /\ UNCHANGED <<overlay, fork>>
          /\ disk' = DiskWrite(drained) /\ drained' = Nothing
      BY <2>9, Zenon DEF FlushWrite
    <3>2. \A k \in Keys : DiskStates'[k] = IF drained[k] = Unknown THEN DiskStates[k]
                                       ELSE IF drained[k] = Delete THEN Unknown
                                       ELSE drained[k]
      BY <3>1, BatchWritten, Zenon DEF Structure
    <3>3. DiskStates \in [Keys -> Values \cup {Unknown}]
      BY Zenon DEF DiskStates, DiskGet, RawKeys, Structure
    <3>4. Paired(DiskStates')
      BY <3>2, <3>3, StackAssumption, KeysAssumption, ZenonT(60) DEF BestPaired, Paired, Structure, KeyState
    <3> QED BY <3>1, <3>4, Zenon DEF BestPaired, Paired
  <2>10. CASE Fork
    <3>1. UNCHANGED <<disk, overlay, drained>> /\ fork' = Nothing
      BY <2>10, Zenon DEF Fork
    <3> QED BY <3>1, <2>a, Zenon DEF BestPaired, Paired
  <2>11. CASE ForkDrop
    <3>1. UNCHANGED <<disk, overlay, drained>> /\ fork' = NoFork
      BY <2>11, Zenon DEF ForkDrop
    <3> QED BY <3>1, <2>a, Zenon DEF BestPaired, Paired
  <2>12. CASE Switch
    BY <2>12, <2>c, Zenon DEF Switch
  <2>13. ASSUME NEW r \in Readers, NEW k \in Keys, GetBegin(r, k) PROVE BestPaired'
    BY <2>13, <2>c, Zenon DEF GetBegin
  <2>14. ASSUME NEW r \in Readers, GetCached(r) PROVE BestPaired'
    BY <2>14, <2>c, Zenon DEF GetCached
  <2>15. ASSUME NEW r \in Readers, GetOverlay(r) PROVE BestPaired'
    BY <2>15, <2>c, Zenon DEF GetOverlay
  <2>16. ASSUME NEW r \in Readers, GetDisk(r) PROVE BestPaired'
    BY <2>16, <2>c, Zenon DEF GetDisk
  <2>17. CASE UNCHANGED vars
    BY <2>17, <2>c, Zenon DEF vars
  <2> QED
    BY <2>1, <2>2, <2>3, <2>4, <2>5, <2>6, <2>7, <2>8, <2>9, <2>10, <2>11,
       <2>12, <2>13, <2>14, <2>15, <2>16, <2>17, StackAssumption, Zenon DEF Next
<1>3. Structure /\ BestPaired => BestBlockNeverTorn
  <2> SUFFICES ASSUME Structure, BestPaired PROVE BestBlockNeverTorn
    BY Zenon
  <2>1. DiskStates \in [Keys -> Values \cup {Unknown}]
    BY Zenon DEF DiskStates, DiskGet, RawKeys, Structure
  <2>2. BestBlockWhole(DiskView)
    BY <2>1, StackAssumption, KeysAssumption, Zenon
       DEF BestBlockWhole, DiskView, Options, IntoOption, BestPaired, Paired
  <2>3. ~IsHeader(BestNumber) /\ ~IsHeader(BestHash)
    BY StackAssumption, Zenon DEF IsHeader
  <2>4. Lookup(BestNumber) = NoValue <=> Lookup(BestHash) = NoValue
    BY <2>1, <2>3, StackAssumption, KeysAssumption, Zenon
       DEF Lookup, IntoOption, BestPaired, Paired, Structure, KeyState, DiskStates
  <2>5. BestBlockWhole([k \in Keys |-> Lookup(k)])
    BY <2>4, StackAssumption, Zenon DEF BestBlockWhole
  <2> QED BY <2>2, <2>5, Zenon DEF BestBlockNeverTorn
<1> QED BY <1>1, <1>2, <1>3, StructureInvariant, PTL DEF Spec

-----------------------------------------------------------------------------
(* The writing thread reads its own writes.                                *)

\* The operations on a header the cache loop has behind it.
Done(h) == {i \in DOMAIN tx : i < pos /\ tx[i].key = h /\ tx[i].state # Unknown}

\* What the cache has of a header is the last operation the running write
\* has cached, or, if it has cached none, what the layers below say.
Coherent(h) ==
    header[h] # Unknown =>
        IF pc = "cache" /\ Done(h) # {}
        THEN \E i \in Done(h) : /\ tx[i].state = header[h]
                                /\ \A j \in Done(h) : j <= i
        ELSE IntoOption(header[h]) = View[h]

\* The operations of the running write on one key are all real, or none is;
\* its loop is at some position.
CacheCoherent ==
    /\ \A h \in HeaderKeys : Coherent(h)
    /\ pos \in Nat
    /\ \A i, j \in DOMAIN tx :
         tx[i].key = tx[j].key => (tx[i].state = Unknown <=> tx[j].state = Unknown)

\* A drained fork has one operation for each key.
LEMMA ForkOperations ==
    ASSUME NEW f, NEW t \in ForkTransactions(f)
    PROVE  \A i, j \in DOMAIN t : t[i].key = t[j].key => i = j
BY DEF ForkTransactions, KeyOrders

\* The last operation on a key is the effect on it.
LEMMA EffectOfLast ==
    ASSUME NEW t \in Seq(Operation), NEW k \in Keys, NEW i \in DOMAIN t,
           IsLast(t, i, k)
    PROVE  Effect(t)[k] = t[i].state
<1>1. \A j \in DOMAIN t : IsLast(t, j, k) => j = i
  BY DEF IsLast
<1>2. (CHOOSE j \in DOMAIN t : IsLast(t, j, k)) = i
  BY <1>1, Zenon
<1> QED BY <1>2, Zenon DEF Effect

\* A key without an operation is not affected.
LEMMA EffectOfNone ==
    ASSUME NEW t \in Seq(Operation), NEW k \in Keys,
           \A i \in DOMAIN t : t[i].key = k => t[i].state = Unknown
    PROVE  Effect(t)[k] = Unknown
BY Zenon DEF Effect, IsLast

\* Whatever the cache evicts and whenever the overlay is flushed, the thread
\* that writes reads from the layers what it has written.
THEOREM ReadsOwnWrites == Spec => []ReadYourWrites
<1>1. Init => CacheCoherent
  BY DEF Init, CacheCoherent, Coherent
<1>2. Structure /\ Structure' /\ CacheCoherent /\ [Next]_vars => CacheCoherent'
  <2> SUFFICES ASSUME Structure, Structure', CacheCoherent, [Next]_vars
               PROVE  CacheCoherent'
    BY Zenon
  <2>a. DiskStates \in [Keys -> KeyState]
    BY Zenon DEF Structure, DiskStates, DiskGet, RawKeys, KeyState
  <2>b. ASSUME UNCHANGED <<disk, overlay, drained>> PROVE View' = View
    BY <2>b, Zenon DEF View, BaseStates, DiskStates, DiskGet, Options, Over
  <2>c. ASSUME View' = View, UNCHANGED <<header, pc, tx, pos>> PROVE CacheCoherent'
    BY <2>c DEF CacheCoherent, Coherent, Done
  <2>d. ASSUME View' = View, UNCHANGED header, pc # "cache", pc' # "cache",
               tx' = tx, pos' = pos
        PROVE  CacheCoherent'
    BY <2>d, Zenon DEF CacheCoherent, Coherent
  <2>e. ASSUME header' = [h \in HeaderKeys |-> Unknown], tx' = <<>> \/ tx' = tx,
               pos' = pos \/ pos' = 1
        PROVE  CacheCoherent'
    BY <2>e DEF CacheCoherent, Coherent
  <2>f. HeaderKeys \subseteq Keys
    BY Zenon DEF HeaderKeys
  <2>1. CASE Open
    BY <2>1, <2>b, <2>c, Zenon DEF Open
  <2>2. CASE Crash
    BY <2>2, <2>e, Zenon DEF Crash, Forget
  <2>3. CASE Drop
    BY <2>3, <2>b, <2>d, Zenon DEF Drop
  <2>4. ASSUME NEW t \in Transactions, Write(t) PROVE CacheCoherent'
    <3>1. /\ UNCHANGED <<disk, overlay, drained, header>> /\ pc = "idle"
          /\ tx' = t /\ pos' = 1
      BY <2>4, Zenon DEF Write
    <3>2. t \in Seq(Operation) /\ \A i \in DOMAIN t : t[i].state # Unknown
      BY KeysAssumption, Zenon
    <3>3. \A h : Done(h)' = {}
      BY <3>1, <3>2 DEF Done
    <3> QED BY <3>1, <3>2, <3>3, <2>b, Zenon DEF CacheCoherent, Coherent
  <2>5. ASSUME NEW t \in Transactions, ForkWrite(t) PROVE CacheCoherent'
    BY <2>5, <2>b, <2>c, Zenon DEF ForkWrite
  <2>6. CASE CacheWrite
    <3>1. /\ UNCHANGED <<disk, overlay, drained, pc, tx>> /\ pc = "cache"
      BY <2>6, Zenon DEF CacheWrite
    <3>2. PICK i \in CachedOperations :
            /\ \A j \in CachedOperations : i <= j
            /\ pos' = i + 1
            /\ CacheInsert(tx[i].key, tx[i].state)
      BY <2>6, Zenon DEF CacheWrite
    <3>3. /\ i \in DOMAIN tx /\ i \in Nat /\ i >= pos /\ tx[i].state # Unknown
          /\ tx[i].key \in HeaderKeys
      <4>1. /\ i \in DOMAIN tx /\ i >= pos /\ tx[i].state # Unknown
            /\ IsHeader(tx[i].key)
        BY <3>2, Zenon DEF CachedOperations
      <4>2. tx[i] \in Operation /\ i \in Nat
        BY <4>1 DEF Structure
      <4>3. tx[i].key \in Keys
        BY <4>2, Zenon DEF Operation
      <4> QED BY <4>1, <4>2, <4>3, Zenon DEF HeaderKeys
    <3>4. pos \in Nat /\ pos' \in Nat
      BY <3>2, <3>3 DEF CacheCoherent
    <3>5. ASSUME NEW h \in HeaderKeys PROVE Coherent(h)'
      <4>1. CASE h = tx[i].key
        <5>1. header'[h] = Unknown \/ header'[h] = tx[i].state
          BY <3>2, <4>1, Zenon DEF CacheInsert
        <5>2. i \in Done(h)' /\ \A j \in Done(h)' : j <= i
          BY <3>1, <3>2, <3>3, <3>4, <4>1 DEF Done, Structure
        <5> QED BY <5>1, <5>2, <3>1, Zenon DEF Coherent
      <4>2. CASE h # tx[i].key
        <5>1. header'[h] = Unknown \/ header'[h] = header[h]
          BY <3>2, <4>2, Zenon DEF CacheInsert
        <5>2. \A j \in DOMAIN tx : j >= pos /\ tx[j].key = h /\ tx[j].state # Unknown
                                     => j \in CachedOperations
          BY Zenon DEF CachedOperations, HeaderKeys
        <5>3. Done(h)' = Done(h)
          <6>1. \A j \in DOMAIN tx : j \in Nat
            BY DEF Structure
          <6>2. \A j \in Done(h)' : j \in Done(h)
            BY <6>1, <5>2, <3>1, <3>2, <3>3, <3>4, <4>2 DEF Done
          <6>3. \A j \in Done(h) : j \in Done(h)'
            BY <6>1, <3>1, <3>2, <3>3, <3>4 DEF Done
          <6> QED BY <6>2, <6>3, Zenon DEF Done
        <5> QED BY <5>1, <5>3, <3>1, <2>b, Zenon DEF Coherent, CacheCoherent
      <4> QED BY <4>1, <4>2, Zenon
    <3> QED BY <3>1, <3>4, <3>5, Zenon DEF CacheCoherent
  <2>7. CASE OverlayWrite
    <3>1. /\ UNCHANGED <<disk, drained, header>> /\ pc = "cache" /\ CachedOperations = {}
          /\ overlay' = Over(Effect(tx), overlay) /\ pc' \in {"drain", "idle"}
          /\ tx' = <<>> /\ pos' = 1
      BY <2>7, Zenon DEF OverlayWrite, OverlayWritten
    <3>2. BaseStates' = Over(Effect(tx), BaseStates)
      BY <3>1, OverAssociative DEF BaseStates, DiskStates, DiskGet
    <3>3. tx \in Seq(Operation)
      BY Zenon DEF Structure
    <3>4. ASSUME NEW h \in HeaderKeys, header[h] # Unknown
          PROVE  IntoOption(header[h]) = View'[h]
      <4>0. \A j \in DOMAIN tx : j \in Nat
        BY <3>3
      <4>1. \A j \in DOMAIN tx : tx[j].key = h /\ tx[j].state # Unknown => j \in Done(h)
        BY <3>1, <4>0 DEF Done, CachedOperations, HeaderKeys, CacheCoherent
      <4>2. CASE Done(h) # {}
        <5>1. PICK i \in Done(h) : tx[i].state = header[h] /\ \A j \in Done(h) : j <= i
          BY <4>2, <3>1, <3>4, Zenon DEF CacheCoherent, Coherent
        <5>2. i \in DOMAIN tx /\ tx[i].key = h /\ tx[i].state # Unknown
          BY <5>1, Zenon DEF Done
        <5>3. IsLast(tx, i, h)
          BY <5>1, <5>2, <4>1, Zenon DEF IsLast, CacheCoherent
        <5>4. Effect(tx)[h] = header[h]
          BY <5>1, <5>2, <5>3, <3>3, <2>f, EffectOfLast, Zenon
        <5> QED BY <5>4, <3>2, <3>4, <2>f, Zenon DEF View, Options, Over
      <4>3. CASE Done(h) = {}
        <5>1. Effect(tx)[h] = Unknown
          BY <4>1, <4>3, <3>3, <2>f, EffectOfNone, Zenon
        <5>2. IntoOption(header[h]) = View[h]
          BY <4>3, <3>4, Zenon DEF CacheCoherent, Coherent
        <5> QED BY <5>1, <5>2, <3>2, <2>f, Zenon DEF View, Options, Over
      <4> QED BY <4>2, <4>3, Zenon
    <3> QED BY <3>1, <3>4 DEF CacheCoherent, Coherent
  <2>8. CASE Drain
    <3>1. /\ UNCHANGED <<disk, header, tx, pos>> /\ drained = Nothing /\ pc = "drain"
          /\ pc' = "disk" /\ overlay' = Nothing /\ drained' = overlay
      BY <2>8, Zenon DEF Drain, DrainTransaction, Structure
    <3>2. DiskStates' = DiskStates
      BY <3>1, Zenon DEF DiskStates, DiskGet
    <3>3. Over(overlay, DiskStates) \in [Keys -> KeyState]
      BY <2>a, OverType, Zenon DEF Structure
    <3>4. BaseStates' = BaseStates
      BY <3>1, <3>2, <3>3, <2>a, OverNothing, Zenon DEF BaseStates
    <3>5. View' = View
      BY <3>4, Zenon DEF View, Options
    <3> QED BY <3>1, <3>5, <2>d, Zenon
  <2>9. CASE FlushWrite
    <3>1. /\ UNCHANGED <<overlay, tx, pos>> /\ overlay = Nothing /\ pc = "disk"
          /\ disk' = DiskWrite(drained) /\ drained' = Nothing /\ pc' = "idle"
      BY <2>9, Zenon DEF FlushWrite, Structure
    <3>2. header' = header \/ header' = [h \in HeaderKeys |-> Unknown]
      BY <2>9, Zenon DEF FlushWrite
    <3>3. DiskView' = Options(Over(drained, DiskStates))
      BY <3>1, BatchWritten, Zenon DEF Structure
    <3>4. DiskStates' \in [Keys -> KeyState]
      BY Zenon DEF Structure, DiskStates, DiskGet, RawKeys, KeyState
    <3>5. Over(drained, DiskStates) \in [Keys -> KeyState]
      BY <2>a, OverType, Zenon DEF Structure
    <3>6. View = DiskView'
      BY <3>1, <3>3, <3>5, OverNothing, Zenon DEF View, BaseStates
    <3>7. View' = DiskView'
      BY <3>1, <3>4, OverNothing, Zenon DEF View, BaseStates, DiskView, Options
    <3> QED BY <3>1, <3>2, <3>6, <3>7, <2>d, <2>e, Zenon
  <2>10. CASE Fork
    BY <2>10, <2>b, <2>c, Zenon DEF Fork
  <2>11. CASE ForkDrop
    BY <2>11, <2>b, <2>c, Zenon DEF ForkDrop
  <2>12. CASE Switch
    <3>1. /\ UNCHANGED <<disk, overlay, drained, header>> /\ pc = "idle"
          /\ tx' \in ForkTransactions(fork) /\ pos' = 1
      BY <2>12, Zenon DEF Switch
    <3>2. tx' \in Seq(Operation)
      BY Zenon DEF Structure
    <3>3. \A h : Done(h)' = {}
      BY <3>1, <3>2 DEF Done
    <3>4. \A i, j \in DOMAIN tx' : tx'[i].key = tx'[j].key => i = j
      BY <3>1, ForkOperations, Zenon
    <3> QED BY <3>1, <3>3, <3>4, <2>b, Zenon DEF CacheCoherent, Coherent
  <2>13. ASSUME NEW r \in Readers, NEW k \in Keys, GetBegin(r, k) PROVE CacheCoherent'
    BY <2>13, <2>b, <2>c, Zenon DEF GetBegin
  <2>14. ASSUME NEW r \in Readers, GetCached(r) PROVE CacheCoherent'
    BY <2>14, <2>b, <2>c, Zenon DEF GetCached
  <2>15. ASSUME NEW r \in Readers, GetOverlay(r) PROVE CacheCoherent'
    BY <2>15, <2>b, <2>c, Zenon DEF GetOverlay
  <2>16. ASSUME NEW r \in Readers, GetDisk(r) PROVE CacheCoherent'
    BY <2>16, <2>b, <2>c, Zenon DEF GetDisk
  <2>17. CASE UNCHANGED vars
    BY <2>17, <2>b, <2>c, Zenon DEF vars
  <2> QED
    BY <2>1, <2>2, <2>3, <2>4, <2>5, <2>6, <2>7, <2>8, <2>9, <2>10, <2>11,
       <2>12, <2>13, <2>14, <2>15, <2>16, <2>17, StackAssumption, Zenon DEF Next
<1>3. Structure /\ CacheCoherent => ReadYourWrites
  <2> SUFFICES ASSUME Structure, CacheCoherent, pc = "idle"
               PROVE  /\ \A k \in Keys : Lookup(k) = View[k]
                      /\ fork # NoFork => \A k \in Keys :
                            ForkLookup(k) = IntoOption(Over(fork, BaseStates)[k])
    BY Zenon DEF ReadYourWrites
  <2>1. drained = Nothing
    BY Zenon DEF Structure
  <2>2. ASSUME NEW k \in Keys PROVE Lookup(k) = View[k]
    <3>1. CASE IsHeader(k) /\ header[k] # Unknown
      BY <3>1, Zenon DEF CacheCoherent, Coherent, Lookup, HeaderKeys
    <3>2. CASE ~(IsHeader(k) /\ header[k] # Unknown)
      BY <3>2, <2>1, Zenon DEF Lookup, View, Options, BaseStates, Over, Nothing, DiskStates
    <3> QED BY <3>1, <3>2, Zenon
  <2>3. ASSUME NEW k \in Keys
        PROVE  ForkLookup(k) = IntoOption(Over(fork, BaseStates)[k])
    BY <2>2, Zenon DEF ForkLookup, View, Options, Over
  <2> QED BY <2>2, <2>3, Zenon
<1> QED BY <1>1, <1>2, <1>3, StructureInvariant, PTL DEF Spec

-----------------------------------------------------------------------------
(* The order of the header cache.                                          *)

\* No entry is there twice.
Distinct(order) == \A i, j \in DOMAIN order : order[i] = order[j] => i = j

\* Taking an entry out of an order without repetitions leaves the others.
LEMMA WithoutEntry ==
    ASSUME NEW order \in Seq(HeaderKeys), Distinct(order), NEW k \in HeaderKeys
    PROVE  /\ Without(order, k) \in Seq(HeaderKeys) /\ Distinct(Without(order, k))
           /\ \A h : Cached(Without(order, k), h) <=> h # k /\ Cached(order, h)
           /\ Len(Without(order, k)) = IF Cached(order, k) THEN Len(order) - 1
                                                           ELSE Len(order)
<1>1. CASE ~Cached(order, k)
  BY <1>1, Zenon DEF Without, Cached
<1>2. CASE Cached(order, k)
  <2> DEFINE at == CHOOSE i \in DOMAIN order : order[i] = k
             w == WithoutAt(order, at)
  <2>1. at \in DOMAIN order /\ order[at] = k
    BY <1>2, Zenon DEF Cached
  <2>2. Without(order, k) = w
    BY <1>2, Zenon DEF Without
  <2> HIDE DEF at
  <2>3. Len(order) \in Nat /\ DOMAIN order = 1..Len(order) /\ at \in 1..Len(order)
    BY <2>1
  <2>4. w \in Seq(HeaderKeys) /\ Len(w) = Len(order) - 1
    BY <2>3 DEF WithoutAt
  <2>5. \A j \in 1..Len(w) : w[j] = order[IF j < at THEN j ELSE j + 1]
    BY <2>3, <2>4, Zenon DEF WithoutAt
  <2>6. DOMAIN w = 1..Len(w)
    BY <2>4
  <2> HIDE DEF w
  <2>7. Distinct(w)
    <3> SUFFICES ASSUME NEW i \in 1..Len(w), NEW j \in 1..Len(w), w[i] = w[j]
                 PROVE  i = j
      BY <2>6, Zenon DEF Distinct
    <3> DEFINE a == IF i < at THEN i ELSE i + 1
               b == IF j < at THEN j ELSE j + 1
    <3>1. a \in DOMAIN order /\ b \in DOMAIN order
      BY <2>3, <2>4
    <3>2. order[a] = order[b]
      BY <2>5, Zenon
    <3>3. a = b
      BY <3>1, <3>2, Zenon DEF Distinct
    <3> QED BY <3>3, <2>3
  <2>8. ASSUME NEW h, Cached(w, h) PROVE h # k /\ Cached(order, h)
    BY <2>1, <2>3, <2>4, <2>5, <2>6, <2>8, SMTT(60) DEF Distinct, Cached
  <2>9. ASSUME NEW h, h # k, Cached(order, h) PROVE Cached(w, h)
    <3>1. PICK i \in DOMAIN order : order[i] = h
      BY <2>9, Zenon DEF Cached
    <3>2. i # at
      BY <3>1, <2>1, <2>9, Zenon
    <3>3. CASE i < at
      <4>1. i \in 1..Len(w) /\ w[i] = h
        BY <3>1, <3>3, <2>3, <2>4, <2>5
      <4> QED BY <4>1, <2>6, Zenon DEF Cached
    <3>4. CASE i > at
      <4>1. i - 1 \in 1..Len(w) /\ w[i - 1] = h
        BY <3>1, <3>4, <2>3, <2>4, <2>5
      <4> QED BY <4>1, <2>6, Zenon DEF Cached
    <3> QED BY <3>2, <3>3, <3>4, <2>3
  <2> QED BY <1>2, <2>2, <2>4, <2>7, <2>8, <2>9, Zenon
<1> QED BY <1>1, <1>2, Zenon

\* Using a header keeps the order within the capacity and without
\* repetitions; a header that was there already pushes none out.
LEMMA TouchedOrder ==
    ASSUME recent \in Seq(HeaderKeys), Distinct(recent),
           Len(recent) <= HeaderCapacity, NEW k \in HeaderKeys
    PROVE  /\ Touched(k) \in Seq(HeaderKeys) /\ Distinct(Touched(k))
           /\ Len(Touched(k)) <= HeaderCapacity
           /\ \A h : Cached(Touched(k), h) => h = k \/ Cached(recent, h)
           /\ Cached(recent, k) =>
                \A h : Cached(Touched(k), h) <=> Cached(recent, h)
<1> DEFINE w == Without(recent, k)
           all == Append(w, k)
<1>1. /\ w \in Seq(HeaderKeys) /\ Distinct(w)
      /\ \A h : Cached(w, h) <=> h # k /\ Cached(recent, h)
      /\ Len(w) = IF Cached(recent, k) THEN Len(recent) - 1 ELSE Len(recent)
  BY WithoutEntry, Zenon
<1>2. Touched(k) = IF Len(all) > HeaderCapacity THEN Tail(all) ELSE all
  BY Zenon DEF Touched
<1> HIDE DEF w
<1>3. /\ all \in Seq(HeaderKeys) /\ Len(all) = Len(w) + 1 /\ DOMAIN all = 1..(Len(w) + 1)
      /\ all[Len(w) + 1] = k /\ \A i \in 1..Len(w) : all[i] = w[i]
  BY <1>1
<1> HIDE DEF all
<1>4. Len(w) \in Nat /\ DOMAIN w = 1..Len(w) /\ Len(recent) \in Nat
  BY <1>1
<1>5. ASSUME NEW h PROVE Cached(all, h) <=> h = k \/ Cached(w, h)
  BY <1>3, <1>4 DEF Cached
<1>6. Distinct(all)
  <2>1. ~Cached(w, k)
    BY <1>1, Zenon
  <2>2. \A i \in 1..Len(w) : w[i] # k
    BY <2>1, <1>4, Zenon DEF Cached
  <2> QED BY <1>1, <1>3, <1>4, <2>2 DEF Distinct
<1>7. CASE Len(all) <= HeaderCapacity
  <2>1. Touched(k) = all
    BY <1>2, <1>3, <1>4, <1>7, StackAssumption
  <2> QED BY <2>1, <1>1, <1>3, <1>5, <1>6, <1>7, Zenon
<1>8. CASE Len(all) > HeaderCapacity
  <2> DEFINE t == Tail(all)
  <2>1. ~Cached(recent, k)
    BY <1>1, <1>3, <1>4, <1>8, StackAssumption
  <2>2. /\ t \in Seq(HeaderKeys) /\ Len(t) = Len(w) /\ DOMAIN t = 1..Len(w)
        /\ \A i \in 1..Len(w) : t[i] = all[i + 1]
    BY <1>3, <1>4
  <2> HIDE DEF t
  <2>3. Distinct(t)
    <3> SUFFICES ASSUME NEW i \in 1..Len(w), NEW j \in 1..Len(w), t[i] = t[j]
                 PROVE  i = j
      BY <2>2, Zenon DEF Distinct
    <3>1. i + 1 \in DOMAIN all /\ j + 1 \in DOMAIN all /\ all[i + 1] = all[j + 1]
      BY <2>2, <1>3, <1>4
    <3>2. i + 1 = j + 1
      BY <3>1, <1>6, Zenon DEF Distinct
    <3> QED BY <3>2, <1>4
  <2>4. \A h : Cached(t, h) => Cached(all, h)
    BY <2>2, <1>3, <1>4 DEF Cached
  <2>5. Touched(k) = t
    BY <1>2, <1>8, Zenon DEF t
  <2> QED BY <2>1, <2>2, <2>3, <2>4, <2>5, <1>1, <1>5, <1>4, Zenon
<1> QED BY <1>3, <1>4, <1>7, <1>8, StackAssumption
-----------------------------------------------------------------------------
(* What a step of the writer does to the map and to what is durable.       *)

\* What a map answers to reads.
LEMMA OptionsType ==
    ASSUME NEW m \in [Keys -> KeyState]
    PROVE  Options(m) \in [Keys -> MaybeValue]
BY Zenon DEF Options, IntoOption, KeyState, MaybeValue

\* The layers map every key to a value or to none.
LEMMA ViewTypes ==
    ASSUME Structure
    PROVE  /\ DiskStates \in [Keys -> KeyState] /\ BaseStates \in [Keys -> KeyState]
           /\ View \in [Keys -> MaybeValue] /\ DiskView \in [Keys -> MaybeValue]
<1>1. DiskStates \in [Keys -> KeyState]
  BY Zenon DEF Structure, DiskStates, DiskGet, RawKeys, KeyState
<1>2. BaseStates \in [Keys -> KeyState]
  BY <1>1, OverType, Zenon DEF Structure, BaseStates
<1> QED BY <1>1, <1>2, OptionsType, Zenon DEF View, DiskView

\* Who leaves the layers alone leaves what is read alone.
LEMMA ViewKept ==
    ASSUME UNCHANGED <<disk, overlay, drained>>
    PROVE  UNCHANGED <<View, DiskView>>
BY Zenon DEF View, DiskView, BaseStates, DiskStates, DiskGet, Options, Over

\* A crash leaves what is durable.
LEMMA CrashedView ==
    ASSUME Structure, Crash
    PROVE  View' = DiskView /\ DiskView' = DiskView
<1>1. UNCHANGED disk /\ overlay' = Nothing /\ drained' = Nothing
  BY Zenon DEF Crash, Forget
<1>2. DiskStates' = DiskStates
  BY <1>1, Zenon DEF DiskStates, DiskGet
<1>3. BaseStates' = DiskStates
  BY <1>1, <1>2, ViewTypes, OverNothing, Zenon DEF BaseStates
<1> QED BY <1>2, <1>3, Zenon DEF View, DiskView, Options

\* The overlay takes the whole transaction.
LEMMA OverlayView ==
    ASSUME Structure, OverlayWrite
    PROVE  /\ View' = Options(Over(Effect(tx), BaseStates)) /\ DiskView' = DiskView
           /\ View' \in [Keys -> MaybeValue]
<1>1. UNCHANGED <<disk, drained>> /\ overlay' = Over(Effect(tx), overlay)
  BY Zenon DEF OverlayWrite, OverlayWritten
<1>2. DiskStates' = DiskStates
  BY <1>1, Zenon DEF DiskStates, DiskGet
<1>3. BaseStates' = Over(Effect(tx), BaseStates)
  BY <1>1, <1>2, OverAssociative DEF BaseStates
<1>4. BaseStates' \in [Keys -> KeyState]
  BY <1>3, ViewTypes, EffectType, OverType, Zenon DEF Structure
<1> QED BY <1>2, <1>3, <1>4, OptionsType, Zenon DEF View, DiskView, Options

\* Draining the overlay changes neither.
LEMMA DrainedView ==
    ASSUME Structure, Drain
    PROVE  View' = View /\ DiskView' = DiskView
<1>1. /\ UNCHANGED disk /\ drained = Nothing
      /\ overlay' = Nothing /\ drained' = overlay
  BY Zenon DEF Drain, DrainTransaction, Structure
<1>2. DiskStates' = DiskStates
  BY <1>1, Zenon DEF DiskStates, DiskGet
<1>3. Over(overlay, DiskStates) \in [Keys -> KeyState]
  BY ViewTypes, OverType, Zenon DEF Structure
<1>4. BaseStates' = BaseStates
  BY <1>1, <1>2, <1>3, ViewTypes, OverNothing, Zenon DEF BaseStates
<1> QED BY <1>2, <1>4, Zenon DEF View, DiskView, Options

\* The batch makes the whole map durable.
LEMMA FlushedView ==
    ASSUME Structure, Structure', FlushWrite
    PROVE  View' = View /\ DiskView' = View
<1>1. /\ UNCHANGED overlay /\ overlay = Nothing
      /\ disk' = DiskWrite(drained) /\ drained' = Nothing
  BY Zenon DEF FlushWrite, Structure
<1>2. DiskView' = Options(Over(drained, DiskStates))
  BY <1>1, BatchWritten, Zenon DEF Structure
<1>3. DiskStates' \in [Keys -> KeyState]
  BY Zenon DEF Structure, DiskStates, DiskGet, RawKeys, KeyState
<1>4. Over(drained, DiskStates) \in [Keys -> KeyState]
  BY ViewTypes, OverType, Zenon DEF Structure
<1>5. View = DiskView'
  BY <1>1, <1>2, <1>4, OverNothing, Zenon DEF View, BaseStates
<1>6. View' = DiskView'
  BY <1>1, <1>3, OverNothing, Zenon DEF View, BaseStates, DiskView, Options
<1> QED BY <1>5, <1>6, Zenon

-----------------------------------------------------------------------------
(* Types, and what a crash loses.  Logged is proved conjunct by conjunct.  *)

\* The cache holds the headers its order lists, no more than it may.
CacheOK ==
    /\ header \in [HeaderKeys -> KeyState]
    /\ recent \in Seq(HeaderKeys) /\ Len(recent) <= HeaderCapacity
    /\ Distinct(recent)
    /\ \A h \in HeaderKeys : header[h] # Unknown <=> Cached(recent, h)

\* The writer is inside its transaction, and its count below the limit
\* unless a flush is due.
WriterOK ==
    /\ pos \in 1..(Len(tx) + 1) /\ source \in {"db", "fork", "drop"}
    /\ operations \in 0..MaxOperations
    /\ pc \in {"idle", "cache"} => operations < MaxOperations

\* The log runs from the durable map to the current one.
LogOK ==
    /\ log \in Seq([Keys -> MaybeValue])
    /\ Len(log) = operations + 1
    /\ log[1] = DiskView /\ log[Len(log)] = View

ReadRecord ==
    [at : {"none", "cache", "overlay", "disk", "done"},
     key : Keys, seen : SUBSET MaybeValue, answer : MaybeValue]

ReadsOK == reads \in [Readers -> ReadRecord]

MediumOK == medium \in {"new", "sound", "corrupt"} /\ up \in BOOLEAN

\* The operation the cache loop is at.
LEMMA CachedOperation ==
    ASSUME Structure, NEW i \in CachedOperations
    PROVE  /\ i \in 1..Len(tx) /\ i >= pos
           /\ tx[i].key \in HeaderKeys /\ tx[i].state \in KeyState \ {Unknown}
<1>1. /\ i \in DOMAIN tx /\ i >= pos /\ IsHeader(tx[i].key) /\ tx[i].state # Unknown
  BY Zenon DEF CachedOperations
<1>2. tx[i] \in Operation /\ i \in 1..Len(tx)
  BY <1>1 DEF Structure
<1> QED BY <1>1, <1>2, Zenon DEF Operation, HeaderKeys

\* An insertion, a lookup and a restart keep the cache and its order in step.
LEMMA CacheStep ==
    ASSUME Structure, CacheOK, ReadsOK, [Next]_vars,
           \A r \in Readers : reads[r].at = "cache" => IsHeader(reads[r].key)
    PROVE  CacheOK'
<1> DEFINE empty == header' = [h \in HeaderKeys |-> Unknown] /\ recent' = <<>>
<1>1. CASE empty
  BY <1>1, StackAssumption DEF CacheOK, Distinct, Cached, KeyState
<1>2. CASE UNCHANGED <<header, recent>>
  BY <1>2, Zenon DEF CacheOK, Distinct, Cached
<1>3. CASE CacheWrite
  <2>1. PICK i \in CachedOperations : CacheInsert(tx[i].key, tx[i].state)
    BY <1>3, Zenon DEF CacheWrite
  <2> DEFINE k == tx[i].key
             s == tx[i].state
  <2>2. k \in HeaderKeys /\ s \in KeyState \ {Unknown}
    BY CachedOperation, Zenon
  <2>3. /\ recent' = Touched(k)
        /\ header' = [h \in HeaderKeys |->
                        IF ~Cached(recent', h) THEN Unknown
                        ELSE IF h = k THEN s ELSE header[h]]
    BY <2>1, Zenon DEF CacheInsert
  <2> HIDE DEF k, s
  <2>4. /\ recent' \in Seq(HeaderKeys) /\ Distinct(recent')
        /\ Len(recent') <= HeaderCapacity
        /\ \A h : Cached(recent', h) => h = k \/ Cached(recent, h)
    BY <2>2, <2>3, TouchedOrder, Zenon DEF CacheOK
  <2>5. header' \in [HeaderKeys -> KeyState]
    BY <2>2, <2>3, Zenon DEF CacheOK, KeyState
  <2>6. \A h \in HeaderKeys : header'[h] # Unknown <=> Cached(recent', h)
    BY <2>2, <2>3, <2>4, Zenon DEF CacheOK
  <2> QED BY <2>4, <2>5, <2>6, Zenon DEF CacheOK, Distinct, Cached
<1>4. ASSUME NEW r \in Readers, GetCached(r) PROVE CacheOK'
  <2> DEFINE k == reads[r].key
  <2>1. reads[r].at = "cache" /\ UNCHANGED header
    BY <1>4, Zenon DEF GetCached
  <2>2. k \in HeaderKeys
    BY <2>1, Zenon DEF ReadsOK, ReadRecord, HeaderKeys
  <2>3. CASE header[k] = Unknown
    BY <1>2, <1>4, <2>3, Zenon DEF GetCached
  <2>4. CASE header[k] # Unknown
    <3>1. recent' = Touched(k)
      BY <1>4, <2>4, Zenon DEF GetCached
    <3>2. Cached(recent, k)
      BY <2>2, <2>4, Zenon DEF CacheOK
    <3> HIDE DEF k
    <3>3. /\ recent' \in Seq(HeaderKeys) /\ Distinct(recent')
          /\ Len(recent') <= HeaderCapacity
          /\ \A h : Cached(recent', h) <=> Cached(recent, h)
      BY <2>2, <3>1, <3>2, TouchedOrder, Zenon DEF CacheOK
    <3> QED BY <3>3, <2>1, Zenon DEF CacheOK, Distinct, Cached
  <2> QED BY <2>3, <2>4, Zenon
<1>5. CASE Crash
  BY <1>1, <1>5, Zenon DEF Crash, Forget
<1>6. CASE FlushWrite
  BY <1>1, <1>2, <1>6, Zenon DEF FlushWrite
<1> QED
  BY <1>2, <1>3, <1>4, <1>5, <1>6, Zenon
     DEF Next, vars, Open, Drop, Write, ForkWrite, OverlayWrite, Drain, Fork,
         ForkDrop, Switch, GetBegin, GetOverlay, GetDisk

\* A write, its flush and a restart keep the position and the count.
LEMMA WriterStep ==
    ASSUME Structure, Structure', WriterOK, [Next]_vars
    PROVE  WriterOK'
<1>0. tx \in Seq(Operation) /\ tx' \in Seq(Operation)
  BY Zenon DEF Structure
<1>1. CASE /\ pos' = 1 /\ source' \in {"db", "fork"}
           /\ operations' = operations \/ operations' = 0
           /\ pc = "idle" \/ operations' = 0
  BY <1>0, <1>1, StackAssumption DEF WriterOK
<1>2. CASE UNCHANGED <<pos, tx, source, operations, pc>>
  BY <1>2, Zenon DEF WriterOK
<1>3. CASE Drop
  BY <1>3, Zenon DEF Drop, WriterOK
<1>4. CASE CacheWrite
  <2>1. PICK i \in CachedOperations : pos' = i + 1
    BY <1>4, Zenon DEF CacheWrite
  <2>2. i \in 1..Len(tx)
    BY CachedOperation, Zenon
  <2>3. UNCHANGED <<tx, pc, operations, source>>
    BY <1>4, Zenon DEF CacheWrite
  <2> QED BY <1>0, <2>1, <2>2, <2>3 DEF WriterOK
<1>5. CASE OverlayWrite
  <2>1. /\ pc = "cache" /\ operations' = operations + 1 /\ tx' = <<>> /\ pos' = 1
        /\ source' = "db"
        /\ pc' = IF operations + 1 = MaxOperations THEN "drain" ELSE "idle"
    BY <1>5, Zenon DEF OverlayWrite, FlushDue
  <2> QED BY <2>1, StackAssumption DEF WriterOK
<1>6. CASE Drain
  BY <1>6, Zenon DEF Drain, WriterOK
<1>7. CASE FlushWrite
  BY <1>7, StackAssumption DEF FlushWrite, Reset, WriterOK
<1>8. CASE Crash
  BY <1>1, <1>8, Zenon DEF Crash, Forget
<1>9. CASE Switch
  BY <1>1, <1>9, Zenon DEF Switch
<1>10. ASSUME NEW t \in Transactions, Write(t) PROVE WriterOK'
  BY <1>1, <1>10, Zenon DEF Write
<1> QED
  BY <1>2, <1>3, <1>4, <1>5, <1>6, <1>7, <1>8, <1>9, <1>10, Zenon
     DEF Next, vars, Open, ForkWrite, Fork, ForkDrop, GetBegin, GetCached,
         GetOverlay, GetDisk

\* A write appends the map it makes; a flush and a crash leave one map, the
\* one on the disk.
LEMMA LogStep ==
    ASSUME Structure, Structure', WriterOK, LogOK, [Next]_vars
    PROVE  LogOK'
<1>0. View \in [Keys -> MaybeValue] /\ DiskView \in [Keys -> MaybeValue]
  BY ViewTypes, Zenon
<1>1. CASE UNCHANGED <<log, operations>> /\ View' = View /\ DiskView' = DiskView
  BY <1>1, Zenon DEF LogOK
<1>2. CASE OverlayWrite
  <2>1. /\ View' = Options(Over(Effect(tx), BaseStates)) /\ DiskView' = DiskView
        /\ View' \in [Keys -> MaybeValue]
    BY <1>2, OverlayView, Zenon
  <2>2. log' = Append(log, View') /\ operations' = operations + 1
    BY <1>2, <2>1, Zenon DEF OverlayWrite
  <2> HIDE DEF View, DiskView
  <2>3. log' \in Seq([Keys -> MaybeValue]) /\ Len(log') = Len(log) + 1
    BY <2>1, <2>2 DEF LogOK
  <2>4. log'[1] = log[1] /\ log'[Len(log')] = View'
    BY <2>1, <2>2 DEF LogOK, WriterOK
  <2> QED BY <2>1, <2>2, <2>3, <2>4, Zenon DEF LogOK
<1>3. CASE FlushWrite
  <2>1. View' = View /\ DiskView' = View
    BY <1>3, FlushedView, Zenon
  <2>2. log' = <<View>> /\ operations' = 0
    BY <1>3, Zenon DEF FlushWrite, Reset, LogOK
  <2> QED BY <1>0, <2>1, <2>2 DEF LogOK
<1>4. CASE Crash
  <2>1. View' = DiskView /\ DiskView' = DiskView
    BY <1>4, CrashedView, Zenon
  <2>2. log' = <<DiskView>> /\ operations' = 0
    BY <1>4, Zenon DEF Crash, Forget
  <2> QED BY <1>0, <2>1, <2>2 DEF LogOK
<1>5. CASE Drain
  BY <1>1, <1>5, DrainedView, Zenon DEF Drain
<1>6. CASE UNCHANGED <<disk, overlay, drained, log, operations>>
  BY <1>1, <1>6, ViewKept, Zenon
<1> QED
  BY <1>2, <1>3, <1>4, <1>5, <1>6, Zenon
     DEF Next, vars, Open, Drop, Write, ForkWrite, CacheWrite, Fork, ForkDrop,
         Switch, GetBegin, GetCached, GetOverlay, GetDisk
-----------------------------------------------------------------------------
(* Reads.                                                                  *)

\* What the writer shows is added to what a running get has seen, and
\* nothing else of a get changes.
LEMMA Watched ==
    ASSUME ReadsOK, NEW V \in [Keys -> SUBSET MaybeValue],
           reads' = [r \in Readers |->
                        IF reads[r].at \in {"none", "done"} THEN reads[r]
                        ELSE [reads[r] EXCEPT !.seen = @ \cup V[reads[r].key]]]
    PROVE  /\ ReadsOK'
           /\ \A r \in Readers :
                /\ reads'[r].at = reads[r].at /\ reads'[r].key = reads[r].key
                /\ reads'[r].answer = reads[r].answer
                /\ reads[r].seen \subseteq reads'[r].seen
                /\ reads[r].at \notin {"none", "done"} =>
                     reads'[r].seen = reads[r].seen \cup V[reads[r].key]
<1>1. ASSUME NEW r \in Readers
      PROVE  /\ reads'[r] \in ReadRecord
             /\ reads'[r].at = reads[r].at /\ reads'[r].key = reads[r].key
             /\ reads'[r].answer = reads[r].answer
             /\ reads[r].seen \subseteq reads'[r].seen
             /\ reads[r].at \notin {"none", "done"} =>
                  reads'[r].seen = reads[r].seen \cup V[reads[r].key]
  <2>1. reads[r] \in ReadRecord
    BY Zenon DEF ReadsOK
  <2>2. CASE reads[r].at \in {"none", "done"}
    BY <2>1, <2>2, Zenon
  <2>3. CASE reads[r].at \notin {"none", "done"}
    <3>1. reads'[r] = [reads[r] EXCEPT !.seen = @ \cup V[reads[r].key]]
      BY <2>3, Zenon
    <3> QED BY <2>1, <3>1, Zenon DEF ReadRecord
  <2> QED BY <2>2, <2>3, Zenon
<1> QED BY <1>1, Zenon DEF ReadsOK

\* A get keeps what it has seen while the layers keep what it may find.
LEMMA AccountKept ==
    ASSUME ReadsOK, ReadsAccounted, UNCHANGED <<reads, header>>, View' = View,
           \/ DiskView' = DiskView /\ (pc' = pc \/ pc' # "disk")
           \/ DiskView' = View /\ pc' # "disk"
    PROVE  ReadsOK' /\ ReadsAccounted'
<1> SUFFICES ASSUME NEW r \in Readers PROVE Accounted(r)'
  BY Zenon DEF ReadsOK, ReadsAccounted
<1>1. Accounted(r)
  BY Zenon DEF ReadsAccounted
<1> QED BY <1>1, Zenon DEF Accounted

\* Readers of a process that ended have nothing to account for.
LEMMA AccountIdle ==
    ASSUME reads' = [r \in Readers |-> Idle]
    PROVE  ReadsOK' /\ ReadsAccounted'
BY StackAssumption, Zenon DEF ReadsOK, ReadRecord, ReadsAccounted, Accounted, Idle, MaybeValue

\* One get moves, from a layer it may look into.
LEMMA AccountMoved ==
    ASSUME ReadsOK, ReadsAccounted, UNCHANGED <<header, pc>>, View' = View,
           DiskView' = DiskView,
           NEW r \in Readers, NEW get \in ReadRecord,
           reads' = [reads EXCEPT ![r] = get], Accounted(r)'
    PROVE  ReadsOK' /\ ReadsAccounted'
<1>1. ReadsOK'
  BY Zenon DEF ReadsOK
<1>2. ASSUME NEW q \in Readers, q # r PROVE Accounted(q)'
  <2>1. Accounted(q) /\ reads'[q] = reads[q]
    BY <1>2, Zenon DEF ReadsAccounted, ReadsOK
  <2> QED BY <2>1, Zenon DEF Accounted
<1> QED BY <1>1, <1>2, Zenon DEF ReadsAccounted

\* Every step of the writer shows the running gets what they may find from
\* then on; every step of a get answers with something it has seen.
LEMMA ReadsStep ==
    ASSUME Structure, Structure', CacheOK, ReadsOK, ReadsAccounted, [Next]_vars
    PROVE  ReadsOK' /\ ReadsAccounted'
<1>0. /\ View \in [Keys -> MaybeValue] /\ DiskView \in [Keys -> MaybeValue]
      /\ DiskStates \in [Keys -> KeyState]
  BY ViewTypes, Zenon
<1>a. ASSUME UNCHANGED <<disk, overlay, drained, reads, header>>,
             pc' = pc \/ pc' # "disk"
      PROVE  ReadsOK' /\ ReadsAccounted'
  BY <1>a, ViewKept, AccountKept, Zenon
<1>1. CASE Crash
  BY <1>1, AccountIdle, Zenon DEF Crash, Forget
<1>2. CASE CacheWrite
  <2>1. /\ UNCHANGED <<disk, overlay, drained, pc>> /\ pc = "cache"
    BY <1>2, Zenon DEF CacheWrite
  <2>2. PICK i \in CachedOperations :
          /\ CacheInsert(tx[i].key, tx[i].state)
          /\ Watch(LAMBDA k : IF k = tx[i].key
                              THEN {IntoOption(tx[i].state)} ELSE {})
    BY <1>2, Zenon DEF CacheWrite
  <2> DEFINE V == [k \in Keys |-> IF k = tx[i].key
                                  THEN {IntoOption(tx[i].state)} ELSE {}]
  <2>3. tx[i].state \in KeyState \ {Unknown}
    BY CachedOperation, Zenon
  <2>4. V \in [Keys -> SUBSET MaybeValue]
    BY <2>3, Zenon DEF IntoOption, KeyState, MaybeValue
  <2>5. reads' = [r \in Readers |->
                    IF reads[r].at \in {"none", "done"} THEN reads[r]
                    ELSE [reads[r] EXCEPT !.seen = @ \cup V[reads[r].key]]]
    BY <2>2, Zenon DEF Watch, ReadsOK, ReadRecord
  <2>6. UNCHANGED <<View, DiskView>>
    BY <2>1, ViewKept, Zenon
  <2>7. \A h \in HeaderKeys : \/ header'[h] \in {Unknown, header[h]}
                              \/ h = tx[i].key /\ header'[h] = tx[i].state
    BY <2>2, Zenon DEF CacheInsert
  <2>8. /\ ReadsOK'
        /\ \A r \in Readers :
             /\ reads'[r].at = reads[r].at /\ reads'[r].key = reads[r].key
             /\ reads'[r].answer = reads[r].answer
             /\ reads[r].seen \subseteq reads'[r].seen
             /\ reads[r].at \notin {"none", "done"} =>
                  reads'[r].seen = reads[r].seen \cup V[reads[r].key]
    <3> HIDE DEF V
    <3> QED BY <2>4, <2>5, Watched, Zenon
  <2>9. ASSUME NEW r \in Readers PROVE Accounted(r)'
    <3>1. Accounted(r) /\ reads[r].key \in Keys
      BY Zenon DEF ReadsAccounted, ReadsOK, ReadRecord
    <3>2. ASSUME reads[r].at = "cache", header'[reads[r].key] # Unknown
          PROVE  IntoOption(header'[reads[r].key]) \in reads'[r].seen
      <4>1. reads[r].key \in HeaderKeys
        BY <3>1, <3>2, Zenon DEF Accounted, HeaderKeys
      <4>2. CASE header'[reads[r].key] = header[reads[r].key]
        BY <4>2, <3>1, <3>2, <2>8, Zenon DEF Accounted
      <4>3. CASE reads[r].key = tx[i].key /\ header'[reads[r].key] = tx[i].state
        BY <4>3, <3>1, <3>2, <2>8, Zenon
      <4> QED BY <4>1, <4>2, <4>3, <3>2, <2>7, Zenon
    <3> HIDE DEF V
    <3> QED BY <3>1, <3>2, <2>1, <2>6, <2>8, Zenon DEF Accounted
  <2> QED BY <2>8, <2>9, Zenon DEF ReadsAccounted
<1>3. CASE OverlayWrite
  <2>1. UNCHANGED header /\ pc' # "disk"
    BY <1>3, Zenon DEF OverlayWrite
  <2>2. /\ View' = Options(Over(Effect(tx), BaseStates)) /\ DiskView' = DiskView
        /\ View' \in [Keys -> MaybeValue]
    BY <1>3, OverlayView, Zenon
  <2> DEFINE V == [k \in Keys |-> {View'[k]}]
  <2>3. V \in [Keys -> SUBSET MaybeValue]
    BY <2>2, Zenon
  <2>4. reads' = [r \in Readers |->
                    IF reads[r].at \in {"none", "done"} THEN reads[r]
                    ELSE [reads[r] EXCEPT !.seen = @ \cup {View'[reads[r].key]}]]
    BY <1>3, <2>2, Zenon DEF OverlayWrite, Watch
  <2>5. \A r \in Readers : V[reads[r].key] = {View'[reads[r].key]}
    BY Zenon DEF ReadsOK, ReadRecord
  <2>6. reads' = [r \in Readers |->
                    IF reads[r].at \in {"none", "done"} THEN reads[r]
                    ELSE [reads[r] EXCEPT !.seen = @ \cup V[reads[r].key]]]
    BY <2>4, <2>5, Zenon
  <2>7. /\ ReadsOK'
        /\ \A r \in Readers :
             /\ reads'[r].at = reads[r].at /\ reads'[r].key = reads[r].key
             /\ reads'[r].answer = reads[r].answer
             /\ reads[r].seen \subseteq reads'[r].seen
             /\ reads[r].at \notin {"none", "done"} =>
                  reads'[r].seen = reads[r].seen \cup V[reads[r].key]
    <3> HIDE DEF V
    <3> QED BY <2>3, <2>6, Watched, Zenon
  <2>8. ASSUME NEW r \in Readers PROVE Accounted(r)'
    <3>1. Accounted(r)
      BY Zenon DEF ReadsAccounted
    <3> QED BY <3>1, <2>1, <2>2, <2>5, <2>7, ZenonT(60) DEF Accounted
  <2> QED BY <2>7, <2>8, Zenon DEF ReadsAccounted
<1>4. CASE Drain
  <2>1. UNCHANGED header
    BY <1>4, Zenon DEF Drain
  <2>2. UNCHANGED <<View, DiskView>>
    BY <1>4, DrainedView, Zenon
  <2> DEFINE V == [k \in Keys |-> {DiskView[k]}]
  <2>3. V \in [Keys -> SUBSET MaybeValue]
    BY <1>0, Zenon
  <2>4. \A r \in Readers : V[reads[r].key] = {DiskView[reads[r].key]}
    BY Zenon DEF ReadsOK, ReadRecord
  <2>5. reads' = [r \in Readers |->
                    IF reads[r].at \in {"none", "done"} THEN reads[r]
                    ELSE [reads[r] EXCEPT !.seen = @ \cup {DiskView[reads[r].key]}]]
    BY <1>4, Zenon DEF Drain, Watch
  <2>6. reads' = [r \in Readers |->
                    IF reads[r].at \in {"none", "done"} THEN reads[r]
                    ELSE [reads[r] EXCEPT !.seen = @ \cup V[reads[r].key]]]
    BY <2>4, <2>5, Zenon
  <2>7. /\ ReadsOK'
        /\ \A r \in Readers :
             /\ reads'[r].at = reads[r].at /\ reads'[r].key = reads[r].key
             /\ reads'[r].answer = reads[r].answer
             /\ reads[r].seen \subseteq reads'[r].seen
             /\ reads[r].at \notin {"none", "done"} =>
                  reads'[r].seen = reads[r].seen \cup V[reads[r].key]
    <3> HIDE DEF V
    <3> QED BY <2>3, <2>6, Watched, Zenon
  <2>8. ASSUME NEW r \in Readers PROVE Accounted(r)'
    <3>1. Accounted(r)
      BY Zenon DEF ReadsAccounted
    <3> QED BY <3>1, <2>1, <2>2, <2>4, <2>7, Zenon DEF Accounted
  <2> QED BY <2>7, <2>8, Zenon DEF ReadsAccounted
<1>5. CASE FlushWrite
  <2>1. View' = View /\ DiskView' = View /\ pc' # "disk"
    BY <1>5, FlushedView, Zenon DEF FlushWrite
  <2>2. CASE source = "drop"
    BY <1>5, <2>2, AccountIdle, Zenon DEF FlushWrite
  <2>3. CASE source # "drop"
    <3>1. UNCHANGED <<reads, header>>
      BY <1>5, <2>3, Zenon DEF FlushWrite
    <3> QED BY <3>1, <2>1, AccountKept, Zenon
  <2> QED BY <2>2, <2>3, Zenon
<1>6. ASSUME NEW r \in Readers, NEW k \in Keys, GetBegin(r, k)
      PROVE  ReadsOK' /\ ReadsAccounted'
  <2> DEFINE get == [at |-> IF IsHeader(k) THEN "cache" ELSE "overlay", key |-> k,
                     answer |-> NoValue,
                     seen |-> {View[k]}
                              \cup (IF IsHeader(k) /\ header[k] # Unknown
                                    THEN {IntoOption(header[k])} ELSE {})
                              \cup (IF pc = "disk" THEN {DiskView[k]} ELSE {})]
  <2>1. /\ UNCHANGED <<disk, overlay, drained, header, pc>>
        /\ reads' = [reads EXCEPT ![r] = get]
    BY <1>6, Zenon DEF GetBegin
  <2>2. UNCHANGED <<View, DiskView>>
    BY <2>1, ViewKept, Zenon
  <2>3. IsHeader(k) /\ header[k] # Unknown => IntoOption(header[k]) \in MaybeValue
    BY Zenon DEF CacheOK, HeaderKeys, IntoOption, KeyState, MaybeValue
  <2>4. get \in ReadRecord
    BY <1>0, <2>3, ZenonT(60) DEF ReadRecord, MaybeValue
  <2>5. reads'[r] = get
    BY <2>1, Zenon DEF ReadsOK
  <2>6. Accounted(r)'
    BY <2>1, <2>2, <2>5 DEF Accounted
  <2> HIDE DEF get
  <2> QED BY <2>1, <2>2, <2>4, <2>6, AccountMoved, Zenon
<1>7. ASSUME NEW r \in Readers, GetCached(r) PROVE ReadsOK' /\ ReadsAccounted'
  <2> DEFINE k == reads[r].key
             get == IF header[k] # Unknown
                    THEN [reads[r] EXCEPT !.at = "done", !.answer = IntoOption(header[k])]
                    ELSE [reads[r] EXCEPT !.at = "overlay"]
  <2>1. /\ UNCHANGED <<disk, overlay, drained, header, pc>> /\ reads[r].at = "cache"
        /\ reads' = [reads EXCEPT ![r] = get]
    BY <1>7, Zenon DEF GetCached, ReadsOK
  <2>2. UNCHANGED <<View, DiskView>>
    BY <2>1, ViewKept, Zenon
  <2>3. Accounted(r) /\ reads[r] \in ReadRecord
    BY Zenon DEF ReadsAccounted, ReadsOK
  <2>4. k \in HeaderKeys
    BY <2>1, <2>3, Zenon DEF Accounted, ReadRecord, HeaderKeys
  <2>5. IntoOption(header[k]) \in MaybeValue
    BY <2>4, Zenon DEF CacheOK, IntoOption, KeyState, MaybeValue
  <2>6. get \in ReadRecord
    BY <2>3, <2>5, Zenon DEF ReadRecord
  <2>7. reads'[r] = get
    BY <2>1, Zenon DEF ReadsOK
  <2>8. Accounted(r)'
    BY <2>1, <2>2, <2>3, <2>7 DEF Accounted, ReadRecord
  <2> HIDE DEF get
  <2> QED BY <2>1, <2>2, <2>6, <2>8, AccountMoved, Zenon
<1>8. ASSUME NEW r \in Readers, GetOverlay(r) PROVE ReadsOK' /\ ReadsAccounted'
  <2> DEFINE k == reads[r].key
             get == IF overlay[k] # Unknown
                    THEN [reads[r] EXCEPT !.at = "done", !.answer = IntoOption(overlay[k])]
                    ELSE [reads[r] EXCEPT !.at = "disk"]
  <2>1. /\ UNCHANGED <<disk, overlay, drained, header, pc>> /\ reads[r].at = "overlay"
        /\ reads' = [reads EXCEPT ![r] = get]
    BY <1>8, Zenon DEF GetOverlay, OverlayAnswers, ReadsOK
  <2>2. UNCHANGED <<View, DiskView>>
    BY <2>1, ViewKept, Zenon
  <2>3. Accounted(r) /\ reads[r] \in ReadRecord /\ k \in Keys
    BY Zenon DEF ReadsAccounted, ReadsOK, ReadRecord
  <2>4. IntoOption(overlay[k]) \in MaybeValue
    BY <2>3, Zenon DEF Structure, IntoOption, KeyState, MaybeValue
  <2>5. get \in ReadRecord
    BY <2>3, <2>4, Zenon DEF ReadRecord
  <2>6. overlay[k] # Unknown => IntoOption(overlay[k]) = View[k]
    BY <2>3, Zenon DEF View, Options, BaseStates, Over
  <2>7. overlay[k] = Unknown /\ pc # "disk" => DiskView[k] = View[k]
    BY <2>3, Zenon DEF View, DiskView, Options, BaseStates, Over, Structure, Nothing
  <2>8. reads'[r] = get
    BY <2>1, Zenon DEF ReadsOK
  <2>9. Accounted(r)'
    BY <2>1, <2>2, <2>3, <2>6, <2>7, <2>8 DEF Accounted, ReadRecord
  <2> HIDE DEF get
  <2> QED BY <2>1, <2>2, <2>5, <2>9, AccountMoved, Zenon
<1>9. ASSUME NEW r \in Readers, GetDisk(r) PROVE ReadsOK' /\ ReadsAccounted'
  <2> DEFINE k == reads[r].key
             get == [reads[r] EXCEPT !.at = "done", !.answer = IntoOption(DiskGet(k))]
  <2>1. /\ UNCHANGED <<disk, overlay, drained, header, pc>> /\ reads[r].at = "disk"
        /\ reads' = [reads EXCEPT ![r] = get]
    BY <1>9, Zenon DEF GetDisk, ReadsOK
  <2>2. UNCHANGED <<View, DiskView>>
    BY <2>1, ViewKept, Zenon
  <2>3. Accounted(r) /\ reads[r] \in ReadRecord /\ k \in Keys
    BY Zenon DEF ReadsAccounted, ReadsOK, ReadRecord
  <2>4. IntoOption(DiskGet(k)) = DiskView[k]
    BY <2>3, Zenon DEF DiskView, Options, DiskStates
  <2>5. get \in ReadRecord
    BY <1>0, <2>3, <2>4, Zenon DEF ReadRecord
  <2>6. reads'[r] = get
    BY <2>1, Zenon DEF ReadsOK
  <2>7. Accounted(r)'
    BY <2>1, <2>2, <2>3, <2>4, <2>6 DEF Accounted, ReadRecord
  <2> HIDE DEF get
  <2> QED BY <2>1, <2>2, <2>5, <2>7, AccountMoved, Zenon
<1> QED
  BY <1>a, <1>1, <1>2, <1>3, <1>4, <1>5, <1>6, <1>7, <1>8, <1>9, StackAssumption, Zenon
     DEF Next, vars, Open, Drop, Write, ForkWrite, Fork, ForkDrop, Switch
-----------------------------------------------------------------------------
(* The theorems.                                                           *)

\* The layers stay within their types, the log of the writes since the last
\* flush explains the disk, and the running gets are accounted for.
Explained ==
    CacheOK /\ WriterOK /\ LogOK /\ ReadsOK /\ MediumOK /\ ReadsAccounted

\* Every step keeps that, so it holds throughout.
LEMMA ExplainedInvariant == Spec => []Explained
<1>1. Init => Explained
  <2> SUFFICES ASSUME Init PROVE Explained
    BY Zenon
  <2>1. DiskStates = Nothing
    BY Zenon DEF Init, DiskStates, DiskGet, RawKeys, Nothing
  <2>2. BaseStates = Nothing
    BY <2>1, Zenon DEF Init, BaseStates, Over, Nothing
  <2>3. View = DiskView
    BY <2>1, <2>2, Zenon DEF View, DiskView
  <2>4. DiskView \in [Keys -> MaybeValue]
    BY <2>1, NothingType, OptionsType, Zenon DEF DiskView
  <2>5. LogOK
    BY <2>3, <2>4 DEF Init, LogOK
  <2>6. CacheOK
    BY StackAssumption DEF Init, CacheOK, Distinct, Cached, KeyState
  <2>7. WriterOK
    BY StackAssumption DEF Init, WriterOK
  <2>8. ReadsOK /\ ReadsAccounted
    BY StackAssumption, Zenon
       DEF Init, ReadsOK, ReadRecord, ReadsAccounted, Accounted, Idle, MaybeValue
  <2>9. MediumOK
    BY Zenon DEF Init, MediumOK
  <2> QED BY <2>5, <2>6, <2>7, <2>8, <2>9, Zenon DEF Explained
<1>2. Structure /\ Structure' /\ Explained /\ [Next]_vars => Explained'
  <2> SUFFICES ASSUME Structure, Structure', Explained, [Next]_vars
               PROVE  Explained'
    BY Zenon
  <2> USE DEF Explained
  <2>1. \A r \in Readers : reads[r].at = "cache" => IsHeader(reads[r].key)
    BY Zenon DEF ReadsAccounted, Accounted
  <2>2. CacheOK'
    BY <2>1, CacheStep, Zenon
  <2>3. WriterOK'
    BY WriterStep, Zenon
  <2>4. LogOK'
    BY LogStep, Zenon
  <2>5. ReadsOK' /\ ReadsAccounted'
    BY ReadsStep, Zenon
  <2>6. MediumOK'
    <3>1. medium' \in {"new", "sound", "corrupt"}
      BY Zenon DEF MediumOK, Next, vars, Open, Crash, Drop, Write, ForkWrite, CacheWrite,
             OverlayWrite, Drain, FlushWrite, Fork, ForkDrop, Switch, GetBegin,
             GetCached, GetOverlay, GetDisk
    <3>2. CASE Open
      <4>1. (medium # "corrupt" /\ BestBlockWhole(DiskView)) \in BOOLEAN
        BY Zenon DEF BestBlockWhole
      <4> QED BY <3>1, <3>2, <4>1, Zenon DEF Open, MediumOK
    <3>3. CASE Crash
      BY <3>1, <3>3, Zenon DEF Crash, MediumOK
    <3>4. CASE FlushWrite
      BY <3>1, <3>4, Zenon DEF FlushWrite, MediumOK
    <3>5. CASE UNCHANGED up
      BY <3>1, <3>5, Zenon DEF MediumOK
    <3> QED
      BY <3>2, <3>3, <3>4, <3>5, Zenon
         DEF Next, vars, Drop, Write, ForkWrite, CacheWrite, OverlayWrite, Drain,
             Fork, ForkDrop, Switch, GetBegin, GetCached, GetOverlay, GetDisk
  <2> QED BY <2>2, <2>3, <2>4, <2>5, <2>6, Zenon
<1> QED BY <1>1, <1>2, StructureInvariant, PTL DEF Spec

\* Every get of another thread answers with a value the key had while the get
\* ran, a header cached ahead of the overlay, or the value from before the
\* flush it met between drain and write; and the writer reads its own
\* writes.
THEOREM ReadsAreConsistent == Spec => []ReadsConsistent
<1>1. Explained => ReadsExplained
  BY Zenon DEF Explained, ReadsAccounted, Accounted, ReadsExplained
<1>2. ReadYourWrites /\ ReadsExplained => ReadsConsistent
  BY Zenon DEF ReadsConsistent
<1> QED BY <1>1, <1>2, ReadsOwnWrites, ExplainedInvariant, PTL

\* The disk is the map after a whole number of writes, at most MaxOperations
\* behind, with number and hash of the best block together, whenever the
\* process dies; the counter of the flush, the cache and its order stay
\* within their bounds.
THEOREM CrashesClean == Spec => []CrashesAreClean
<1>1. Structure /\ Explained => TypeOK
  <2> SUFFICES ASSUME Structure, Explained PROVE TypeOK
    BY Zenon
  <2> USE DEF Explained
  <2>1. {h \in HeaderKeys : header[h] # Unknown} = {recent[i] : i \in DOMAIN recent}
    BY DEF CacheOK, Cached
  <2>2. reads \in [Readers -> [at : {"none", "cache", "overlay", "disk", "done"},
                              key : Keys, seen : SUBSET MaybeValue,
                              answer : MaybeValue]]
    BY Zenon DEF ReadsOK, ReadRecord
  <2>3. medium \in {"new", "sound", "corrupt"} /\ up \in BOOLEAN
    BY Zenon DEF MediumOK
  <2>4. header \in [HeaderKeys -> KeyState]
        /\ recent \in Seq(HeaderKeys) /\ Len(recent) <= HeaderCapacity
    BY Zenon DEF CacheOK
  <2>5. /\ operations \in 0..MaxOperations /\ pos \in 1..(Len(tx) + 1)
        /\ source \in {"db", "fork", "drop"}
    BY Zenon DEF WriterOK
  <2>6. log \in Seq([Keys -> MaybeValue])
    BY Zenon DEF LogOK
  <2>7. /\ disk \in [RawKeys -> Values \cup {Unknown}]
        /\ overlay \in [Keys -> KeyState] /\ drained \in [Keys -> KeyState]
        /\ fork = NoFork \/ fork \in [Keys -> KeyState]
        /\ pc \in {"idle", "cache", "drain", "disk"} /\ tx \in Seq(Operation)
    BY Zenon DEF Structure
  <2> QED BY <2>1, <2>2, <2>3, <2>4, <2>5, <2>6, <2>7, Zenon DEF TypeOK
<1>2. Explained => CrashLosesFew
  <2> SUFFICES ASSUME Explained PROVE CrashLosesFew
    BY Zenon
  <2>1. log[1] = DiskView /\ log[Len(log)] = View /\ Len(log) = operations + 1
    BY Zenon DEF Explained, LogOK
  <2>2. operations \in 0..MaxOperations
    BY Zenon DEF Explained, WriterOK
  <2> QED BY <2>1, <2>2, StackAssumption DEF CrashLosesFew
<1>3. TypeOK /\ CrashLosesFew /\ BestBlockNeverTorn => CrashesAreClean
  BY Zenon DEF CrashesAreClean
<1> QED BY <1>1, <1>2, <1>3, StructureInvariant, ExplainedInvariant,
           BestBlockTogether, PTL
=============================================================================
