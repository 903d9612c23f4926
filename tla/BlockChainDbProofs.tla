------------------------- MODULE BlockChainDbProofs -------------------------
(***************************************************************************)
(* Proofs about BlockChainDb, for every block tree, every flush interval   *)
(* and every bound on the fork route.                                      *)
(***************************************************************************)
EXTENDS BlockChainDb, TLAPS

-----------------------------------------------------------------------------
(* Facts about the block tree and the reference ledger.                    *)

\* A chain is its last block and the chain of that block's parent.
LEMMA ChainStep ==
    ASSUME NEW b \in Blocks
    PROVE  /\ ChainOf(b) = ChainOf(Parent[b]) \cup {b}
           /\ b \notin ChainOf(Parent[b])
           /\ Strict(b) = ChainOf(Parent[b])
           /\ ChainOf(b) \subseteq Blocks
           /\ ChainOf(Parent[b]) \subseteq Blocks
<1>1. CASE b = Genesis
  BY <1>1, TreeAssumption, AncestorsAssumption, Zenon DEF ChainOf, Strict
<1>2. CASE b # Genesis
  <2>1. Parent[b] \in Blocks
    BY <1>2, TreeAssumption, Zenon
  <2>2. Ancestors[b] = Ancestors[Parent[b]] \cup {b}
    BY <1>2, AncestorsAssumption, Zenon
  <2>3. b \notin Ancestors[Parent[b]]
    <3> SUFFICES ASSUME b \in Ancestors[Parent[b]] PROVE FALSE
      BY Zenon
    <3>1. b # Parent[b]
      BY <1>2, <2>1, HeightAssumption
    <3>2. b \in Strict(Parent[b])
      BY <3>1, Zenon DEF Strict
    <3>3. Height[b] < Height[Parent[b]]
      BY <3>2, <2>1, AncestorsAssumption, Zenon
    <3> QED BY <3>3, <2>1, <1>2, HeightAssumption
  <2> QED BY <2>1, <2>2, <2>3, TreeAssumption, AncestorsAssumption DEF ChainOf, Strict
<1> QED BY <1>1, <1>2, Zenon

\* The height of a block is one more than its parent's.
LEMMA HeightStep ==
    ASSUME NEW b \in Blocks
    PROVE  /\ Height[b] \in 0..MaxHeight
           /\ Parent[b] = NoHash => Height[b] = 0
           /\ Parent[b] # NoHash => Parent[b] \in Blocks /\ Height[b] = Height[Parent[b]] + 1
           /\ \A c \in ChainOf(Parent[b]) : Height[c] < Height[b]
<1>1. \A c \in ChainOf(Parent[b]) : Height[c] < Height[b]
  BY ChainStep, AncestorsAssumption, ZenonT(60)
<1> QED BY <1>1, TreeAssumption, HeightAssumption, Zenon

\* An input of a block spends an output of a transaction of the same chain.
LEMMA InputsInChain ==
    ASSUME NEW b \in Blocks, NEW o \in InputsOf(b)
    PROVE  /\ o \in Outpoint
           /\ o.hash \in LedgerTxs(b)
<1>1. PICK i \in 2..Len(BlockTxs[b]) : o \in Prevouts[BlockTxs[b][i]]
  BY Zenon DEF InputsOf
<1>2. i \in 1..Len(BlockTxs[b]) /\ BlockTxs[b][i] \in Tx
  BY <1>1, TxAssumption
<1>3. o \in Outpoint
  BY <1>1, <1>2, TxAssumption, Zenon
<1>4. \/ \E c \in Strict(b) : o.hash \in TxsOf(c)
      \/ \E k \in 1..(i - 1) : BlockTxs[b][k] = o.hash
  BY <1>1, ValidityAssumption, Zenon
<1>5. CASE \E c \in Strict(b) : o.hash \in TxsOf(c)
  BY <1>3, <1>5, ChainStep DEF LedgerTxs
<1>6. CASE \E k \in 1..(i - 1) : BlockTxs[b][k] = o.hash
  <2>1. o.hash \in TxsOf(b)
    BY <1>6, <1>1, TxAssumption DEF TxsOf
  <2> QED BY <1>3, <2>1, ChainStep, Zenon DEF LedgerTxs
<1> QED BY <1>4, <1>5, <1>6, Zenon

\* What a block adds to the ledger is new, and nothing below it refers to it.
LEMMA LedgerStep ==
    ASSUME NEW b \in Blocks
    PROVE  /\ LedgerTxs(b) = LedgerTxs(Parent[b]) \cup TxsOf(b)
           /\ LedgerTxs(Parent[b]) \cap TxsOf(b) = {}
           /\ LedgerSpent(b) = LedgerSpent(Parent[b]) \cup InputsOf(b)
           /\ LedgerSpent(Parent[b]) \cap InputsOf(b) = {}
           /\ \A o \in LedgerSpent(Parent[b]) : o.hash \notin TxsOf(b)
           /\ LedgerCoinbase(b) = LedgerCoinbase(Parent[b]) \cup {BlockTxs[b][1]}
           /\ LedgerCoinbase(Parent[b]) \cap TxsOf(b) = {}
           /\ BlockTxs[b][1] \in TxsOf(b)
<1>1. /\ ChainOf(b) = ChainOf(Parent[b]) \cup {b}
      /\ Strict(b) = ChainOf(Parent[b])
      /\ ChainOf(Parent[b]) \subseteq Blocks
  BY ChainStep, Zenon
<1>2. \A c \in ChainOf(Parent[b]) : InputsOf(b) \cap InputsOf(c) = {} /\ TxsOf(b) \cap TxsOf(c) = {}
  BY <1>1, ValidityAssumption, Zenon
<1>3. \A c \in Blocks : 1 \in DOMAIN BlockTxs[c] /\ BlockTxs[c][1] \in TxsOf(c)
  BY TxAssumption DEF TxsOf
<1>4. /\ LedgerTxs(b) = LedgerTxs(Parent[b]) \cup TxsOf(b)
      /\ LedgerSpent(b) = LedgerSpent(Parent[b]) \cup InputsOf(b)
  BY <1>1, Zenon DEF LedgerTxs, LedgerSpent
<1>5. LedgerCoinbase(b) = LedgerCoinbase(Parent[b]) \cup {BlockTxs[b][1]}
  BY <1>1, Zenon DEF LedgerCoinbase
<1>6. /\ LedgerTxs(Parent[b]) \cap TxsOf(b) = {}
      /\ LedgerSpent(Parent[b]) \cap InputsOf(b) = {}
  BY <1>2, Zenon DEF LedgerTxs, LedgerSpent
<1>7. LedgerCoinbase(Parent[b]) \cap TxsOf(b) = {}
  BY <1>1, <1>2, <1>3, Zenon DEF LedgerCoinbase
<1>8. ASSUME NEW o \in LedgerSpent(Parent[b]) PROVE o.hash \notin TxsOf(b)
  <2>1. PICK c \in ChainOf(Parent[b]) : o \in InputsOf(c)
    BY Zenon DEF LedgerSpent
  <2>2. o.hash \in LedgerTxs(c)
    BY <2>1, <1>1, InputsInChain, Zenon
  <2>3. PICK cc \in ChainOf(c) : o.hash \in TxsOf(cc)
    BY <2>2, Zenon DEF LedgerTxs
  <2>4. c \in Blocks /\ c # NoHash /\ Parent[b] # NoHash /\ Parent[b] \in Blocks
    BY <2>1, <1>1, TreeAssumption, Zenon DEF ChainOf
  <2>5. Ancestors[c] \subseteq Ancestors[Parent[b]]
    BY <2>1, <2>4, AncestorsAssumption, Zenon DEF ChainOf, Strict
  <2>6. cc \in ChainOf(Parent[b])
    BY <2>3, <2>4, <2>5, Zenon DEF ChainOf
  <2> QED BY <2>3, <2>6, <1>2, Zenon
<1> QED BY <1>3, <1>4, <1>5, <1>6, <1>7, <1>8, Zenon

-----------------------------------------------------------------------------
(* Facts about the operations on the columns.                              *)

\* The transactions of every stored block are present.
WholeIn(d) == \A b \in d.stored : TxsOf(b) \subseteq d.txs

\* What every view of the store satisfies at all times.
SafeView(d) ==
    /\ IndexOf(d)
    /\ LedgerOf(d)
    /\ WholeIn(d)
    /\ ChainOf(d.best.hash) \subseteq d.stored

\* A block read back whole has all its transactions, the first one is the
\* coinbase, and each input sets one bit that no later insertion resets.
LEMMA WholeBody ==
    ASSUME NEW d, NEW b \in Blocks, TxsOf(b) \subseteq d.txs
    PROVE  /\ Body(d, b) = 1..Len(BlockTxs[b])
           /\ SkipFirst(Body(d, b)) = 2..Len(BlockTxs[b])
           /\ TxsAt(b, Body(d, b)) = TxsOf(b)
           /\ TxsAt(b, Body(d, b) \ SkipFirst(Body(d, b))) = {BlockTxs[b][1]}
           /\ InputsAt(b, Body(d, b)) = InputsOf(b)
           /\ BitsSet(b, Body(d, b)) = InputsOf(b)
<1> DEFINE n == Len(BlockTxs[b])
<1>1. /\ n \in Nat /\ n > 0
      /\ DOMAIN BlockTxs[b] = 1..n
      /\ \A i \in 1..n : BlockTxs[b][i] \in Tx
      /\ \A i, j \in 1..n : BlockTxs[b][i] = BlockTxs[b][j] => i = j
  BY TxAssumption
<1>2. Body(d, b) = 1..n
  BY <1>1, Zenon DEF Body, TxsOf
<1>3. SkipFirst(1..n) = 2..n
  <2>1. \A i \in 2..n : i \in 1..n /\ 1 \in 1..n /\ 1 < i
    BY <1>1
  <2>2. \A i \in 1..n : \A j \in 1..n : j < i => i \in 2..n
    BY <1>1
  <2> QED BY <2>1, <2>2, Zenon DEF SkipFirst
<1>4. TxsAt(b, 1..n) = TxsOf(b)
  BY <1>1, Zenon DEF TxsAt, TxsOf
<1>5. TxsAt(b, (1..n) \ (2..n)) = {BlockTxs[b][1]}
  <2>1. (1..n) \ (2..n) = {1}
    BY <1>1
  <2> QED BY <2>1, Zenon DEF TxsAt
<1>6. InputsAt(b, 1..n) = InputsOf(b)
  BY <1>3, Zenon DEF InputsAt, InputsOf
<1>7. ASSUME NEW i \in 2..n, NEW o \in Prevouts[BlockTxs[b][i]], NEW k \in 1..n, k > i
      PROVE  BlockTxs[b][k] # o.hash
  <2> SUFFICES ASSUME BlockTxs[b][k] = o.hash PROVE FALSE
    BY Zenon
  <2>1. o.hash \in TxsOf(b)
    BY <1>1, Zenon DEF TxsOf
  <2>2. ~ \E c \in Strict(b) : o.hash \in TxsOf(c)
    BY <2>1, ValidityAssumption, Zenon
  <2>3. PICK m \in 1..(i - 1) : BlockTxs[b][m] = o.hash
    BY <2>2, ValidityAssumption, Zenon
  <2>4. m \in 1..n /\ m # k
    BY <1>1, <1>7, <2>3
  <2> QED BY <1>1, <2>3, <2>4, Zenon
<1>8. BitsSet(b, 1..n) = InputsOf(b)
  BY <1>3, <1>7 DEF BitsSet, InputsOf
<1> QED BY <1>2, <1>3, <1>4, <1>5, <1>6, <1>8, Zenon

\* The empty store is safe.
LEMMA EmptySafe == EmptyColumns \in Columns /\ SafeView(EmptyColumns)
<1>1. EmptyColumns \in Columns
  BY HeightAssumption DEF EmptyColumns, Columns
<1>2. SafeView(EmptyColumns)
  BY TreeAssumption, Zenon DEF EmptyColumns, SafeView, IndexOf, LedgerOf, WholeIn, ChainOf,
     LedgerTxs, LedgerCoinbase, LedgerSpent
<1> QED BY <1>1, <1>2, Zenon

\* insert keeps a safe view safe.
LEMMA InsertSafe ==
    ASSUME NEW d \in Columns, NEW b \in Blocks, SafeView(d)
    PROVE  /\ Insert(d, b) \in Columns
           /\ SafeView(Insert(d, b))
           /\ Insert(d, b).best = d.best
           /\ Insert(d, b).stored = d.stored \cup {b}
<1>1. TxsOf(b) \subseteq Tx
  BY TxAssumption DEF TxsOf
<1>2. CASE b \in d.stored
  BY <1>2, Zenon DEF Insert
<1>3. CASE b \notin d.stored
  <2> DEFINE dd == [d EXCEPT !.stored = @ \cup {b}, !.txs = @ \cup TxsOf(b)]
  <2>1. Insert(d, b) = dd
    BY <1>3, Zenon DEF Insert
  <2>2. dd \in Columns
    BY <1>1, Zenon DEF Columns
  <2>3. /\ dd.best = d.best
        /\ dd.stored = d.stored \cup {b}
        /\ dd.txs = d.txs \cup TxsOf(b)
        /\ dd.hashes = d.hashes
        /\ dd.numbers = d.numbers
        /\ dd.height = d.height
        /\ dd.coinbase = d.coinbase
        /\ dd.spent = d.spent
    BY Zenon DEF Columns
  <2> HIDE DEF dd
  <2>4. IndexOf(dd) /\ LedgerOf(dd)
    BY <2>3 DEF SafeView, IndexOf, LedgerOf
  <2>5. WholeIn(dd)
    BY <2>3, Zenon DEF SafeView, WholeIn
  <2> QED BY <2>1, <2>2, <2>3, <2>4, <2>5, Zenon DEF SafeView
<1> QED BY <1>2, <1>3, Zenon

\* canonize keeps a safe view safe: the new block extends the chain by one.
LEMMA CanonizeSafe ==
    ASSUME NEW d \in Columns, NEW b \in Blocks, SafeView(d), CanCanonize(d, b)
    PROVE  /\ Canonize(d, b) \in Columns
           /\ SafeView(Canonize(d, b))
           /\ Canonize(d, b).best.hash = b
           /\ Canonize(d, b).best.number = Height[b]
           /\ Canonize(d, b).stored = d.stored
<1> DEFINE p == Parent[b]
           n == Height[b]
           dd == Canonize(d, b)
<1>1. d.best.hash = p /\ b \in d.stored /\ p \in Blocks \cup {NoHash}
  BY TreeAssumption, Zenon DEF CanCanonize
<1>2. TxsOf(b) \subseteq d.txs
  BY <1>1, Zenon DEF SafeView, WholeIn
<1>3. /\ TxsAt(b, Body(d, b)) = TxsOf(b)
      /\ TxsAt(b, Body(d, b) \ SkipFirst(Body(d, b))) = {BlockTxs[b][1]}
      /\ BitsSet(b, Body(d, b)) = InputsOf(b)
  BY <1>2, WholeBody, Zenon
<1>4. (IF p = NoHash THEN 0 ELSE d.best.number + 1) = n
  BY <1>1, HeightStep DEF SafeView, IndexOf
<1> DEFINE H == [d.hashes EXCEPT ![n] = b]
           N == [d.numbers EXCEPT ![b] = n]
           B == [hash |-> b, number |-> n]
           T == [t \in Tx |-> IF t \in TxsOf(b) THEN n ELSE d.height[t]]
           C == (d.coinbase \ TxsOf(b)) \cup {BlockTxs[b][1]}
           S == {o \in d.spent : o.hash \notin TxsOf(b)} \cup InputsOf(b)
<1>5. dd = [d EXCEPT !.hashes = H, !.numbers = N, !.best = B,
                     !.height = T, !.coinbase = C, !.spent = S]
  BY <1>3, <1>4, Zenon DEF Canonize
<1>6. /\ dd.stored = d.stored /\ dd.txs = d.txs
      /\ dd.hashes = H /\ dd.numbers = N /\ dd.best = B
      /\ dd.height = T /\ dd.coinbase = C /\ dd.spent = S
  <2> HIDE DEF dd, H, N, B, T, C, S
  <2> QED BY <1>5, Zenon DEF Columns
<1>7. n \in 0..MaxHeight
  BY HeightStep, Zenon
<1>8. TxsOf(b) \subseteq Tx /\ BlockTxs[b][1] \in Tx /\ InputsOf(b) \subseteq Outpoint
  BY InputsInChain, TxAssumption DEF TxsOf
<1>9. dd \in Columns
  <2>1. H \in [0..MaxHeight -> Blocks \cup {NoHash}]
    BY Zenon DEF Columns
  <2>2. N \in [Blocks -> -1..MaxHeight]
    BY <1>7, HeightAssumption DEF Columns
  <2>3. T \in [Tx -> -1..MaxHeight]
    BY <1>7, HeightAssumption DEF Columns
  <2>4. /\ B \in [hash : Blocks \cup {NoHash}, number : 0..MaxHeight]
        /\ C \in SUBSET Tx
        /\ S \in SUBSET Outpoint
    BY <1>7, <1>8, Zenon DEF Columns
  <2> HIDE DEF dd, H, N, B, T, C, S
  <2> QED BY <1>5, <2>1, <2>2, <2>3, <2>4, Zenon DEF Columns
<1>10. ChainOf(b) = ChainOf(p) \cup {b} /\ b \notin ChainOf(p) /\ ChainOf(p) \subseteq Blocks
  BY ChainStep, Zenon
<1>11. IndexOf(dd)
  <2>1. dd.best.number = IF dd.best.hash = NoHash THEN 0 ELSE Height[dd.best.hash]
    BY <1>6, TreeAssumption
  <2>2. ASSUME NEW c \in Blocks
        PROVE  dd.numbers[c] = IF c \in ChainOf(b) THEN Height[c] ELSE -1
    BY <1>1, <1>6, <1>10 DEF SafeView, IndexOf, Columns
  <2>3. ASSUME NEW m \in 0..MaxHeight, NEW c \in Blocks
        PROVE  dd.hashes[m] = c <=> c \in ChainOf(b) /\ Height[c] = m
    <3>1. d.hashes[m] = c <=> c \in ChainOf(p) /\ Height[c] = m
      BY <1>1, ZenonT(60) DEF SafeView, IndexOf
    <3>2. c \in ChainOf(p) => Height[c] < n
      BY HeightStep, Zenon
    <3>3. dd.hashes[m] = IF m = n THEN b ELSE d.hashes[m]
      BY <1>6, Zenon DEF Columns
    <3> QED BY <3>1, <3>2, <3>3, <1>7, <1>10, HeightAssumption
  <2> QED BY <1>6, <2>1, <2>2, <2>3 DEF IndexOf
<1>12. LedgerOf(dd)
  <2>1. /\ \A t \in Tx : t \notin LedgerTxs(p) => d.height[t] = -1
        /\ \A c \in ChainOf(p) : \A t \in TxsOf(c) : d.height[t] = Height[c]
        /\ d.coinbase = LedgerCoinbase(p)
        /\ d.spent = LedgerSpent(p)
    BY <1>1, Zenon DEF SafeView, LedgerOf
  <2>2. \A t \in Tx : t \notin LedgerTxs(b) => dd.height[t] = -1
    BY <1>6, <2>1, LedgerStep
  <2>3. \A c \in ChainOf(b) : \A t \in TxsOf(c) : dd.height[t] = Height[c]
    <3>1. \A c \in ChainOf(p) : \A t \in TxsOf(c) : t \in Tx /\ t \notin TxsOf(b)
      <4>1. \A c \in Blocks : TxsOf(c) \subseteq Tx
        BY TxAssumption DEF TxsOf
      <4> QED BY <1>10, <4>1, LedgerStep, ZenonT(60) DEF LedgerTxs
    <3> QED BY <1>6, <1>8, <1>10, <2>1, <3>1
  <2>4. dd.coinbase = LedgerCoinbase(b)
    BY <1>6, <2>1, LedgerStep
  <2>5. dd.spent = LedgerSpent(b)
    BY <1>6, <2>1, LedgerStep
  <2> QED BY <1>6, <2>2, <2>3, <2>4, <2>5 DEF LedgerOf
<1>13. WholeIn(dd) /\ ChainOf(b) \subseteq dd.stored
  BY <1>1, <1>6, <1>10, Zenon DEF SafeView, WholeIn
<1> QED BY <1>6, <1>9, <1>11, <1>12, <1>13 DEF SafeView

\* decanonize keeps a safe view safe: it restores the ledger of the parent.
LEMMA DecanonizeSafe ==
    ASSUME NEW d \in Columns, SafeView(d), d.best.hash \in Blocks
    PROVE  /\ Decanonize(d) \in Columns
           /\ SafeView(Decanonize(d))
           /\ Decanonize(d).best.hash = Parent[d.best.hash]
           /\ Decanonize(d).stored = d.stored
           /\ Decanonize(d).txs = d.txs
<1> DEFINE b == d.best.hash
           p == Parent[b]
           n == IF d.best.number > 0 THEN d.best.number - 1 ELSE 0
           dd == Decanonize(d)
<1>1. b \in d.stored /\ p \in Blocks \cup {NoHash} /\ d.best.number = Height[b]
  BY ChainStep, TreeAssumption DEF SafeView, IndexOf
<1>2. TxsOf(b) \subseteq d.txs
  BY <1>1, Zenon DEF SafeView, WholeIn
<1>3. TxsAt(b, Body(d, b)) = TxsOf(b) /\ InputsAt(b, Body(d, b)) = InputsOf(b)
  BY <1>2, WholeBody, Zenon
<1>4. n = IF p = NoHash THEN 0 ELSE Height[p]
  BY <1>1, HeightStep, HeightAssumption
<1> DEFINE H == [d.hashes EXCEPT ![d.best.number] = NoHash]
           N == [d.numbers EXCEPT ![b] = -1]
           B == [hash |-> p, number |-> n]
           T == [t \in Tx |-> IF t \in TxsOf(b) THEN -1 ELSE d.height[t]]
           C == d.coinbase \ TxsOf(b)
           S == {o \in d.spent \ InputsOf(b) : o.hash \notin TxsOf(b)}
<1>5. dd = [d EXCEPT !.hashes = H, !.numbers = N, !.best = B,
                     !.height = T, !.coinbase = C, !.spent = S]
  BY <1>3, Zenon DEF Decanonize
<1>6. /\ dd.stored = d.stored /\ dd.txs = d.txs
      /\ dd.hashes = H /\ dd.numbers = N /\ dd.best = B
      /\ dd.height = T /\ dd.coinbase = C /\ dd.spent = S
  <2> HIDE DEF dd, H, N, B, T, C, S
  <2> QED BY <1>5, Zenon DEF Columns
<1>7. n \in 0..MaxHeight
  BY <1>1, <1>4, HeightAssumption
<1>8. dd \in Columns
  <2>1. H \in [0..MaxHeight -> Blocks \cup {NoHash}]
    BY Zenon DEF Columns
  <2>2. N \in [Blocks -> -1..MaxHeight]
    BY HeightAssumption DEF Columns
  <2>3. T \in [Tx -> -1..MaxHeight]
    BY HeightAssumption DEF Columns
  <2>4. /\ B \in [hash : Blocks \cup {NoHash}, number : 0..MaxHeight]
        /\ C \in SUBSET Tx
        /\ S \in SUBSET Outpoint
    BY <1>1, <1>7, Zenon DEF Columns
  <2> HIDE DEF dd, H, N, B, T, C, S
  <2> QED BY <1>5, <2>1, <2>2, <2>3, <2>4, Zenon DEF Columns
<1>9. ChainOf(b) = ChainOf(p) \cup {b} /\ b \notin ChainOf(p) /\ ChainOf(p) \subseteq Blocks
  BY ChainStep, Zenon
<1>10. IndexOf(dd)
  <2>1. ASSUME NEW c \in Blocks
        PROVE  dd.numbers[c] = IF c \in ChainOf(p) THEN Height[c] ELSE -1
    BY <1>6, <1>9 DEF SafeView, IndexOf, Columns
  <2>2. ASSUME NEW m \in 0..MaxHeight, NEW c \in Blocks
        PROVE  dd.hashes[m] = c <=> c \in ChainOf(p) /\ Height[c] = m
    <3>1. d.hashes[m] = c <=> c \in ChainOf(b) /\ Height[c] = m
      BY Zenon DEF SafeView, IndexOf
    <3>2. c \in ChainOf(p) => Height[c] < Height[b]
      BY HeightStep, Zenon
    <3>3. dd.hashes[m] = IF m = Height[b] THEN NoHash ELSE d.hashes[m]
      BY <1>1, <1>6, ZenonT(60) DEF Columns
    <3> QED BY <3>1, <3>2, <3>3, <1>9, HeightAssumption, TreeAssumption
  <2> QED BY <1>4, <1>6, <2>1, <2>2 DEF IndexOf
<1>11. LedgerOf(dd)
  <2>1. /\ \A t \in Tx : t \notin LedgerTxs(b) => d.height[t] = -1
        /\ \A c \in ChainOf(b) : \A t \in TxsOf(c) : d.height[t] = Height[c]
        /\ d.coinbase = LedgerCoinbase(b)
        /\ d.spent = LedgerSpent(b)
    BY Zenon DEF SafeView, LedgerOf
  <2>2. \A t \in Tx : t \notin LedgerTxs(p) => dd.height[t] = -1
    BY <1>6, <2>1, LedgerStep
  <2>3. \A c \in ChainOf(p) : \A t \in TxsOf(c) : dd.height[t] = Height[c]
    <3>1. \A c \in Blocks : TxsOf(c) \subseteq Tx
      BY TxAssumption DEF TxsOf
    <3>2. \A c \in ChainOf(p) : \A t \in TxsOf(c) : t \in Tx /\ t \notin TxsOf(b)
      BY <1>9, <3>1, LedgerStep DEF LedgerTxs
    <3> QED BY <1>6, <1>9, <2>1, <3>2
  <2>4. dd.coinbase = LedgerCoinbase(p)
    <3>1. BlockTxs[b][1] \in TxsOf(b)
      BY LedgerStep, Zenon
    <3> QED BY <1>6, <2>1, <3>1, LedgerStep
  <2>5. dd.spent = LedgerSpent(p)
    BY <1>6, <2>1, LedgerStep
  <2> QED BY <1>6, <2>2, <2>3, <2>4, <2>5 DEF LedgerOf
<1>12. WholeIn(dd) /\ ChainOf(p) \subseteq dd.stored
  BY <1>6, <1>9, Zenon DEF SafeView, WholeIn
<1> QED BY <1>6, <1>8, <1>10, <1>11, <1>12 DEF SafeView

\* No two blocks have a transaction in common.
NoSharing == \A b, c \in Blocks : b # c => TxsOf(b) \cap TxsOf(c) = {}

\* Without shared transactions, rollback_best's deletions keep a view safe.
LEMMA EraseSafe ==
    ASSUME NEW d \in Columns, NEW b \in Blocks, SafeView(d), NoSharing,
           b \notin ChainOf(d.best.hash)
    PROVE  /\ Erase(d, b) \in Columns
           /\ SafeView(Erase(d, b))
<1> DEFINE dd == [d EXCEPT !.stored = @ \ {b}, !.txs = @ \ TxsOf(b)]
<1>1. Erase(d, b) = dd
  BY Zenon DEF Erase
<1>2. dd \in Columns
  BY Zenon DEF Columns
<1>3. /\ dd.best = d.best
      /\ dd.stored = d.stored \ {b}
      /\ dd.txs = d.txs \ TxsOf(b)
      /\ dd.hashes = d.hashes
      /\ dd.numbers = d.numbers
      /\ dd.height = d.height
      /\ dd.coinbase = d.coinbase
      /\ dd.spent = d.spent
  BY Zenon DEF Columns
<1>4. d.stored \subseteq Blocks
  BY Zenon DEF Columns
<1> HIDE DEF dd
<1>5. IndexOf(dd) /\ LedgerOf(dd)
  BY <1>3 DEF SafeView, IndexOf, LedgerOf
<1>6. WholeIn(dd)
  BY <1>3, <1>4, Zenon DEF SafeView, WholeIn, NoSharing
<1> QED BY <1>1, <1>2, <1>3, <1>5, <1>6, Zenon DEF SafeView

-----------------------------------------------------------------------------
(* The inductive invariant.                                                *)

\* What an operation in progress remembers.
TaskInv ==
    /\ task.pc \notin {"idle", "failed"} => task.block \in Blocks
    /\ At("walk") => task.next \in Blocks
    /\ At("erase") => RollbackEnabled /\ task.block \notin ChainOf(db.best.hash)

\* Every view is safe, and so is every operation in progress.
SafeInv ==
    /\ TypeOK
    /\ SafeView(db) /\ SafeView(disk) /\ SafeView(fork)
    /\ TaskInv

\* A write of a safe view leaves safe columns in memory and on disk.
LEMMA WriteSafe ==
    ASSUME NEW d \in Columns, SafeView(d), SafeInv, Write(d)
    PROVE  /\ db' = d
           /\ db' \in Columns /\ disk' \in Columns
           /\ writes' \in 0..(FlushEvery - 1)
           /\ SafeView(db') /\ SafeView(disk')
BY DbAssumption DEF Write, SafeInv, TypeOK

\* A step that writes nothing leaves the columns as they are.
LEMMA NoWriteSafe ==
    ASSUME SafeInv, NoWrite
    PROVE  /\ db' = db
           /\ db' \in Columns /\ disk' \in Columns
           /\ writes' \in 0..(FlushEvery - 1)
           /\ SafeView(db') /\ SafeView(disk')
BY Zenon DEF NoWrite, SafeInv, TypeOK

\* Idle and Failed are well-typed tasks with nothing to remember.
LEMMA IdleTask ==
    /\ Idle \in Tasks /\ Failed \in Tasks
    /\ Idle.pc = "idle" /\ Failed.pc = "failed"
    /\ \A q \in {"insert", "side", "erase"} : \A b \in Blocks :
          LET t == [Idle EXCEPT !.pc = q, !.block = b]
          IN  t \in Tasks /\ t.pc = q /\ t.block = b
<1>1. << >> \in Seq(Blocks)
  OBVIOUS
<1>2. << >> \in UNION {[S -> Blocks] : S \in SUBSET (0..MaxHeight)}
  <2>1. << >> \in [{} -> Blocks]
    OBVIOUS
  <2> QED BY <2>1, Zenon
<1> QED BY <1>1, <1>2, Zenon DEF Idle, Failed, Tasks

\* The store is initialised empty and idle.
LEMMA InitSafe == Init => SafeInv
<1> SUFFICES ASSUME Init PROVE SafeInv
  BY Zenon
<1>1. TypeOK
  <2>1. 0 \in 0..(FlushEvery - 1)
    BY DbAssumption
  <2>2. Idle \in Tasks /\ EmptyColumns \in Columns
    BY EmptySafe, IdleTask, Zenon
  <2> QED BY <2>1, <2>2, Zenon DEF Init, TypeOK
<1>2. SafeView(db) /\ SafeView(disk) /\ SafeView(fork)
  BY EmptySafe, Zenon DEF Init
<1>3. TaskInv
  BY IdleTask, Zenon DEF Init, TaskInv, At
<1> QED BY <1>1, <1>2, <1>3, Zenon DEF SafeInv

\* A step that ends idle or failed is safe when its columns are.
LEMMA EndSafe ==
    ASSUME db' \in Columns, disk' \in Columns, fork' \in Columns,
           writes' \in 0..(FlushEvery - 1),
           SafeView(db'), SafeView(disk'), SafeView(fork'),
           task' \in {Idle, Failed}
    PROVE  SafeInv'
<1>1. TypeOK'
  BY IdleTask, Zenon DEF TypeOK
<1>2. TaskInv'
  BY IdleTask, Zenon DEF TaskInv, At
<1> QED BY <1>1, <1>2, Zenon DEF SafeInv

\* init_db and the first part of insert_best_block.
LEMMA BeginSafe ==
    ASSUME SafeInv, InitDb \/ \E b \in Blocks : BeginInsert(b)
    PROVE  SafeInv'
<1>1. NoWrite /\ fork' = fork
  BY Zenon DEF InitDb, BeginInsert
<1>2. \/ task' = Failed
      \/ \E b \in Blocks : task' = [Idle EXCEPT !.pc = "insert", !.block = b]
      \/ \E b \in Blocks : /\ Parent[b] \in db.stored
                           /\ task' = [Idle EXCEPT !.pc = "walk", !.block = b, !.next = Parent[b]]
  BY TreeAssumption, Zenon DEF InitDb, BeginInsert
<1>3. fork' \in Columns /\ SafeView(fork') /\ db.stored \subseteq Blocks
  BY <1>1, Zenon DEF SafeInv, TypeOK, Columns
<1>4. CASE task' = Failed
  BY <1>1, <1>3, <1>4, NoWriteSafe, EndSafe, Zenon
<1>5. ASSUME NEW b \in Blocks, task' = [Idle EXCEPT !.pc = "insert", !.block = b]
      PROVE  SafeInv'
  <2>1. task' \in Tasks /\ task'.pc = "insert" /\ task'.block = b
    BY <1>5, IdleTask, Zenon
  <2> QED BY <1>1, <1>3, <2>1, NoWriteSafe, Zenon DEF SafeInv, TypeOK, TaskInv, At
<1>6. ASSUME NEW b \in Blocks, Parent[b] \in Blocks,
             task' = [Idle EXCEPT !.pc = "walk", !.block = b, !.next = Parent[b]]
      PROVE  SafeInv'
  <2>1. task' \in Tasks /\ task'.pc = "walk" /\ task'.block = b /\ task'.next = Parent[b]
    BY <1>6, IdleTask, Zenon DEF Tasks
  <2> QED BY <1>1, <1>3, <1>6, <2>1, NoWriteSafe, Zenon DEF SafeInv, TypeOK, TaskInv, At
<1> QED BY <1>2, <1>3, <1>4, <1>5, <1>6, Zenon

\* The walk of block_origin.
LEMMA WalkSafe ==
    ASSUME SafeInv, WalkDown \/ WalkTooLong \/ WalkDone
    PROVE  SafeInv'
<1>1. NoWrite /\ At("walk") /\ task \in Tasks /\ task.block \in Blocks /\ task.next \in Blocks
  BY Zenon DEF WalkDown, WalkTooLong, WalkDone, SafeInv, TypeOK, TaskInv, At
<1>2. db' = db /\ db' \in Columns /\ disk' \in Columns /\ writes' \in 0..(FlushEvery - 1)
      /\ SafeView(db') /\ SafeView(disk') /\ fork \in Columns /\ SafeView(fork)
  BY <1>1, NoWriteSafe, Zenon DEF SafeInv, TypeOK
<1>3. CASE WalkDown
  <2>1. fork' = fork
    BY <1>3, Zenon DEF WalkDown
  <2>2. CASE task' = Failed
    BY <1>2, <2>1, <2>2, EndSafe, Zenon
  <2>3. CASE /\ task' = [task EXCEPT !.route = <<task.next>> \o @, !.next = Parent[task.next]]
             /\ Parent[task.next] # NoHash
    <3>1. Parent[task.next] \in Blocks
      BY <1>1, <2>3, TreeAssumption, Zenon
    <3>2. <<task.next>> \o task.route \in Seq(Blocks)
      BY <1>1 DEF Tasks
    <3>3. /\ task' \in Tasks /\ task'.pc = "walk"
          /\ task'.block \in Blocks /\ task'.next \in Blocks
      BY <1>1, <2>3, <3>1, <3>2, Zenon DEF Tasks, At
    <3> QED BY <1>2, <2>1, <3>3, Zenon DEF SafeInv, TypeOK, TaskInv, At
  <2> QED BY <1>3, <2>2, <2>3, Zenon DEF WalkDown
<1>4. CASE WalkTooLong
  BY <1>2, <1>4, EndSafe, Zenon DEF WalkTooLong
<1>5. CASE WalkDone
  <2>1. CASE /\ fork' = db
             /\ task' = [task EXCEPT !.pc = "fork", !.down = DecanonizedRoute(db.numbers[task.next])]
    <3>1. DecanonizedRoute(db.numbers[task.next])
             \in UNION {[S -> Blocks] : S \in SUBSET (0..MaxHeight)}
      <4> DEFINE k == db.numbers[task.next]
                 D == {m \in (k + 1)..db.best.number : db.hashes[m] # NoHash}
      <4>1. k \in -1..MaxHeight /\ db.best.number \in 0..MaxHeight
            /\ db.hashes \in [0..MaxHeight -> Blocks \cup {NoHash}]
        BY <1>1, <1>2, Zenon DEF Columns
      <4>2. D \in SUBSET (0..MaxHeight)
        BY <4>1, HeightAssumption
      <4>3. [m \in D |-> db.hashes[m]] \in [D -> Blocks]
        BY <4>1, <4>2, Zenon
      <4> QED BY <4>2, <4>3, Zenon DEF DecanonizedRoute
    <3>2. task' \in Tasks /\ task'.pc = "fork" /\ task'.block \in Blocks
      BY <1>1, <2>1, <3>1, Zenon DEF Tasks
    <3> QED BY <1>2, <2>1, <3>2, Zenon DEF SafeInv, TypeOK, TaskInv, At
  <2>2. CASE /\ fork' = fork
             /\ task' = [Idle EXCEPT !.pc = "side", !.block = task.block]
    <3>1. task' \in Tasks /\ task'.pc = "side" /\ task'.block \in Blocks
      BY <1>1, <2>2, IdleTask, Zenon
    <3> QED BY <1>2, <2>2, <3>1, Zenon DEF SafeInv, TypeOK, TaskInv, At
  <2> QED BY <1>5, <2>1, <2>2, Zenon DEF WalkDone
<1> QED BY <1>3, <1>4, <1>5, Zenon

\* Insertions and canonizations in the store itself.
LEMMA StoreSafe ==
    ASSUME SafeInv, InsertCanon \/ CanonizeBlock \/ InsertSide
    PROVE  SafeInv'
<1> DEFINE b == task.block
<1>1. b \in Blocks /\ task \in Tasks /\ task.pc \in {"insert", "canonize", "side"}
  BY Zenon DEF InsertCanon, CanonizeBlock, InsertSide, SafeInv, TypeOK, TaskInv, At
<1>2. fork' = fork /\ fork' \in Columns /\ SafeView(fork')
  BY Zenon DEF InsertCanon, CanonizeBlock, InsertSide, SafeInv, TypeOK
<1>3. Insert(db, b) \in Columns /\ SafeView(Insert(db, b))
  BY <1>1, InsertSafe, Zenon DEF SafeInv, TypeOK
<1>4. CanCanonize(db, b) => Canonize(db, b) \in Columns /\ SafeView(Canonize(db, b))
  BY <1>1, CanonizeSafe, Zenon DEF SafeInv, TypeOK
<1>5. NoWrite \/ Write(Insert(db, b)) \/ (CanCanonize(db, b) /\ Write(Canonize(db, b)))
  BY Zenon DEF InsertCanon, CanonizeBlock, InsertSide
<1>6. /\ db' \in Columns /\ disk' \in Columns /\ writes' \in 0..(FlushEvery - 1)
      /\ SafeView(db') /\ SafeView(disk')
  BY <1>3, <1>4, <1>5, NoWriteSafe, WriteSafe, Zenon
<1>7. CASE task' \in {Idle, Failed}
  BY <1>2, <1>6, <1>7, EndSafe, Zenon
<1>8. CASE task' = [task EXCEPT !.pc = "canonize"]
  <2>1. task' \in Tasks /\ task'.pc = "canonize" /\ task'.block \in Blocks
    BY <1>1, <1>8, Zenon DEF Tasks
  <2> QED BY <1>2, <1>6, <2>1, Zenon DEF SafeInv, TypeOK, TaskInv, At
<1> QED BY <1>7, <1>8, Zenon DEF InsertCanon, CanonizeBlock, InsertSide

\* Building a fork and switching to it.
LEMMA ForkSafe ==
    ASSUME SafeInv, ForkDecanonize \/ ForkCanonize \/ SwitchToFork
    PROVE  SafeInv'
<1>1. task.block \in Blocks /\ task \in Tasks /\ task.pc = "fork"
  BY Zenon DEF ForkDecanonize, ForkCanonize, SwitchToFork, SafeInv, TypeOK, TaskInv, At
<1>2. fork \in Columns /\ SafeView(fork)
  BY Zenon DEF SafeInv, TypeOK
<1>3. EmptyColumns \in Columns /\ SafeView(EmptyColumns)
  BY EmptySafe, Zenon
<1>4. CASE ForkDecanonize
  <2>1. NoWrite
    BY <1>4, Zenon DEF ForkDecanonize
  <2>2. CASE task' = Failed /\ fork' = EmptyColumns
    BY <1>3, <2>1, <2>2, NoWriteSafe, EndSafe, Zenon
  <2>3. CASE /\ CanDecanonize(fork)
             /\ fork' = Decanonize(fork)
             /\ \E n : task' = [task EXCEPT !.down = [k \in DOMAIN task.down \ {n} |-> task.down[k]]]
    <3>1. fork.best.hash \in Blocks
      BY <1>2, <2>3, Zenon DEF CanDecanonize, Columns
    <3>2. fork' \in Columns /\ SafeView(fork')
      BY <1>2, <2>3, <3>1, DecanonizeSafe, Zenon
    <3>3. PICK n : task' = [task EXCEPT !.down = [k \in DOMAIN task.down \ {n} |-> task.down[k]]]
      BY <2>3, Zenon
    <3>4. [k \in DOMAIN task.down \ {n} |-> task.down[k]]
             \in UNION {[S -> Blocks] : S \in SUBSET (0..MaxHeight)}
      <4>1. PICK S \in SUBSET (0..MaxHeight) : task.down \in [S -> Blocks]
        BY <1>1, Zenon DEF Tasks
      <4>2. [k \in DOMAIN task.down \ {n} |-> task.down[k]] \in [S \ {n} -> Blocks]
        BY <4>1, Zenon
      <4> QED BY <4>2, Zenon
    <3>5. task' \in Tasks /\ task'.pc = "fork" /\ task'.block \in Blocks
      BY <1>1, <3>3, <3>4, Zenon DEF Tasks
    <3> QED BY <2>1, <3>2, <3>5, NoWriteSafe, Zenon DEF SafeInv, TypeOK, TaskInv, At
  <2> QED BY <1>4, <2>2, <2>3, Zenon DEF ForkDecanonize
<1>5. CASE ForkCanonize
  <2>1. NoWrite
    BY <1>5, Zenon DEF ForkCanonize
  <2>2. CASE task' = Failed /\ fork' = EmptyColumns
    BY <1>3, <2>1, <2>2, NoWriteSafe, EndSafe, Zenon
  <2>3. CASE /\ CanCanonize(fork, Head(task.route))
             /\ fork' = Canonize(fork, Head(task.route))
             /\ task' = [task EXCEPT !.route = Tail(@)]
    <3>1. Head(task.route) \in Blocks /\ Tail(task.route) \in Seq(Blocks)
      BY <1>1, <1>5 DEF Tasks, ForkCanonize
    <3>2. fork' \in Columns /\ SafeView(fork')
      BY <1>2, <2>3, <3>1, CanonizeSafe, Zenon
    <3>3. task' \in Tasks /\ task'.pc = "fork" /\ task'.block \in Blocks
      BY <1>1, <2>3, <3>1, Zenon DEF Tasks
    <3> QED BY <2>1, <3>2, <3>3, NoWriteSafe, Zenon DEF SafeInv, TypeOK, TaskInv, At
  <2> QED BY <1>5, <2>2, <2>3, Zenon DEF ForkCanonize
<1>6. CASE SwitchToFork
  <2>1. fork' = EmptyColumns /\ task' \in {Idle, Failed}
    BY <1>6, Zenon DEF SwitchToFork
  <2>2. Insert(fork, task.block) \in Columns /\ SafeView(Insert(fork, task.block))
    BY <1>1, <1>2, InsertSafe, Zenon
  <2>3. /\ db' \in Columns /\ disk' \in Columns /\ writes' \in 0..(FlushEvery - 1)
        /\ SafeView(db') /\ SafeView(disk')
    <3>1. CASE NoWrite
      BY <3>1, NoWriteSafe, Zenon
    <3>2. CASE /\ CanCanonize(Insert(fork, task.block), task.block)
               /\ Write(Canonize(Insert(fork, task.block), task.block))
      BY <1>1, <2>2, <3>2, CanonizeSafe, WriteSafe, Zenon
    <3> QED BY <1>6, <3>1, <3>2, Zenon DEF SwitchToFork
  <2> QED BY <1>3, <2>1, <2>3, EndSafe, Zenon
<1> QED BY <1>4, <1>5, <1>6, Zenon

\* The rollback command, restarts and crashes.
LEMMA OutsideSafe ==
    ASSUME SafeInv, RollbackEnabled => NoSharing,
           RollbackBest \/ RollbackErase \/ Restart \/ Crash
    PROVE  SafeInv'
<1>1. /\ db \in Columns /\ disk \in Columns /\ fork \in Columns
      /\ SafeView(db) /\ SafeView(disk) /\ SafeView(fork)
  BY Zenon DEF SafeInv, TypeOK
<1>2. 0 \in 0..(FlushEvery - 1)
  BY DbAssumption
<1>3. CASE RollbackBest
  <2> DEFINE b == db.best.hash
  <2>1. fork' = fork /\ b \in Blocks
    BY <1>1, <1>3, Zenon DEF RollbackBest, Columns
  <2>2. CASE NoWrite /\ task' = Failed
    BY <1>1, <2>1, <2>2, NoWriteSafe, EndSafe, Zenon
  <2>3. CASE Write(Decanonize(db)) /\ task' = [Idle EXCEPT !.pc = "erase", !.block = b]
    <3>1. /\ Decanonize(db) \in Columns /\ SafeView(Decanonize(db))
          /\ Decanonize(db).best.hash = Parent[b]
      BY <1>1, <2>1, DecanonizeSafe, Zenon
    <3>2. /\ db' = Decanonize(db)
          /\ db' \in Columns /\ disk' \in Columns
          /\ writes' \in 0..(FlushEvery - 1)
          /\ SafeView(db') /\ SafeView(disk')
      BY <2>3, <3>1, WriteSafe, Zenon
    <3>3. b \notin ChainOf(db'.best.hash)
      BY <2>1, <3>1, <3>2, ChainStep, Zenon
    <3>4. task' \in Tasks /\ task'.pc = "erase" /\ task'.block = b
      BY <2>1, <2>3, IdleTask, Zenon
    <3>5. RollbackEnabled
      BY <1>3, Zenon DEF RollbackBest
    <3> QED BY <1>1, <2>1, <3>2, <3>3, <3>4, <3>5, Zenon DEF SafeInv, TypeOK, TaskInv, At
  <2> QED BY <1>3, <2>2, <2>3, Zenon DEF RollbackBest
<1>4. CASE RollbackErase
  <2>1. /\ task.block \in Blocks /\ task.block \notin ChainOf(db.best.hash) /\ NoSharing
        /\ fork' = fork /\ task' = Idle /\ Write(Erase(db, task.block))
    BY <1>4, Zenon DEF RollbackErase, SafeInv, TaskInv, At
  <2>2. Erase(db, task.block) \in Columns /\ SafeView(Erase(db, task.block))
    BY <1>1, <2>1, EraseSafe, Zenon
  <2> QED BY <1>1, <2>1, <2>2, WriteSafe, EndSafe, Zenon
<1>5. CASE Restart
  BY <1>1, <1>2, <1>5, Zenon DEF Restart, SafeInv, TypeOK, TaskInv, At
<1>6. CASE Crash
  BY <1>1, <1>2, <1>6, EmptySafe, EndSafe, Zenon DEF Crash
<1> QED BY <1>3, <1>4, <1>5, <1>6, Zenon

\* Every step of the store preserves the invariant.
LEMMA NextSafe ==
    ASSUME SafeInv, RollbackEnabled => NoSharing, [Next]_vars
    PROVE  SafeInv'
<1>1. CASE UNCHANGED vars
  BY <1>1, Zenon DEF vars, SafeInv, TypeOK, TaskInv, At
<1>2. CASE Next
  BY <1>2, BeginSafe, WalkSafe, StoreSafe, ForkSafe, OutsideSafe, Zenon DEF Next, Step
<1> QED BY <1>1, <1>2, Zenon

\* The columns, the fork overlay and the disk are always the index, the blocks
\* and the ledger of one chain; with the rollback command, if no two blocks have
\* a transaction in common.
THEOREM SafeInvariant ==
    ASSUME RollbackEnabled => NoSharing
    PROVE  Spec => []SafeInv
<1>1. Init => SafeInv
  BY InitSafe, Zenon
<1>2. SafeInv /\ [Next]_vars => SafeInv'
  BY NextSafe, Zenon
<1> QED BY <1>1, <1>2, PTL DEF Spec

\* The chain index is the best chain, in memory, on disk and in a fork.
THEOREM IndexCorrect ==
    ASSUME RollbackEnabled => NoSharing
    PROVE  Spec => []IndexMatchesBest
<1>1. SafeInv => IndexMatchesBest
  BY Zenon DEF SafeInv, SafeView, IndexMatchesBest, Views
<1> QED BY <1>1, SafeInvariant, PTL

\* The transaction metadata is the ledger of the best chain, in memory, on disk
\* and in a fork: canonize and decanonize compose to a function of the tip.
THEOREM LedgerCorrect ==
    ASSUME RollbackEnabled => NoSharing
    PROVE  Spec => []LedgerMatchesBest
<1>1. SafeInv => LedgerMatchesBest
  BY Zenon DEF SafeInv, SafeView, LedgerMatchesBest, Views
<1> QED BY <1>1, SafeInvariant, PTL

\* A stored block can be read back with all its transactions.
THEOREM BlocksWhole ==
    ASSUME RollbackEnabled => NoSharing
    PROVE  Spec => []BlocksAreWhole
<1>1. SafeInv => BlocksAreWhole
  BY Zenon DEF SafeInv, SafeView, WholeIn, BlocksAreWhole, Views
<1> QED BY <1>1, SafeInvariant, PTL

\* Every variable keeps its type.
THEOREM TypeCorrect ==
    ASSUME RollbackEnabled => NoSharing
    PROVE  Spec => []TypeOK
<1>1. SafeInv => TypeOK
  BY Zenon DEF SafeInv
<1> QED BY <1>1, SafeInvariant, PTL

-----------------------------------------------------------------------------
(* block_origin and fork, for a store that is never rolled back: no         *)
(* operation fails, side branches stay attached, the longest chain is the   *)
(* best chain and the best block only rises.                                *)

\* r lists stored blocks, each the child of the one before it, that lead from
\* the block h up to the parent of the new block b.
Branch(d, r, h, b) ==
    /\ \A i \in 1..Len(r) : r[i] \in d.stored
    /\ \A i \in 1..Len(r) : Parent[r[i]] = IF i = 1 THEN h ELSE r[i - 1]
    /\ Parent[b] = IF Len(r) = 0 THEN h ELSE r[Len(r)]
    /\ Height[b] = Height[h] + Len(r) + 1

\* The longest-chain rule for one view.
LongestIn(d) == \A b \in d.stored : Height[b] > d.best.number => Parent[b] = d.best.hash

\* The routes a fork is built from: `down` is the rest of the canonical blocks
\* above the fork point h, `route` the rest of the side branch above it.
ForkRoutes ==
    \E h \in ChainOf(fork.best.hash) :
        /\ Branch(db, task.route, h, task.block)
        /\ DOMAIN task.down = (Height[h] + 1)..fork.best.number
        /\ \A n \in DOMAIN task.down : task.down[n] = fork.hashes[n]

\* What an operation in progress relies on.
RouteInv ==
    /\ NeverFails
    /\ ~At("fork") => fork = EmptyColumns
    /\ At("insert") \/ At("canonize") => Parent[task.block] = db.best.hash
    /\ At("canonize") => task.block \in db.stored
    /\ At("side") => Parent[task.block] \in db.stored /\ Height[task.block] <= db.best.number
    /\ At("walk") \/ At("fork") => db.best.hash \in Blocks /\ task.block \notin db.stored
    /\ At("walk") => task.next \in db.stored /\ Branch(db, task.route, task.next, task.block)
    /\ At("fork") => /\ fork.stored = db.stored
                     /\ Height[task.block] > db.best.number
                     /\ ForkRoutes

\* The inductive invariant of a store that is never rolled back.
ForkInv ==
    /\ SafeInv
    /\ LinkedDown(db) /\ LinkedDown(disk)
    /\ LongestIn(db) /\ LongestIn(disk)
    /\ RouteInv

-----------------------------------------------------------------------------
\* The metadata of every output a block of the chain spends is there.
LEMMA InputsKnown ==
    ASSUME NEW d \in Columns, SafeView(d), NEW t \in LedgerTxs(d.best.hash)
    PROVE  d.height[t] # -1
<1>1. PICK c \in ChainOf(d.best.hash) : t \in TxsOf(c)
  BY Zenon DEF LedgerTxs
<1>2. d.height[t] = Height[c]
  BY <1>1, Zenon DEF SafeView, LedgerOf
<1>3. c \in Blocks
  BY <1>1, TreeAssumption, AncestorsAssumption DEF Columns, ChainOf
<1> QED BY <1>2, <1>3, HeightAssumption

\* canonize accepts a stored child of the best block.
LEMMA ChildCanonizes ==
    ASSUME NEW d \in Columns, SafeView(d), NEW b \in d.stored, Parent[b] = d.best.hash
    PROVE  CanCanonize(d, b)
<1>1. b \in Blocks /\ TxsOf(b) \subseteq d.txs
  BY Zenon DEF Columns, SafeView, WholeIn
<1>2. Body(d, b) = 1..Len(BlockTxs[b]) /\ SkipFirst(Body(d, b)) = 2..Len(BlockTxs[b])
  BY <1>1, WholeBody, Zenon
<1>3. ASSUME NEW i \in 2..Len(BlockTxs[b]), NEW o \in Prevouts[BlockTxs[b][i]]
      PROVE  \/ d.height[o.hash] # -1
             \/ \E k \in 1..Len(BlockTxs[b]) : k <= i /\ BlockTxs[b][k] = o.hash
  <2>1. CASE \E c \in Strict(b) : o.hash \in TxsOf(c)
    <3>1. o.hash \in LedgerTxs(d.best.hash)
      BY <1>1, <2>1, ChainStep DEF LedgerTxs
    <3> QED BY <3>1, InputsKnown, Zenon
  <2>2. CASE \E k \in 1..(i - 1) : BlockTxs[b][k] = o.hash
    BY <1>1, <2>2, TxAssumption
  <2> QED BY <1>1, <2>1, <2>2, ValidityAssumption, ZenonT(60)
<1>4. Parent[b] = NoHash => d.best.number = 0
  BY Zenon DEF SafeView, IndexOf
<1> QED BY <1>2, <1>3, <1>4, Zenon DEF CanCanonize

\* decanonize accepts the best block.
LEMMA BestDecanonizes ==
    ASSUME NEW d \in Columns, SafeView(d), d.best.hash \in Blocks
    PROVE  CanDecanonize(d)
<1> DEFINE b == d.best.hash
<1>1. b \in d.stored
  BY ChainStep, Zenon DEF SafeView
<1>2. InputsAt(b, Body(d, b)) = InputsOf(b)
  BY <1>1, WholeBody, Zenon DEF SafeView, WholeIn
<1>3. \A o \in InputsOf(b) : d.height[o.hash] # -1
  BY InputsInChain, InputsKnown, Zenon
<1>4. d.best.number = 0 => Parent[b] = NoHash
  BY TreeAssumption, HeightStep, HeightAssumption DEF SafeView, IndexOf
<1> QED BY <1>1, <1>2, <1>3, <1>4, Zenon DEF CanDecanonize

\* A store has a block 0 exactly when it has a best block.
LEMMA BlockZero ==
    ASSUME NEW d \in Columns, SafeView(d)
    PROVE  d.hashes[0] = NoHash <=> d.best.hash = NoHash
<1>1. d.hashes \in [0..MaxHeight -> Blocks \cup {NoHash}] /\ 0 \in 0..MaxHeight
      /\ d.best.hash \in Blocks \cup {NoHash}
  BY HeightAssumption DEF Columns
<1>2. \A b \in Blocks : d.hashes[0] = b <=> b \in ChainOf(d.best.hash) /\ Height[b] = 0
  BY <1>1, Zenon DEF SafeView, IndexOf
<1>3. CASE d.best.hash = NoHash
  BY <1>1, <1>2, <1>3, Zenon DEF ChainOf
<1>4. CASE d.best.hash \in Blocks
  <2>1. Genesis \in ChainOf(d.best.hash)
    BY <1>4, TreeAssumption, AncestorsAssumption, Zenon DEF ChainOf
  <2> QED BY <1>2, <1>4, <2>1, TreeAssumption, HeightAssumption, Zenon
<1> QED BY <1>1, <1>3, <1>4, Zenon

\* The number -> hash column gives the best block at the best number.
LEMMA BestIndexed ==
    ASSUME NEW d \in Columns, SafeView(d), d.best.hash \in Blocks
    PROVE  d.hashes[d.best.number] = d.best.hash
BY ChainStep, TreeAssumption, HeightAssumption DEF SafeView, IndexOf, Columns

\* A block of a chain that is as high as the last one is the last one.
LEMMA TopOfChain ==
    ASSUME NEW b \in Blocks, NEW c \in ChainOf(b)
    PROVE  /\ c \in Blocks
           /\ Height[c] <= Height[b]
           /\ Height[c] >= Height[b] => c = b
<1>1. c \in Ancestors[b]
  BY TreeAssumption, Zenon DEF ChainOf
<1>2. c \in Blocks
  BY <1>1, AncestorsAssumption, Zenon
<1>3. c # b => Height[c] < Height[b]
  BY <1>1, AncestorsAssumption, Zenon DEF Strict
<1> QED BY <1>2, <1>3, HeightAssumption

\* Every height up to the best one has its block in the number -> hash column.
LEMMA HashesFilled ==
    ASSUME NEW d \in Columns, SafeView(d), d.best.hash \in Blocks, NEW n \in 0..d.best.number
    PROVE  d.hashes[n] \in Blocks
<1>1. d.best.number = Height[d.best.hash] /\ n \in 0..MaxHeight
  BY TreeAssumption, HeightAssumption DEF SafeView, IndexOf, Columns
<1>2. PICK c \in Ancestors[d.best.hash] : Height[c] = n
  BY <1>1, LevelAssumption, Zenon
<1>3. c \in Blocks /\ c \in ChainOf(d.best.hash)
  BY <1>2, TreeAssumption, AncestorsAssumption DEF ChainOf
<1> QED BY <1>1, <1>2, <1>3 DEF SafeView, IndexOf

\* A view with its branches attached and its longest chain canonical.
GoodView(d) == d \in Columns /\ SafeView(d) /\ LinkedDown(d) /\ LongestIn(d)

\* insert keeps branches attached, and the chain longest if the block is no
\* higher than the best block or its child.
LEMMA InsertGood ==
    ASSUME NEW d, GoodView(d), NEW b \in Blocks, Parent[b] \in d.stored \cup {NoHash},
           Height[b] <= d.best.number \/ Parent[b] = d.best.hash
    PROVE  GoodView(Insert(d, b))
<1>1. /\ Insert(d, b) \in Columns /\ SafeView(Insert(d, b))
      /\ Insert(d, b).best = d.best
      /\ Insert(d, b).stored = d.stored \cup {b}
  BY InsertSafe, Zenon DEF GoodView
<1>2. LinkedDown(Insert(d, b))
  BY <1>1, Zenon DEF GoodView, LinkedDown
<1>3. LongestIn(Insert(d, b))
  BY <1>1, HeightAssumption DEF GoodView, LongestIn, Columns
<1> QED BY <1>1, <1>2, <1>3, Zenon DEF GoodView

\* canonize keeps the longest chain canonical.
LEMMA CanonizeGood ==
    ASSUME NEW d, GoodView(d), NEW b \in d.stored, Parent[b] = d.best.hash
    PROVE  /\ GoodView(Canonize(d, b))
           /\ Canonize(d, b).best.hash = b
           /\ Canonize(d, b).best.number = Height[b]
           /\ Canonize(d, b).stored = d.stored
           /\ d.best.hash # NoHash => Height[b] > d.best.number
<1>1. b \in Blocks /\ d \in Columns /\ SafeView(d)
  BY Zenon DEF GoodView, Columns
<1>2. CanCanonize(d, b)
  BY <1>1, ChildCanonizes, Zenon
<1>3. /\ Canonize(d, b) \in Columns
      /\ SafeView(Canonize(d, b))
      /\ Canonize(d, b).best.hash = b
      /\ Canonize(d, b).best.number = Height[b]
      /\ Canonize(d, b).stored = d.stored
  BY <1>1, <1>2, CanonizeSafe, Zenon
<1>4. LinkedDown(Canonize(d, b))
  BY <1>3, Zenon DEF GoodView, LinkedDown, SafeView
<1>5. /\ d.best.number = IF Parent[b] = NoHash THEN 0 ELSE Height[Parent[b]]
      /\ Height[b] = IF Parent[b] = NoHash THEN 0 ELSE d.best.number + 1
  BY <1>1, HeightStep DEF SafeView, IndexOf
<1>6. ASSUME NEW c \in d.stored, Height[c] > Height[b]
      PROVE  FALSE
  <2>1. c \in Blocks /\ Height[c] \in Nat /\ d.best.number \in Nat
    BY <1>1, HeightAssumption DEF Columns
  <2>2. Height[c] > d.best.number
    BY <1>5, <1>6, <2>1
  <2>3. Parent[c] = Parent[b]
    BY <2>2, Zenon DEF GoodView, LongestIn
  <2>4. Height[c] = Height[b]
    BY <1>1, <2>1, <2>3, HeightStep, Zenon
  <2> QED BY <1>6, <2>1, <2>4
<1>7. LongestIn(Canonize(d, b))
  BY <1>3, <1>6, Zenon DEF LongestIn
<1>8. d.best.hash # NoHash => Height[b] > d.best.number
  BY <1>1, <1>5 DEF Columns
<1> QED BY <1>3, <1>4, <1>7, <1>8, Zenon DEF GoodView

\* The branch of a walk one block further down.
LEMMA BranchDown ==
    ASSUME NEW d \in Columns, NEW r \in Seq(Blocks), NEW h \in d.stored, NEW b \in Blocks,
           Branch(d, r, h, b), Parent[h] # NoHash
    PROVE  Branch(d, <<h>> \o r, Parent[h], b)
<1> DEFINE s == <<h>> \o r
<1>1. /\ Len(s) = Len(r) + 1 /\ Len(r) \in Nat
      /\ s[1] = h /\ \A i \in 1..Len(r) : s[i + 1] = r[i]
  OBVIOUS
<1>2. h \in Blocks /\ Height[h] = Height[Parent[h]] + 1 /\ Height[Parent[h]] \in Nat
  BY HeightStep, HeightAssumption DEF Columns
<1> HIDE DEF s
<1>3. \A i \in 1..Len(s) : i = 1 \/ (i - 1 \in 1..Len(r) /\ s[i] = r[i - 1])
  <2> SUFFICES ASSUME NEW i \in 1..Len(s), i # 1
               PROVE  i - 1 \in 1..Len(r) /\ s[i] = r[i - 1]
    BY Zenon
  <2>1. i - 1 \in 1..Len(r)
    BY <1>1
  <2>2. s[(i - 1) + 1] = r[i - 1]
    BY <1>1, <2>1, Zenon
  <2>3. (i - 1) + 1 = i
    BY <1>1
  <2> QED BY <2>1, <2>2, <2>3, Zenon
<1>4. \A i \in 1..Len(s) : s[i] \in d.stored
  BY <1>1, <1>3, Zenon DEF Branch
<1>5. ASSUME NEW i \in 1..Len(s)
      PROVE  Parent[s[i]] = IF i = 1 THEN Parent[h] ELSE s[i - 1]
  <2>1. CASE i = 1
    BY <1>1, <2>1, Zenon
  <2>2. CASE i = 2
    <3>1. s[2] = r[1] /\ 1 \in 1..Len(r)
      BY <1>1, <1>3, <2>2
    <3> QED BY <1>1, <2>2, <3>1 DEF Branch
  <2>3. CASE i > 2
    <3>1. s[i] = r[i - 1] /\ i - 1 \in 1..Len(r) /\ i - 1 # 1
      BY <1>1, <1>3, <2>3
    <3>2. s[i - 1] = r[(i - 1) - 1]
      BY <1>1, <1>3, <2>3
    <3> QED BY <3>1, <3>2, <2>3 DEF Branch
  <2> QED BY <1>1, <2>1, <2>2, <2>3
<1>6. Parent[b] = s[Len(s)]
  <2>1. CASE Len(r) = 0
    BY <1>1, <2>1 DEF Branch
  <2>2. CASE Len(r) # 0
    BY <1>1, <1>3, <2>2 DEF Branch
  <2> QED BY <2>1, <2>2, Zenon
<1>7. Height[b] = Height[Parent[h]] + Len(s) + 1
  <2>1. Height[b] = Height[h] + Len(r) + 1
    BY Zenon DEF Branch
  <2>2. Len(s) = Len(r) + 1 /\ Len(r) \in Nat
    BY <1>1, Zenon
  <2>3. Height[b] = (Height[Parent[h]] + 1) + Len(r) + 1
    BY <1>2, <2>1, Zenon
  <2>4. (Height[Parent[h]] + 1) + Len(r) + 1 = Height[Parent[h]] + (Len(r) + 1) + 1
    BY <1>2, <2>2
  <2> QED BY <2>2, <2>3, <2>4, Zenon
<1> QED BY <1>1, <1>4, <1>5, <1>6, <1>7 DEF Branch, s

\* The branch above its first block.
LEMMA BranchUp ==
    ASSUME NEW d \in Columns, NEW r \in Seq(Blocks), NEW h \in Blocks, NEW b \in Blocks,
           Branch(d, r, h, b), r # << >>
    PROVE  /\ Head(r) \in d.stored /\ Parent[Head(r)] = h
           /\ Tail(r) \in Seq(Blocks)
           /\ Branch(d, Tail(r), Head(r), b)
<1> DEFINE s == Tail(r)
<1>1. /\ Len(r) \in Nat /\ Len(r) > 0 /\ Len(s) = Len(r) - 1 /\ s \in Seq(Blocks)
      /\ Head(r) = r[1] /\ \A i \in 1..Len(s) : s[i] = r[i + 1]
  OBVIOUS
<1> HIDE DEF s
<1>2. Head(r) \in d.stored /\ Parent[Head(r)] = h /\ Head(r) \in Blocks
  BY <1>1 DEF Branch, Columns
<1>3. Height[Head(r)] = Height[h] + 1 /\ Height[h] \in Nat
  BY <1>2, HeightStep, HeightAssumption, TreeAssumption
<1>4. \A i \in 1..Len(s) : i + 1 \in 1..Len(r)
  BY <1>1
<1>5. \A i \in 1..Len(s) : s[i] \in d.stored
  BY <1>1, <1>4, Zenon DEF Branch
<1>6. ASSUME NEW i \in 1..Len(s)
      PROVE  Parent[s[i]] = IF i = 1 THEN Head(r) ELSE s[i - 1]
  <2>1. Parent[r[i + 1]] = r[(i + 1) - 1]
    BY <1>1, <1>4 DEF Branch
  <2>2. (i + 1) - 1 = i
    BY <1>1
  <2>3. i # 1 => i - 1 \in 1..Len(s) /\ (i - 1) + 1 = i
    BY <1>1
  <2>4. i # 1 => s[i - 1] = r[i]
    BY <1>1, <2>3, Zenon
  <2> QED BY <1>1, <2>1, <2>2, <2>4, Zenon
<1>7. Parent[b] = IF Len(s) = 0 THEN Head(r) ELSE s[Len(s)]
  BY <1>1 DEF Branch
<1>8. Height[b] = Height[Head(r)] + Len(s) + 1
  BY <1>1, <1>3 DEF Branch
<1> QED BY <1>1, <1>2, <1>5, <1>6, <1>7, <1>8, Zenon DEF Branch, s

-----------------------------------------------------------------------------
(* The invariant, action by action.                                        *)

\* What holds of the views before a step.
LEMMA ForkInvViews ==
    ASSUME ForkInv
    PROVE  /\ GoodView(db) /\ GoodView(disk)
           /\ fork \in Columns /\ SafeView(fork)
           /\ task \in Tasks
BY Zenon DEF ForkInv, SafeInv, TypeOK, GoodView

\* A step writes a good view or nothing.
LEMMA GoodWrite ==
    ASSUME ForkInv, NoWrite \/ \E d : GoodView(d) /\ Write(d)
    PROVE  GoodView(db') /\ GoodView(disk')
BY ForkInvViews, Zenon DEF NoWrite, Write

\* The invariant from its parts.
LEMMA ForkInvParts ==
    ASSUME SafeInv', GoodView(db'), GoodView(disk'), RouteInv'
    PROVE  ForkInv'
BY Zenon DEF ForkInv, GoodView

\* An idle store with no fork has nothing to rely on.
LEMMA IdleRoute ==
    ASSUME task' = Idle, fork' = EmptyColumns
    PROVE  RouteInv'
BY IdleTask, Zenon DEF RouteInv, NeverFails, At

\* init_db and the first part of insert_best_block.
LEMMA BeginGood ==
    ASSUME ForkInv, SafeInv', InitDb \/ \E b \in Blocks : BeginInsert(b)
    PROVE  ForkInv'
<1>1. /\ GoodView(db) /\ db \in Columns /\ SafeView(db)
      /\ At("idle") /\ NoWrite /\ db' = db /\ fork' = fork /\ fork = EmptyColumns
  BY ForkInvViews, Zenon DEF InitDb, BeginInsert, NoWrite, GoodView, ForkInv, RouteInv, At
<1>2. GoodView(db') /\ GoodView(disk')
  BY <1>1, GoodWrite, Zenon
<1>3. CASE InitDb
  <2>1. task' = [Idle EXCEPT !.pc = "insert", !.block = Genesis]
    BY <1>3, Zenon DEF InitDb
  <2>2. task'.pc = "insert" /\ task'.block = Genesis
    BY <2>1, IdleTask, TreeAssumption, Zenon
  <2>3. db.best.hash = Parent[Genesis]
    BY <1>1, <1>3, BlockZero, TreeAssumption, Zenon DEF InitDb
  <2>4. RouteInv'
    BY <1>1, <2>2, <2>3, Zenon DEF RouteInv, NeverFails, At
  <2> QED BY <1>2, <2>4, ForkInvParts, Zenon
<1>4. ASSUME NEW b \in Blocks, BeginInsert(b) PROVE ForkInv'
  <2>1. db.best.hash \in Blocks
    BY <1>1, <1>4, BlockZero, Zenon DEF BeginInsert, Columns
  <2>2. db.hashes[db.best.number] = db.best.hash
    BY <1>1, <2>1, BestIndexed, Zenon
  <2>3. CASE Parent[b] = db.best.hash /\ task' = [Idle EXCEPT !.pc = "insert", !.block = b]
    <3>1. task'.pc = "insert" /\ task'.block = b
      BY <2>3, IdleTask, Zenon
    <3>2. RouteInv'
      BY <1>1, <2>3, <3>1, Zenon DEF RouteInv, NeverFails, At
    <3> QED BY <1>2, <3>2, ForkInvParts, Zenon
  <2>4. CASE /\ Parent[b] \in db.stored
             /\ task' = [Idle EXCEPT !.pc = "walk", !.block = b, !.next = Parent[b]]
    <3>1. /\ task'.pc = "walk" /\ task'.block = b /\ task'.next = Parent[b]
          /\ task'.route = << >>
      BY <2>4, Zenon DEF Idle
    <3>2. Parent[b] # NoHash
      BY <1>1, <2>4, TreeAssumption, Zenon DEF Columns
    <3>3. Branch(db, << >>, Parent[b], b)
      BY <3>2, HeightStep, HeightAssumption DEF Branch
    <3>4. b \notin db.stored
      BY <1>4, Zenon DEF BeginInsert
    <3>5. RouteInv'
      BY <1>1, <2>1, <2>4, <3>1, <3>3, <3>4, Zenon DEF RouteInv, NeverFails, At
    <3> QED BY <1>2, <3>5, ForkInvParts, Zenon
  <2> QED BY <1>4, <2>2, <2>3, <2>4, Zenon DEF BeginInsert
<1> QED BY <1>3, <1>4, Zenon

\* The walk of block_origin never loses its way.
LEMMA WalkGood ==
    ASSUME ForkInv, SafeInv', WalkDown \/ WalkTooLong \/ WalkDone
    PROVE  ForkInv'
<1>1. /\ GoodView(db) /\ db \in Columns /\ SafeView(db) /\ LinkedDown(db)
      /\ At("walk") /\ NoWrite /\ db' = db /\ fork = EmptyColumns /\ task \in Tasks
  BY ForkInvViews, Zenon DEF WalkDown, WalkTooLong, WalkDone, NoWrite, GoodView, ForkInv, RouteInv, At
<1>2. GoodView(db') /\ GoodView(disk')
  BY <1>1, GoodWrite, Zenon
<1>3. /\ db.best.hash \in Blocks /\ task.block \notin db.stored /\ task.block \in Blocks
      /\ task.next \in db.stored /\ task.next \in Blocks
      /\ Branch(db, task.route, task.next, task.block)
      /\ task.route \in Seq(Blocks)
  BY <1>1, Zenon DEF ForkInv, SafeInv, RouteInv, TaskInv, At, Tasks, Columns
<1>4. CASE WalkDown
  <2>1. fork' = EmptyColumns
    BY <1>1, <1>4, Zenon DEF WalkDown
  <2>2. Parent[task.next] # NoHash
    <3>1. task.next \notin ChainOf(db.best.hash)
      BY <1>1, <1>3, <1>4, HeightAssumption DEF WalkDown, SafeView, IndexOf
    <3>2. Genesis \in ChainOf(db.best.hash)
      BY <1>3, TreeAssumption, AncestorsAssumption, Zenon DEF ChainOf
    <3> QED BY <1>3, <3>1, <3>2, TreeAssumption, Zenon
  <2>3. Parent[task.next] \in db.stored
    BY <1>1, <1>3, <2>2, Zenon DEF LinkedDown
  <2>4. task' = [task EXCEPT !.route = <<task.next>> \o @, !.next = Parent[task.next]]
    BY <1>3, <1>4, <2>2, Zenon DEF WalkDown
  <2>5. /\ task'.pc = "walk" /\ task'.block = task.block /\ task'.next = Parent[task.next]
        /\ task'.route = <<task.next>> \o task.route
    BY <1>1, <2>4, Zenon DEF Tasks, At
  <2>6. Branch(db, <<task.next>> \o task.route, Parent[task.next], task.block)
    BY <1>1, <1>3, <2>2, BranchDown, Zenon
  <2>7. RouteInv'
    BY <1>1, <1>3, <2>1, <2>3, <2>5, <2>6, Zenon DEF RouteInv, NeverFails, At
  <2> QED BY <1>2, <2>7, ForkInvParts, Zenon
<1>5. CASE WalkTooLong
  <2>1. task' = Idle /\ fork' = EmptyColumns
    BY <1>1, <1>5, Zenon DEF WalkTooLong
  <2> QED BY <1>2, <2>1, IdleRoute, ForkInvParts, Zenon
<1>6. CASE WalkDone
  <2> DEFINE h == task.next
  <2>1. h \in ChainOf(db.best.hash) /\ db.numbers[h] = Height[h]
    BY <1>1, <1>3, <1>6, Zenon DEF WalkDone, SafeView, IndexOf
  <2>2. Height[task.block] = db.numbers[h] + Len(task.route) + 1
    BY <1>3, <2>1, Zenon DEF Branch
  <2>3. CASE /\ db.numbers[h] + Len(task.route) + 1 > db.best.number
             /\ fork' = db
             /\ task' = [task EXCEPT !.pc = "fork", !.down = DecanonizedRoute(db.numbers[h])]
    <3>1. /\ task'.pc = "fork" /\ task'.block = task.block /\ task'.route = task.route
          /\ task'.down = DecanonizedRoute(Height[h])
      BY <1>1, <2>1, <2>3, Zenon DEF Tasks
    <3>2. db.best.number \in 0..MaxHeight /\ Height[h] \in Nat
          /\ db.hashes \in [0..MaxHeight -> Blocks \cup {NoHash}]
      BY <1>1, <1>3, HeightAssumption DEF Columns
    <3>3. \A n \in (Height[h] + 1)..db.best.number : db.hashes[n] # NoHash
      <4> SUFFICES ASSUME NEW n \in (Height[h] + 1)..db.best.number, db.hashes[n] = NoHash
                   PROVE  FALSE
        BY Zenon
      <4>1. n \in 0..db.best.number
        BY <3>2
      <4> QED BY <1>1, <1>3, <4>1, HashesFilled, TreeAssumption, Zenon
    <3>4. /\ DOMAIN task'.down = (Height[h] + 1)..db.best.number
          /\ \A n \in DOMAIN task'.down : task'.down[n] = db.hashes[n]
      BY <3>1, <3>3, Zenon DEF DecanonizedRoute
    <3>5. Branch(db, task.route, h, task.block)
      BY <1>3, Zenon
    <3>6. ForkRoutes'
      BY <1>1, <2>1, <2>3, <3>1, <3>4, <3>5, Zenon DEF ForkRoutes
    <3>7. RouteInv'
      BY <1>1, <1>3, <2>2, <2>3, <3>1, <3>6, Zenon DEF RouteInv, NeverFails, At
    <3> QED BY <1>2, <3>7, ForkInvParts, Zenon
  <2>4. CASE /\ ~(db.numbers[h] + Len(task.route) + 1 > db.best.number)
             /\ fork' = fork
             /\ task' = [Idle EXCEPT !.pc = "side", !.block = task.block]
    <3>1. task'.pc = "side" /\ task'.block = task.block
      BY <1>3, <2>4, IdleTask, Zenon
    <3>2. Parent[task.block] \in db.stored
      BY <1>3 DEF Branch
    <3>3. Height[task.block] <= db.best.number
      BY <1>1, <1>3, <2>2, <2>4, HeightAssumption DEF Columns
    <3>4. RouteInv'
      BY <1>1, <2>4, <3>1, <3>2, <3>3, Zenon DEF RouteInv, NeverFails, At
    <3> QED BY <1>2, <3>4, ForkInvParts, Zenon
  <2> QED BY <1>6, <2>3, <2>4, Zenon DEF WalkDone, Overtakes
<1> QED BY <1>4, <1>5, <1>6, Zenon

\* The best block stays or gives way to a higher one.
Rises == db.best.hash # NoHash => db'.best = db.best \/ db'.best.number > db.best.number

\* Appending the block to the best chain, or storing it on a side branch.
LEMMA StoreGood ==
    ASSUME ForkInv, SafeInv', InsertCanon \/ CanonizeBlock \/ InsertSide
    PROVE  ForkInv' /\ Rises
<1>1. /\ GoodView(db) /\ db \in Columns /\ SafeView(db) /\ LinkedDown(db)
      /\ fork = EmptyColumns /\ fork' = fork /\ task \in Tasks /\ task.block \in Blocks
  BY ForkInvViews, Zenon DEF InsertCanon, CanonizeBlock, InsertSide, GoodView, ForkInv, RouteInv,
     SafeInv, TaskInv, At
<1>2. db.best.hash \in db.stored \cup {NoHash}
  BY <1>1, ChainStep DEF LinkedDown, Columns
<1>3. CASE InsertCanon
  <2>1. Parent[task.block] = db.best.hash /\ At("insert")
    BY <1>3, Zenon DEF InsertCanon, ForkInv, RouteInv
  <2>2. CanInsert(db, task.block)
    BY <1>2, <2>1, Zenon DEF CanInsert
  <2>3. task' = [task EXCEPT !.pc = "canonize"]
    BY <1>3, <2>2, Zenon DEF InsertCanon
  <2>4. task'.pc = "canonize" /\ task'.block = task.block
    BY <1>1, <2>3, Zenon DEF Tasks
  <2>5. CASE task.block \in db.stored
    <3>1. NoWrite /\ db' = db
      BY <1>3, <2>2, <2>5, Zenon DEF InsertCanon, NoWrite
    <3>2. RouteInv'
      BY <1>1, <2>1, <2>4, <2>5, <3>1, Zenon DEF RouteInv, NeverFails, At
    <3> QED BY <3>1, <3>2, GoodWrite, ForkInvParts, Zenon DEF Rises
  <2>6. CASE task.block \notin db.stored
    <3>1. Write(Insert(db, task.block)) /\ db' = Insert(db, task.block)
      BY <1>3, <2>2, <2>6, Zenon DEF InsertCanon, Write
    <3>2. GoodView(Insert(db, task.block))
      BY <1>1, <1>2, <2>1, InsertGood, Zenon
    <3>3. db'.best = db.best /\ task.block \in db'.stored
      BY <1>1, <3>1, InsertSafe, Zenon
    <3>4. RouteInv'
      BY <1>1, <2>1, <2>4, <3>3, Zenon DEF RouteInv, NeverFails, At
    <3> QED BY <3>1, <3>2, <3>3, <3>4, GoodWrite, ForkInvParts, Zenon DEF Rises
  <2> QED BY <2>5, <2>6, Zenon
<1>4. CASE CanonizeBlock
  <2>1. Parent[task.block] = db.best.hash /\ task.block \in db.stored
    BY <1>4, Zenon DEF CanonizeBlock, ForkInv, RouteInv
  <2>2. CanCanonize(db, task.block)
    BY <1>1, <2>1, ChildCanonizes, Zenon
  <2>3. /\ Write(Canonize(db, task.block)) /\ task' = Idle
        /\ db' = Canonize(db, task.block)
    BY <1>4, <2>2, Zenon DEF CanonizeBlock, Write
  <2>4. GoodView(Canonize(db, task.block)) /\ Rises
    BY <1>1, <2>1, <2>3, CanonizeGood, Zenon DEF Rises
  <2>5. RouteInv'
    BY <1>1, <2>3, IdleRoute, Zenon
  <2> QED BY <2>3, <2>4, <2>5, GoodWrite, ForkInvParts, Zenon
<1>5. CASE InsertSide
  <2>1. Parent[task.block] \in db.stored /\ Height[task.block] <= db.best.number
    BY <1>5, Zenon DEF InsertSide, ForkInv, RouteInv
  <2>2. CanInsert(db, task.block)
    BY <2>1, Zenon DEF CanInsert
  <2>3. /\ Write(Insert(db, task.block)) /\ task' = Idle
        /\ db' = Insert(db, task.block)
    BY <1>5, <2>2, Zenon DEF InsertSide, Write
  <2>4. GoodView(Insert(db, task.block))
    BY <1>1, <2>1, InsertGood, Zenon
  <2>5. Rises
    BY <1>1, <2>3, InsertSafe, Zenon DEF Rises
  <2>6. RouteInv'
    BY <1>1, <2>3, IdleRoute, Zenon
  <2> QED BY <2>3, <2>4, <2>5, <2>6, GoodWrite, ForkInvParts, Zenon
<1> QED BY <1>3, <1>4, <1>5, Zenon

\* What a fork in the making knows.
LEMMA ForkFacts ==
    ASSUME ForkInv, At("fork")
    PROVE  /\ db \in Columns /\ fork \in Columns /\ SafeView(fork) /\ GoodView(db)
           /\ task \in Tasks /\ task.block \in Blocks /\ task.route \in Seq(Blocks)
           /\ task.block \notin db.stored /\ db.best.hash \in Blocks
           /\ fork.stored = db.stored
           /\ Height[task.block] > db.best.number
           /\ ForkRoutes
           /\ fork.best.hash \in Blocks
           /\ fork.best.number = Height[fork.best.hash]
<1>1. /\ db \in Columns /\ fork \in Columns /\ SafeView(fork) /\ GoodView(db)
      /\ task \in Tasks /\ task.block \in Blocks /\ task.route \in Seq(Blocks)
      /\ task.block \notin db.stored /\ db.best.hash \in Blocks
      /\ fork.stored = db.stored
      /\ Height[task.block] > db.best.number
      /\ ForkRoutes
  BY ForkInvViews, Zenon DEF ForkInv, RouteInv, GoodView, SafeInv, TaskInv, At, Tasks
<1>2. fork.best.hash # NoHash
  BY <1>1, Zenon DEF ForkRoutes, ChainOf
<1>3. fork.best.hash \in Blocks
  BY <1>1, <1>2, Zenon DEF Columns
<1>4. fork.best.number = Height[fork.best.hash]
  BY <1>1, <1>2, Zenon DEF SafeView, IndexOf
<1> QED BY <1>1, <1>3, <1>4, Zenon

\* fork undoes the canonical blocks it set out to undo.
LEMMA ForkDownGood ==
    ASSUME ForkInv, SafeInv', ForkDecanonize
    PROVE  ForkInv'
<1>1. At("fork") /\ NoWrite /\ db' = db /\ DOMAIN task.down # {}
  BY Zenon DEF ForkDecanonize, NoWrite
<1>2. PICK h \in ChainOf(fork.best.hash) :
        /\ Branch(db, task.route, h, task.block)
        /\ DOMAIN task.down = (Height[h] + 1)..fork.best.number
        /\ \A n \in DOMAIN task.down : task.down[n] = fork.hashes[n]
  BY <1>1, ForkFacts, Zenon DEF ForkRoutes
<1> DEFINE b == fork.best.hash
           n == CHOOSE m \in DOMAIN task.down : \A k \in DOMAIN task.down : k <= m
<1>3. b \in Blocks /\ h \in Blocks /\ Height[h] \in Nat /\ fork.best.number \in Nat
      /\ fork.best.number = Height[b] /\ Height[h] <= Height[b]
  BY <1>1, <1>2, ForkFacts, TopOfChain, HeightAssumption DEF Columns
<1>4. n = fork.best.number /\ n \in DOMAIN task.down /\ Height[h] < Height[b]
  <2>1. fork.best.number \in DOMAIN task.down /\ Height[h] < Height[b]
    BY <1>1, <1>2, <1>3
  <2>2. \A k \in DOMAIN task.down : k <= fork.best.number /\ k \in Int
    BY <1>2, <1>3
  <2>3. n \in DOMAIN task.down /\ \A k \in DOMAIN task.down : k <= n
    BY <2>1, <2>2, Zenon
  <2> QED BY <1>3, <2>1, <2>2, <2>3
<1> HIDE DEF n
<1>5. CanDecanonize(fork) /\ b = task.down[n]
  BY <1>1, <1>2, <1>3, <1>4, ForkFacts, BestDecanonizes, BestIndexed, Zenon
<1>6. /\ fork' = Decanonize(fork)
      /\ task' = [task EXCEPT !.down = [k \in DOMAIN @ \ {n} |-> @[k]]]
  BY <1>5, Zenon DEF ForkDecanonize, n
<1>7. /\ task'.pc = "fork" /\ task'.block = task.block /\ task'.route = task.route
      /\ task'.down = [k \in DOMAIN task.down \ {n} |-> task.down[k]]
  BY <1>1, <1>6, ForkFacts, Zenon DEF Tasks, At
<1>8. /\ fork'.best.hash = Parent[b] /\ fork'.stored = fork.stored
      /\ fork' \in Columns /\ SafeView(fork')
  BY <1>1, <1>3, <1>6, ForkFacts, DecanonizeSafe, Zenon
<1>9. h \in ChainOf(fork'.best.hash)
  BY <1>2, <1>3, <1>4, <1>8, ChainStep
<1>10. fork'.best.number = n - 1
  <2>1. Parent[b] # NoHash
    BY <1>8, <1>9, Zenon DEF ChainOf
  <2> QED BY <1>3, <1>4, <1>8, <2>1, HeightStep, HeightAssumption DEF SafeView, IndexOf
<1>11. DOMAIN task'.down = (Height[h] + 1)..fork'.best.number
  <2>1. DOMAIN task'.down = ((Height[h] + 1)..n) \ {n}
    BY <1>2, <1>4, <1>7, Zenon
  <2>2. ((Height[h] + 1)..n) \ {n} = (Height[h] + 1)..(n - 1)
    BY <1>3, <1>4
  <2> QED BY <1>10, <2>1, <2>2, Zenon
<1>12. \A k \in DOMAIN task'.down : task'.down[k] = fork'.hashes[k]
  <2> SUFFICES ASSUME NEW k \in DOMAIN task'.down PROVE task'.down[k] = fork'.hashes[k]
    BY Zenon
  <2>1. k \in DOMAIN task.down /\ task'.down[k] = fork.hashes[k]
    BY <1>2, <1>7, Zenon
  <2>2. k \in (Height[h] + 1)..(n - 1)
    BY <1>10, <1>11, Zenon
  <2>3. k \in 0..fork.best.number /\ k \in 0..MaxHeight /\ k < Height[b]
    BY <1>1, <1>3, <1>4, <2>2, HeightAssumption, ForkFacts
  <2>4. fork.hashes[k] \in Blocks
    BY <1>1, <1>3, <2>3, ForkFacts, HashesFilled, Zenon
  <2>5. fork.hashes[k] \in ChainOf(b) /\ Height[fork.hashes[k]] = k
    BY <1>1, <2>3, <2>4, ForkFacts, Zenon DEF SafeView, IndexOf
  <2>6. fork.hashes[k] \in ChainOf(Parent[b])
    BY <1>3, <2>3, <2>5, ChainStep
  <2>7. fork'.hashes[k] = fork.hashes[k]
    BY <1>8, <2>3, <2>4, <2>5, <2>6, ZenonT(60) DEF SafeView, IndexOf
  <2> QED BY <2>1, <2>7, Zenon
<1>13. ForkRoutes'
  BY <1>1, <1>2, <1>7, <1>9, <1>11, <1>12, Zenon DEF ForkRoutes
<1>14. RouteInv'
  BY <1>1, <1>7, <1>8, <1>13, ForkFacts, Zenon DEF RouteInv, NeverFails, At
<1> QED BY <1>1, <1>14, GoodWrite, ForkInvParts, Zenon

\* Once the canonical blocks are undone, the fork point is the overlay's best block.
LEMMA ForkPoint ==
    ASSUME ForkInv, At("fork"), DOMAIN task.down = {}
    PROVE  Branch(db, task.route, fork.best.hash, task.block)
<1>1. PICK h \in ChainOf(fork.best.hash) :
        /\ Branch(db, task.route, h, task.block)
        /\ DOMAIN task.down = (Height[h] + 1)..fork.best.number
  BY ForkFacts, Zenon DEF ForkRoutes
<1>2. /\ h \in Blocks /\ fork.best.hash \in Blocks
      /\ Height[h] \in Nat /\ Height[fork.best.hash] \in Nat
      /\ fork.best.number = Height[fork.best.hash]
  BY <1>1, ForkFacts, TopOfChain, HeightAssumption
<1>3. Height[h] >= Height[fork.best.hash]
  <2> SUFFICES ASSUME Height[h] < Height[fork.best.hash] PROVE FALSE
    BY <1>2
  <2>1. fork.best.number \in (Height[h] + 1)..fork.best.number
    BY <1>2
  <2> QED BY <1>1, <2>1, Zenon
<1> QED BY <1>1, <1>2, <1>3, TopOfChain, Zenon

\* fork canonizes the side branch block by block.
LEMMA ForkUpGood ==
    ASSUME ForkInv, SafeInv', ForkCanonize
    PROVE  ForkInv'
<1> DEFINE c == Head(task.route)
<1>1. /\ At("fork") /\ NoWrite /\ db' = db /\ DOMAIN task.down = {} /\ task.route # << >>
  BY Zenon DEF ForkCanonize, NoWrite
<1>2. /\ c \in db.stored /\ c \in fork.stored /\ Parent[c] = fork.best.hash
      /\ Tail(task.route) \in Seq(Blocks)
      /\ Branch(db, Tail(task.route), c, task.block)
  BY <1>1, ForkFacts, ForkPoint, BranchUp
<1>3. c \in Blocks /\ CanCanonize(fork, c)
  BY <1>1, <1>2, ForkFacts, ChildCanonizes, Zenon DEF Columns
<1>4. fork' = Canonize(fork, c) /\ task' = [task EXCEPT !.route = Tail(@)]
  BY <1>3, Zenon DEF ForkCanonize
<1>5. /\ task'.pc = "fork" /\ task'.block = task.block /\ task'.route = Tail(task.route)
      /\ task'.down = task.down
  BY <1>1, <1>4, ForkFacts, Zenon DEF Tasks, At
<1>6. /\ fork'.best.hash = c /\ fork'.best.number = Height[c]
      /\ fork'.stored = fork.stored
  BY <1>1, <1>3, <1>4, ForkFacts, CanonizeSafe, Zenon
<1>7. c \in ChainOf(fork'.best.hash)
  BY <1>3, <1>6, ChainStep, Zenon
<1>8. DOMAIN task'.down = (Height[c] + 1)..fork'.best.number
  <2>1. (Height[c] + 1)..Height[c] = {}
    BY <1>3, HeightAssumption
  <2> QED BY <1>1, <1>5, <1>6, <2>1, Zenon
<1>9. \A n \in DOMAIN task'.down : task'.down[n] = fork'.hashes[n]
  BY <1>1, <1>5, Zenon
<1> HIDE DEF c
<1>10. ForkRoutes'
  BY <1>1, <1>2, <1>5, <1>7, <1>8, <1>9, Zenon DEF ForkRoutes
<1>11. RouteInv'
  BY <1>1, <1>5, <1>6, <1>10, ForkFacts, Zenon DEF RouteInv, NeverFails, At
<1> QED BY <1>1, <1>11, GoodWrite, ForkInvParts, Zenon

\* The finished fork replaces the best chain by a higher one.
LEMMA SwitchGood ==
    ASSUME ForkInv, SafeInv', SwitchToFork
    PROVE  ForkInv' /\ Rises
<1> DEFINE b == task.block
           e == Insert(fork, b)
           d == Canonize(e, b)
<1>1. At("fork") /\ DOMAIN task.down = {} /\ task.route = << >> /\ fork' = EmptyColumns
  BY Zenon DEF SwitchToFork
<1>2. Parent[b] = fork.best.hash /\ b \in Blocks /\ fork.best.hash \in Blocks
  BY <1>1, ForkFacts, ForkPoint, Zenon DEF Branch
<1>3. Parent[b] \in fork.stored
  BY <1>1, <1>2, ForkFacts, ChainStep DEF SafeView
<1>4. CanInsert(fork, b)
  BY <1>3, Zenon DEF CanInsert
<1>5. /\ e \in Columns /\ SafeView(e) /\ e.best = fork.best
      /\ e.stored = db.stored \cup {b}
  BY <1>1, <1>2, ForkFacts, InsertSafe, ZenonT(60)
<1> HIDE DEF e
<1>6. CanCanonize(e, b)
  BY <1>2, <1>5, ChildCanonizes, Zenon
<1>7. /\ d \in Columns /\ SafeView(d)
      /\ d.best.hash = b /\ d.best.number = Height[b]
      /\ d.stored = db.stored \cup {b}
  BY <1>2, <1>5, <1>6, CanonizeSafe, Zenon
<1>8. Write(d) /\ task' = Idle
  BY <1>4, <1>6, Zenon DEF SwitchToFork, e
<1> HIDE DEF d
<1>9. LinkedDown(d)
  <2>1. LinkedDown(db) /\ Parent[b] \in db.stored
    BY <1>1, <1>3, ForkFacts, Zenon DEF GoodView
  <2> QED BY <1>7, <2>1, Zenon DEF LinkedDown, SafeView
<1>10. /\ Height[b] > db.best.number /\ Height[b] \in Nat /\ db.best.number \in Nat
       /\ db.best.hash \in Blocks /\ db.best.number = Height[db.best.hash]
  BY <1>1, <1>2, ForkFacts, HeightAssumption, TreeAssumption
     DEF GoodView, SafeView, IndexOf, Columns
<1>11. ASSUME NEW c \in db.stored, Height[c] > Height[b]
       PROVE  FALSE
  <2>1. c \in Blocks /\ Height[c] \in Nat
    BY <1>1, ForkFacts, HeightAssumption DEF Columns
  <2>2. Height[c] > db.best.number
    BY <1>10, <1>11, <2>1
  <2>3. Parent[c] = db.best.hash
    BY <1>1, <2>2, ForkFacts, Zenon DEF GoodView, LongestIn
  <2>4. Height[c] = db.best.number + 1
    BY <1>10, <2>1, <2>3, HeightStep, TreeAssumption, Zenon
  <2> QED BY <1>10, <1>11, <2>1, <2>4
<1>12. LongestIn(d)
  BY <1>7, <1>10, <1>11 DEF LongestIn
<1>13. GoodView(d) /\ db' = d
  BY <1>7, <1>8, <1>9, <1>12, Zenon DEF GoodView, Write
<1>14. Rises
  BY <1>7, <1>10, <1>13, Zenon DEF Rises
<1> QED BY <1>1, <1>8, <1>13, <1>14, IdleRoute, GoodWrite, ForkInvParts, Zenon

\* Stopping and killing the process.
LEMMA EndGood ==
    ASSUME ForkInv, SafeInv', Restart \/ Crash
    PROVE  ForkInv'
<1>1. CASE Restart
  <2>1. RouteInv'
    BY <1>1, Zenon DEF ForkInv, RouteInv, Restart, NeverFails, At
  <2> QED BY <1>1, <2>1, ForkInvParts, ForkInvViews, Zenon DEF Restart
<1>2. CASE Crash
  BY <1>2, IdleRoute, ForkInvParts, ForkInvViews, Zenon DEF Crash
<1> QED BY <1>1, <1>2, Zenon

\* The empty store.
LEMMA InitGood ==
    ASSUME Init
    PROVE  ForkInv
<1>1. SafeInv
  BY InitSafe, Zenon
<1>2. GoodView(EmptyColumns)
  BY EmptySafe, Zenon DEF GoodView, LinkedDown, LongestIn, EmptyColumns, ChainOf
<1>3. RouteInv
  BY IdleTask, Zenon DEF Init, RouteInv, NeverFails, At
<1> QED BY <1>1, <1>2, <1>3, Zenon DEF Init, ForkInv, GoodView

\* Every step preserves the invariant, and the best block only rises.
LEMMA NextGood ==
    ASSUME ~RollbackEnabled, ForkInv, [Next]_vars
    PROVE  ForkInv' /\ (Step => Rises)
<1>1. SafeInv /\ SafeInv'
  BY NextSafe, Zenon DEF ForkInv
<1>2. CASE UNCHANGED vars
  BY <1>1, <1>2, Zenon DEF vars, ForkInv, RouteInv, ForkRoutes, NeverFails, At, Rises
<1>3. CASE InitDb \/ \E b \in Blocks : BeginInsert(b)
  BY <1>1, <1>3, BeginGood, Zenon DEF InitDb, BeginInsert, NoWrite, Rises
<1>4. CASE WalkDown \/ WalkTooLong \/ WalkDone
  BY <1>1, <1>4, WalkGood, Zenon DEF WalkDown, WalkTooLong, WalkDone, NoWrite, Rises
<1>5. CASE InsertCanon \/ CanonizeBlock \/ InsertSide
  BY <1>1, <1>5, StoreGood, Zenon
<1>6. CASE ForkDecanonize \/ ForkCanonize
  BY <1>1, <1>6, ForkDownGood, ForkUpGood, Zenon DEF ForkDecanonize, ForkCanonize, NoWrite, Rises
<1>7. CASE SwitchToFork
  BY <1>1, <1>7, SwitchGood, Zenon
<1>8. ~RollbackErase /\ ~RollbackBest
  BY <1>1, Zenon DEF RollbackErase, RollbackBest, SafeInv, TaskInv
<1>9. Step => ForkInv' /\ Rises
  BY <1>3, <1>4, <1>5, <1>6, <1>7, <1>8, Zenon DEF Step
<1>10. Restart \/ Crash => ForkInv'
  BY <1>1, EndGood, Zenon
<1> QED BY <1>2, <1>8, <1>9, <1>10, Zenon DEF Next

\* A store that is never rolled back keeps its side branches attached, its
\* longest chain canonical and its fork routes exact.
THEOREM ForkInvariant ==
    ASSUME ~RollbackEnabled
    PROVE  Spec => []ForkInv
<1>1. Init => ForkInv
  BY InitGood, Zenon
<1>2. ForkInv /\ [Next]_vars => ForkInv'
  BY NextGood, Zenon
<1> QED BY <1>1, <1>2, PTL DEF Spec

\* No assertion, expect or unreachable! of block_chain_db.rs is reached, and no
\* insertion or reorganisation of a valid block is refused half way.
THEOREM OperationsSucceed ==
    ASSUME ~RollbackEnabled
    PROVE  Spec => []NeverFails
<1>1. ForkInv => NeverFails
  BY Zenon DEF ForkInv, RouteInv
<1> QED BY <1>1, ForkInvariant, PTL

\* block_origin can follow every stored block down to the canonical chain.
THEOREM SideChainsAttached ==
    ASSUME ~RollbackEnabled
    PROVE  Spec => []NoOrphanedSideChain
<1>1. ForkInv => NoOrphanedSideChain
  <2> SUFFICES ASSUME ForkInv PROVE LinkedDown(db) /\ LinkedDown(disk) /\ LinkedDown(fork)
    BY Zenon DEF NoOrphanedSideChain, Views
  <2>1. LinkedDown(db) /\ LinkedDown(disk) /\ SafeView(fork)
    BY Zenon DEF ForkInv, SafeInv
  <2>2. fork = EmptyColumns \/ fork.stored = db.stored
    BY Zenon DEF ForkInv, RouteInv
  <2>3. LinkedDown(EmptyColumns)
    BY Zenon DEF LinkedDown, EmptyColumns, ChainOf
  <2> QED BY <2>1, <2>2, <2>3, Zenon DEF LinkedDown, SafeView
<1> QED BY <1>1, ForkInvariant, PTL

\* The best chain is a longest stored chain, but for one block whose
\* canonization a crash cut off.
THEOREM BestIsLongest ==
    ASSUME ~RollbackEnabled
    PROVE  Spec => []LongestChain
<1>1. ForkInv => LongestChain
  BY Zenon DEF ForkInv, LongestChain, LongestIn
<1> QED BY <1>1, ForkInvariant, PTL

\* While the process runs, the best block only gives way to a higher one.
THEOREM BestRises ==
    ASSUME ~RollbackEnabled
    PROVE  Spec => BestOnlyRises
<1>1. ForkInv /\ [Next]_vars =>
        [Step /\ db.best.hash # NoHash =>
            db'.best = db.best \/ db'.best.number > db.best.number]_vars
  BY NextGood, Zenon DEF Rises
<1> QED BY <1>1, ForkInvariant, PTL DEF Spec, BestOnlyRises
=============================================================================
