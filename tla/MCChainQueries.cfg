\* Insertions, reorganisations, restarts and crashes that may stop, flushes, and a reader;
\* no rollback command.
CONSTANTS
    NoHash = NoHash
    g0 = g0
    a1 = a1
    b2 = b2
    c3 = c3
    x4 = x4
    y5 = y5
    d2 = d2
    e3 = e3
    f4 = f4
    Absent = {}
    Sharing = TRUE
    Blocks <- MCBlocks
    Genesis <- g0
    Parent <- MCParent
    Height <- MCHeight
    Ancestors <- MCAncestors
    MaxHeight = 5
    Tx <- MCTx
    BlockTxs <- MCBlockTxs
    Prevouts <- MCPrevouts
    MaxForkRoute = 3
    FlushEvery = 3
    RollbackEnabled = FALSE
    QueryBlocks <- MCQueryBlocks
    QueryTxs <- MCQueryTxs
SPECIFICATION QueryFairSpec
INVARIANTS LedgerMatchesBest NeverFails LongestChain 
PROPERTIES BestOnlyRises Converges
