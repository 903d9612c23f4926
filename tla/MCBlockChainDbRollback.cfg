\* With the rollback command, in a tree where no two blocks share a transaction.
CONSTANTS
    NoHash = NoHash
    g0 = g0
    a1 = a1
    b2 = b2
    c3 = c3
    x4 = x4
    y5 = y5
    d2 = d2
    e3 = e3
    f4 = f4
    Absent = {y5, f4}
    Sharing = FALSE
    Blocks <- MCBlocks
    Genesis <- g0
    Parent <- MCParent
    Height <- MCHeight
    Ancestors <- MCAncestors
    MaxHeight = 4
    Tx <- MCTx
    BlockTxs <- MCBlockTxs
    Prevouts <- MCPrevouts
    MaxForkRoute = 3
    FlushEvery = 3
    RollbackEnabled = TRUE
SPECIFICATION Spec
INVARIANTS IndexMatchesBest BlocksAreWhole
