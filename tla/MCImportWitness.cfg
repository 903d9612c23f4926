\* Import of a directory in which one block has a transaction with a witness.
CONSTANTS
    NoHash = NoHash
    g0 = g0
    a1 = a1
    b2 = b2
    c3 = c3
    d1 = d1
    e2 = e2
    f3 = f3
    x3 = x3
    h4 = h4
    Blocks <- MCBlocks
    Genesis <- g0
    Parent <- MCParent
    Height <- MCHeight
    Ancestors <- MCAncestors
    MaxHeight = 4
    Directories <- MCDirectories
    BadBlocks = {x3}
    WitnessBlocks = {b2}
    MaxOrphanedBlocks = 2
    MaxForkRoute = 3
    MaxOperations = 3
    MaxCrashes = 0
SPECIFICATION MCSpec
INVARIANT FailsForCause
