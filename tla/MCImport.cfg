\* Import with every order of the files and two crashes, and the probes of the encodings.
CONSTANTS
    NoHash = NoHash
    g0 = g0
    a1 = a1
    b2 = b2
    c3 = c3
    d1 = d1
    e2 = e2
    f3 = f3
    x3 = x3
    h4 = h4
    Blocks <- MCBlocks
    Genesis <- g0
    Parent <- MCParent
    Height <- MCHeight
    Ancestors <- MCAncestors
    MaxHeight = 4
    Directories <- MCDirectories
    BadBlocks = {x3}
    WitnessBlocks = {}
    MaxOrphanedBlocks = 2
    MaxForkRoute = 3
    MaxOperations = 3
    MaxCrashes = 2
SPECIFICATION MCSpec
INVARIANTS ImportIsSound 
PROPERTIES ImportEnds
