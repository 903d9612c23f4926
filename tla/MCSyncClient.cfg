\* A fork: the header of one branch is invalid, the block of the other is.
CONSTANTS
    NoHash = NoHash
    g0 = g0
    a1 = a1
    b2 = b2
    c3 = c3
    d2 = d2
    Absent = {c3}
    Blocks <- MCBlocks
    Genesis <- g0
    Parent <- MCParent
    Height <- MCHeight
    Ancestors <- MCAncestors
    MaxHeight = 3
    Peers = {p1, p2}
    NoPeer = NoPeer
    HeaderLists <- MCHeaderLists
    BadHeaders = {b2}
    BadBlocks = {d2}
    CloseOnBadBlock = FALSE
    LateMessages = TRUE
    MaxPeerFailures = 0
    MaxBlocksFailures = 1
    GiveUp = FALSE
    MinInRequest = 1
    MaxInRequest = 2
    MaxScheduled = 3
    MaxPending = 2
    DuplicateSize = 1
    MaxQueue = 4
SPECIFICATION Spec
SYMMETRY PeerSymmetry
\* Peers connect once: when all are gone and nothing is queued, nothing is left to do.
CHECK_DEADLOCK FALSE
INVARIANTS QueuesAgree   
