SPECIFICATION FairSpec
CONSTANTS
    g = g
    a1 = a1
    a2 = a2
    b1 = b1
    b2 = b2
    b3 = b3
    Absent = {a2, b3}
    Genesis = g
    NoHash = NoHash
    Blocks <- MCBlocks
    Parent <- MCParent
    Height <- MCHeight
    Ancestors <- MCAncestors
    MaxHeight = 3
    Tx <- MCTx
    Inputs <- MCInputs
    OutputValues <- MCOutputValues
    TxSize <- MCTxSize
    IsFinal <- MCIsFinal
    AcceptZeroFee = FALSE
    Sigops <- MCSigops
    HeaderSize = 1
    MaxBlockSize = 6
    SizeBuffer = 2
    MaxBlockSigops = 10
    SigopsBuffer = 1
    FinishLimit = 2
    BlockReward = 10
    CanonicalOrder = FALSE
    BlockTxs <- MCBlockTxs
    ValidTx <- MCTx
    PeerTx = {1, 2, 3, 4}
    RpcTx = {2}
    Callers = {c1}
    PeerThread = peers
    HashOrders <- MCOrders
    MaxCounter = 3
    MaxTasks = 1
CHECK_DEADLOCK FALSE
INVARIANTS PoolAgrees 
PROPERTIES ReorgKeepsTransactions VerificationEnds
