SPECIFICATION FairSpec
CONSTANTS
    Peers <- MCPeers
    Worlds <- MCWorlds
    Parent <- MCParent
    BlockTxs <- MCBlockTxs
    Tx <- MCTx
    FeeRate <- MCFeeRate
    MaxInventory = 4
    MaxResponse = 2
    MaxFilterLen = 3
    MaxHashFuncs = 3
    MaxDataLen = 2
    MaxKnownHashes = 2
    MaxPrefilledSize = 4
    IdWidth = 2
CHECK_DEADLOCK FALSE
INVARIANTS  AnswersComplete 
PROPERTIES ServerProgresses
