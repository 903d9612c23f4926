SPECIFICATION Spec
CONSTANTS
    KeyHashSize = 2
    ScriptHashSize = 3
    PubKeySizes = {4, 6}
    MaxElementSize = 12
    MaxPubkeys = 3
    HashOf <- MCHashOf
    Word = 64
    LockTimeThreshold = 20
    DisableFlag = 32
    TypeFlag = 16
    LockTimeRange = 8
    NumSize = 2
    LockTimeSize = 3
    MaxScriptSize = 60
    MaxOps = 5
    MaxStack = 6
    Signed <- MCSigned
    HighS <- MCHighS
    Spend <- MCSpend
    Programs <- MCPrograms
    Spendings <- MCSpendings
    Numbers <- MCNumbers
    Stacks <- MCStacks
    Multisigs <- MCMultisigs
    Spends <- MCSpends
    Locks <- MCLocks
    Outputs <- MCOutputs
CHECK_DEADLOCK FALSE
INVARIANTS EvaluationFollowsScript  SpendingIsBound HelpersAreExact
