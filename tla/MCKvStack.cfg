CONSTANTS
    Keys <- MCKeys
    Values = {"v", "w"}
    Transactions <- MCTransactions
    Delete = Delete
    Unknown = Unknown
    NoValue = NoValue
    MaxOperations = 2
    HeaderCapacity = 1
    BestNumber <- MCBestNumber
    BestHash <- MCBestHash
    Readers = {r1}
    ReadKeys <- MCReadKeys
SPECIFICATION Spec
INVARIANTS ReadsConsistent CrashesAreClean
PROPERTIES ImplementsStore
