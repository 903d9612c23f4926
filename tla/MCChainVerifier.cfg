SPECIFICATION MCSpec
CONSTANTS
    Byte = 4
    Width = 8
    Interval = 5
    Spacing = 2
    Factor = 4
    MedianSpan = 3
    DaaSpan = 4
    AncientDepth = 2
    AncientGap = 8
    TimeWidth = 100000
    Subsidy = 4
    HalvingInterval = 2
    MB = 20
    MBSigops = 4
    MinTxSize = 3
    MinCoinbaseSize = 2
    MaxCoinbaseSize = 4
    ReplayEnd = 3
    CoinbaseMaturity = 2
    MaxFuture = 4
    LockTimeThreshold = 20
    Money = 32
    RowBits = 8
    Worlds <- MCWorlds
    ProbeTargets <- MCTargets
    ProbeTrees = 8
    ProbeHeight = 30
CHECK_DEADLOCK FALSE
INVARIANTS LedgerIsSound  RulesNest AlgorithmsAreExact
PROPERTIES RulesNeverLapse
