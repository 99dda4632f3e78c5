CONSTANTS
    a = a
    b = b
    c = c
    d = d
    NumKeys = 3
    KeyAddress <- ThreeKeys
    RandomOrder = FALSE
    MaxParallelWallets = 2
    ResumeEnabled = TRUE
    Durable = TRUE
    ReadMayFail = FALSE
    WriteMayFail = TRUE
    TaskMayPanic = FALSE
    MaxSessions = 2
SPECIFICATION FairSpec
INVARIANTS RecordedCompleted RowBehindHighest
PROPERTIES EventuallyEnds ImplementsWalletPool
