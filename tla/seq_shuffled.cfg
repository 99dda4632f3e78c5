CONSTANTS
    a = a
    b = b
    c = c
    d = d
    NumKeys = 4
    KeyAddress <- DistinctKeys
    RandomOrder = TRUE
    MaxParallelWallets = 1
    ResumeEnabled = TRUE
    Durable = TRUE
    ReadMayFail = FALSE
    WriteMayFail = FALSE
    TaskMayPanic = FALSE
    MaxSessions = 2
SPECIFICATION Spec
INVARIANTS PrefixCompleted
