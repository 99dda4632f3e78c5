CONSTANTS
    a = a
    b = b
    c = c
    d = d
    NumKeys = 4
    KeyAddress <- RepeatedKey
    RandomOrder = FALSE
    MaxParallelWallets = 1
    ResumeEnabled = TRUE
    Durable = TRUE
    ReadMayFail = TRUE
    WriteMayFail = TRUE
    TaskMayPanic = TRUE
    MaxSessions = 3
SPECIFICATION Spec
INVARIANTS TypeOK PrefixCompleted StopsAtFirstFailure
PROPERTIES ImplementsWalletPool
