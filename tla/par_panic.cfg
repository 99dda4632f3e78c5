CONSTANTS
    a = a
    b = b
    c = c
    d = d
    NumKeys = 3
    KeyAddress <- ThreeKeys
    RandomOrder = FALSE
    MaxParallelWallets = 2
    ResumeEnabled = TRUE
    Durable = TRUE
    ReadMayFail = FALSE
    WriteMayFail = FALSE
    TaskMayPanic = TRUE
    MaxSessions = 1
SPECIFICATION Spec
INVARIANTS RecordedCompleted
