CONSTANTS
    a = a
    b = b
    c = c
    d = d
    NumKeys = 3
    KeyAddress <- ThreeKeys
    RandomOrder = FALSE
    MaxParallelWallets = 2
    ResumeEnabled = TRUE
    Durable = TRUE
    ReadMayFail = FALSE
    WriteMayFail = FALSE
    TaskMayPanic = FALSE
    MaxSessions = 1
SPECIFICATION Spec
PROPERTIES CheckpointNeverRegresses
