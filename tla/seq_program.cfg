CONSTANTS
    a = a
    b = b
    c = c
    d = d
    Blank = Blank
    Malformed = Malformed
    Unset = Unset
    Junk = Junk
    KeysFile <- FourKeysFile
    DBTypes = {"postgres", "sqlite"}
    PoolSettings <- Sizes
    MaxInt32 = 3
    NumKeys = 4
    KeyAddress <- FourKeys
    RandomOrder = FALSE
    MaxParallelWallets = 0
    ResumeEnabled = TRUE
    Durable = TRUE
    ReadMayFail = FALSE
    WriteMayFail = FALSE
    TaskMayPanic = FALSE
    MaxSessions = 3
SPECIFICATION FairProgramSpec
INVARIANTS ProgramTypeOK AtMostOneUnrecorded WorksOnTheKeysOfTheFile PoolSizeHonoured
PROPERTIES CheckpointNeverRegresses EventuallyEnds StartsAreSessions
