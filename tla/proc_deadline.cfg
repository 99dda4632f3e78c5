CONSTANTS
    MaxInt = 7
    Second = 1
    Minute = 6
    Nodes = {"live"}
    TaskKinds = {"log_balance"}
    Delays <- UsualOnly
    Requests <- Explicit
    MaxTasks = 1
    Misconfigured = FALSE
    LogMayFail = FALSE
SPECIFICATION Spec
INVARIANTS InterruptedMeansCancelled
