CONSTANTS
    MaxInt = 7
    Second = 1
    Minute = 6
    Nodes = {"live", "dead"}
    TaskKinds = {"log_balance"}
    Delays <- UsualOnly
    Requests <- Explicit
    MaxTasks = 2
    Misconfigured = FALSE
    LogMayFail = FALSE
SPECIFICATION Spec
INVARIANTS LiveNodeServes
