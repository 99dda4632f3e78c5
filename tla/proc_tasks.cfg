CONSTANTS
    MaxInt = 7
    Second = 1
    Minute = 6
    Nodes = {"live", "silent", "dead"}
    TaskKinds = {"log_balance", "dummy_task", "receipt"}
    Delays <- OneUnusual
    Requests <- AnyRequest
    MaxTasks = 3
    Misconfigured = TRUE
    LogMayFail = TRUE
SPECIFICATION FairSpec
INVARIANTS TypeOK NilMeansAllSucceeded FailuresAreIsolated LogMatchesRuns RanInOrder NoClientLeak PanicHasACause
PROPERTIES OverUnlessAwaitingNode SignalIsAnswered ImplementsWalletTasks
