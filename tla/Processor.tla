------------------------------ MODULE Processor ------------------------------
(***************************************************************************)
(* Process: one wallet's tasks, one after another, each with its EVM       *)
(* client, its attempts and its row in the transaction log, while the      *)
(* shutdown goroutine may cancel the context and close the store at any    *)
(* point.                                                                  *)
(***************************************************************************)
EXTENDS Executor, Sequences, SequencesExt

CONSTANTS
    Requests,       \* values of cfg.Actions, as in actions below
    MaxTasks,       \* the most tasks memory can be allocated for
    Misconfigured,  \* some task has no constructor, or its network no URL
    LogMayFail      \* whether an insert may fail while the store is open

ASSUME ProcessorAssumption ==
    /\ \A r \in Requests : r.explicit \in BOOLEAN /\ {r.min, r.max} \subseteq MachineInt
    /\ MaxTasks \in 0..(MaxInt - 1)
    /\ Misconfigured \in BOOLEAN
    /\ LogMayFail \in BOOLEAN

VARIABLES
    actions,    \* cfg.Actions, the same all along: whether there is an
                \* explicit sequence, actions_per_account.min and .max
    total,      \* len(selectedTasks)
    task,       \* taskIndex + 1
    firstError, \* processTaskLoop's firstError
    result,     \* what Process returned, once step = "returned"
    shutdown,   \* the gracefulShutdown goroutine: armed, closing, done
    storeOpen,  \* FALSE once the transaction log is closed
    txLog,      \* rows of the transactions table: <<task, status>>
    ran,        \* history: the same for the executions that ended
    logFailed,  \* history: an insert failed although the store was open
    outcome     \* history: each task's error, "none" before it has one

entryVars == <<clientVars, kind, attempt, err>>
taskVars == <<total, task, firstError, result>>
logVars == <<storeOpen, txLog>>
historyVars == <<ran, logFailed, outcome>>
vars == <<step, entryVars, cancelled, delay, actions, taskVars, shutdown, logVars,
          historyVars>>

TaskIndex == 1..MaxTasks
Status == {"success", "failed"}

RunSteps == {"run", "call", "answer", "poll", "receipt", "pollPause", "sleep",
             "ran", "retryPause", "errorPause", "close"}

TaskSteps == {"prepare", "dial", "chainId", "notPrepared", "log"} \cup RunSteps

Steps == {"select", "task", "between", "pause", "returned", "panicked"} \cup TaskSteps

TypeOK ==
    /\ ClientTypeOK /\ TasksTypeOK /\ ExecTypeOK
    /\ step \in Steps
    /\ actions \in Requests
    /\ total \in 0..MaxTasks
    /\ task \in 1..(MaxTasks + 1)
    /\ firstError \in {"nil", "failure"}
    /\ result \in Errors
    /\ shutdown \in {"armed", "closing", "done"}
    /\ storeOpen \in BOOLEAN
    /\ txLog \in Seq(TaskIndex \X Status)
    /\ ran \in Seq(TaskIndex \X Status)
    /\ logFailed \in BOOLEAN
    /\ outcome \in [TaskIndex -> Errors \cup {"none"}]

Init ==
    /\ delay \in Delays /\ actions \in Requests
    /\ step = "select"
    /\ kind = "none" /\ client = FALSE /\ node = "none" /\ open = 0
    /\ attempt = 0 /\ err = "nil"
    /\ cancelled = FALSE
    /\ total = 0 /\ task = 1
    /\ firstError = "nil" /\ result = "nil"
    /\ shutdown = "armed"
    /\ storeOpen = TRUE /\ txLog = <<>>
    /\ ran = <<>> /\ logFailed = FALSE
    /\ outcome = [t \in TaskIndex |-> "none"]

\* A bug: the loop stays with its task.
SameTask == task

NextTask == task + 1

ProcessReturns(e) == step' = "returned" /\ result' = e

(***************************************************************************)
(* SelectTasks: no valid task, or none drawn, is a success of the wallet.  *)
(* An explicit sequence may lose the names that cannot run; else there is  *)
(* a draw, if any task is enabled.  It panics, before the first task, when *)
(* its bounds are too far apart or there is no room for the list drawn.    *)
(* TaskSelection has the rest of it.                                       *)
(***************************************************************************)
Drawable(n) ==
    /\ ~CountPanics(actions.min, actions.max)
    /\ n \in Counts(actions.min, actions.max)

Select ==
    /\ step = "select"
    /\ total' \in {0} \cup {n \in 1..MaxTasks : actions.explicit \/ Drawable(n)}
    /\ IF total' = 0 THEN ProcessReturns("nil") ELSE step' = "task" /\ UNCHANGED result
    /\ UNCHANGED <<entryVars, cancelled, task, firstError, shutdown, logVars, historyVars>>

SelectPanics ==
    /\ step = "select"
    /\ ~actions.explicit
    /\ \/ CountPanics(actions.min, actions.max)
       \/ \E n \in Counts(actions.min, actions.max) : n > MaxTasks
    /\ step' = "panicked"
    /\ UNCHANGED <<entryVars, cancelled, taskVars, shutdown, logVars, historyVars>>

(***************************************************************************)
(* The head of processTaskLoop: the list is exhausted, the context is done *)
(* or the next task begins.                                                *)
(***************************************************************************)
\* A bug: the context is not looked at.
BeginsAnyway == TRUE

MayBegin == ~cancelled

TaskLoop ==
    /\ step = "task"
    /\ \/ /\ task > total
          /\ ProcessReturns(firstError)
          /\ UNCHANGED <<kind, attempt>>
       \/ /\ task <= total
          /\ ~MayBegin
          /\ ProcessReturns("canceled")
          /\ UNCHANGED <<kind, attempt>>
       \/ /\ task <= total
          /\ MayBegin
          /\ step' = "prepare"
          /\ kind' \in TaskKinds
          /\ attempt' = 1
          /\ UNCHANGED result
    /\ UNCHANGED <<clientVars, err, cancelled, total, task, firstError, shutdown,
                   logVars, historyVars>>

(***************************************************************************)
(* prepareTask and getEvmClientForTask: no constructor or no URL is an     *)
(* error, the network "any" needs no client.                               *)
(***************************************************************************)
NoRunnerOrNode ==
    /\ Misconfigured
    /\ step = "prepare"
    /\ step' = "notPrepared"
    /\ err' = "failure"

NetworkAny == step = "prepare" /\ step' = "run" /\ UNCHANGED err

NetworkNamed == step = "prepare" /\ step' = "dial" /\ UNCHANGED err

Prepare ==
    /\ NoRunnerOrNode \/ NetworkAny \/ NetworkNamed
    /\ UNCHANGED <<clientVars, kind, attempt, cancelled, taskVars, shutdown,
                   logVars, historyVars>>

(***************************************************************************)
(* A task's error: one of the context's ends the wallet, any other is kept *)
(* if it is the first.  The task's own variables go out of scope.          *)
(***************************************************************************)
\* A bug: the last error wins, even over none.
KeepLast(e) == firstError' = e

Keep(e) == firstError' = IF firstError = "nil" THEN e ELSE firstError

TaskOver ==
    /\ kind' = "none" /\ attempt' = 0 /\ err' = "nil"

(***************************************************************************)
(* A task that cannot be prepared is passed over, without a row in the log *)
(* and without the pause that follows an executed one.                     *)
(***************************************************************************)
\* Two bugs: such a task ends the wallet, or is tried again for ever.
EndsWallet == ProcessReturns(err) /\ UNCHANGED <<task, firstError>>
PreparesAgain == step' = "task" /\ UNCHANGED <<task, firstError, result>>

PassedOver ==
    IF IsContextError(err)
    THEN ProcessReturns(err) /\ UNCHANGED <<task, firstError>>
    ELSE step' = "task" /\ task' = NextTask /\ Keep(err) /\ UNCHANGED result

PrepareFails ==
    /\ step = "notPrepared"
    /\ outcome' = [outcome EXCEPT ![task] = err]
    /\ PassedOver
    /\ TaskOver
    /\ UNCHANGED <<clientVars, cancelled, total, shutdown, logVars, ran, logFailed>>

(***************************************************************************)
(* executeAndLogTask: the client is closed, then the row is written under  *)
(* a context of its own, which the shutdown does not cancel; a store that  *)
(* is closed, or fails, loses it.                                          *)
(***************************************************************************)
StatusOf(e) == IF e = "nil" THEN "success" ELSE "failed"

Close ==
    /\ step = "close"
    /\ step' = "log"
    /\ open' = CloseClient
    /\ client' = FALSE
    /\ ran' = Append(ran, <<task, StatusOf(err)>>)
    /\ outcome' = [outcome EXCEPT ![task] = err]
    /\ UNCHANGED <<node, kind, attempt, err, cancelled, taskVars, shutdown,
                   logVars, logFailed>>

\* A bug: the row gets the wallet's error instead of the task's.
RowOfWallet == <<task, StatusOf(firstError)>>

Row == <<task, StatusOf(err)>>

LogTransaction ==
    \/ /\ txLog' = IF storeOpen THEN Append(txLog, Row) ELSE txLog
       /\ UNCHANGED logFailed
    \/ /\ LogMayFail /\ storeOpen
       /\ logFailed' = TRUE
       /\ UNCHANGED txLog

(***************************************************************************)
(* What follows an execution: a context error ends the wallet; there is a  *)
(* pause unless it was the last task.                                      *)
(***************************************************************************)
IsLast == task = total

AfterExecution ==
    IF IsContextError(err)
    THEN ProcessReturns(err) /\ UNCHANGED <<task, firstError>>
    ELSE /\ Keep(err)
         /\ IF IsLast
            THEN step' = "task" /\ task' = NextTask
            ELSE step' = "between" /\ UNCHANGED task
         /\ UNCHANGED result

Log ==
    /\ step = "log"
    /\ LogTransaction
    /\ AfterExecution
    /\ TaskOver
    /\ UNCHANGED <<clientVars, cancelled, total, shutdown, storeOpen, ran, outcome>>

(***************************************************************************)
(* performInterTaskDelay: the context first, then the pause, which is      *)
(* passed over when its unit is unknown or no length comes out.            *)
(***************************************************************************)
GoesOn == step' = "task" /\ task' = NextTask /\ UNCHANGED result

InterTaskDelay ==
    IF DurationPanics(delay.betweenActions)
    THEN step' = "panicked" /\ UNCHANGED <<task, result>>
    ELSE \/ /\ UnitKnown(delay.betweenActions)
            /\ \E d \in Durations(delay.betweenActions) : d > 0
            /\ step' = "pause" /\ UNCHANGED <<task, result>>
         \/ /\ \/ ~UnitKnown(delay.betweenActions)
               \/ \E d \in Durations(delay.betweenActions) : d <= 0
            /\ GoesOn

BetweenTasks ==
    /\ step = "between"
    /\ IF cancelled
       THEN ProcessReturns("canceled") /\ UNCHANGED task
       ELSE InterTaskDelay
    /\ UNCHANGED <<entryVars, cancelled, total, firstError, shutdown, logVars, historyVars>>

PauseEnds ==
    /\ step = "pause"
    /\ GoesOn
    /\ UNCHANGED <<entryVars, cancelled, total, firstError, shutdown, logVars, historyVars>>

PauseInterrupted ==
    /\ step = "pause"
    /\ cancelled
    /\ ProcessReturns("canceled")
    /\ UNCHANGED <<entryVars, cancelled, total, task, firstError, shutdown,
                   logVars, historyVars>>

ExecutesTask ==
    ExecutorStep /\ UNCHANGED <<actions, taskVars, shutdown, logVars, historyVars>>

LoopStep ==
    /\ UNCHANGED <<delay, actions>>
    /\ \/ Select \/ SelectPanics \/ TaskLoop \/ Prepare \/ PrepareFails
       \/ Close \/ Log \/ BetweenTasks \/ PauseEnds \/ PauseInterrupted

WalletStep == ExecutesTask \/ LoopStep

(***************************************************************************)
(* The shutdown goroutine, as in Application.                              *)
(***************************************************************************)
Signal ==
    /\ shutdown = "armed"
    /\ shutdown' = "closing"
    /\ cancelled' = TRUE
    /\ UNCHANGED <<step, entryVars, delay, actions, taskVars, logVars, historyVars>>

CloseResources ==
    /\ shutdown = "closing"
    /\ shutdown' = "done"
    /\ storeOpen' = FALSE
    /\ UNCHANGED <<step, entryVars, cancelled, delay, actions, taskVars, txLog, historyVars>>

Over == step \in {"returned", "panicked"}

Next ==
    \/ WalletStep
    \/ ~Over /\ (Signal \/ CloseResources)
    \/ Over /\ UNCHANGED vars

Spec == Init /\ [][Next]_vars

(***************************************************************************)
(* The dial and the request for a receipt run under the context Process    *)
(* was given, which has no deadline: until it is cancelled nothing but the *)
(* node ends them, and a node owes no answer.                              *)
(***************************************************************************)
AwaitsNode == step \in {"dial", "receipt"} /\ ~cancelled

(***************************************************************************)
(* Everything else ends by itself: timers fire, the chain id, a balance    *)
(* and an insert have deadlines of five, thirty and ten seconds, and a     *)
(* request under a done context is given up.                               *)
(***************************************************************************)
FairSpec == Spec /\ WF_vars(~AwaitsNode /\ WalletStep)

-----------------------------------------------------------------------------

(***************************************************************************)
(* The wallet counts as completed, which is what the checkpoint records,   *)
(* exactly when each of its selected tasks was executed without an error:  *)
(* no skipped task, no failure early in the list and no cancellation is    *)
(* lost on the way out of the loop.                                        *)
(***************************************************************************)
NilMeansAllSucceeded ==
    step = "returned" => (result = "nil" <=> \A t \in 1..total : outcome[t] = "nil")

(***************************************************************************)
(* Failures are isolated: unless the wallet ends with a context error,     *)
(* every selected task was tried, whatever happened to those before it.    *)
(***************************************************************************)
FailuresAreIsolated ==
    step = "returned" /\ ~IsContextError(result) =>
        \A t \in 1..total : outcome[t] # "none"

(***************************************************************************)
(* The log holds rows of executed tasks only, in order, none twice, with   *)
(* the status the execution had however many attempts it took.  While the  *)
(* store is open and no insert failed it holds all of them: a row is       *)
(* missing only between the end of an execution and its insert.            *)
(***************************************************************************)
LogMatchesRuns ==
    /\ \A i \in 1..Len(txLog) : \E j \in 1..Len(ran) : txLog[i] = ran[j]
    /\ \A i, j \in 1..Len(txLog) : i < j => txLog[i][1] < txLog[j][1]
    /\ storeOpen /\ ~logFailed =>
         txLog = IF step = "log" THEN Front(ran) ELSE ran

(***************************************************************************)
(* A task is never executed a second time, nor one after a later one.      *)
(***************************************************************************)
RanInOrder == \A i, j \in 1..Len(ran) : i < j => ran[i][1] < ran[j][1]

(***************************************************************************)
(* No RPC connection outlives its task: whatever failed or was cancelled,  *)
(* at most one is open, and none between tasks or when Process returns.    *)
(***************************************************************************)
NoClientLeak ==
    /\ open = IF step = "chainId" \/ client THEN 1 ELSE 0
    /\ client => step \in RunSteps \cup {"panicked"}

(***************************************************************************)
(* Process panics, and with it the program, only over a task that has no   *)
(* client and calls one, over bounds of a pause so far apart that their    *)
(* distance overflows, or, before any task, over bounds that ask for more  *)
(* tasks than memory holds: bounds the wrong way round, negative ones and  *)
(* unknown units do no harm.                                               *)
(***************************************************************************)
Overflows(range) ==
    range.max - range.min >= MaxInt \/ range.min - range.max >= MaxInt

PanicHasACause ==
    step = "panicked" =>
        \/ NeedsClient(kind) /\ ~client
        \/ \E f \in DelayFields : Overflows(delay[f])
        \/ /\ total = 0 /\ ~actions.explicit
           /\ actions.min > MaxTasks \/ actions.max > MaxTasks

(***************************************************************************)
(* Process returns or panics, unless a node never answers its dial, or     *)
(* requests for receipts never end, because one is not answered or because *)
(* its transaction stays unknown: attempts, pauses and tasks are finitely  *)
(* many, however they fail.                                                *)
(***************************************************************************)
OverUnlessAwaitingNode == <>Over \/ <>[](step = "dial") \/ []<>(step = "receipt")

(***************************************************************************)
(* A signal is answered: once the context is done the wallet ends, even in *)
(* the middle of a dial or of waiting for a receipt that never comes, with *)
(* a timer that is always a little faster than the context.                *)
(***************************************************************************)
SignalIsAnswered == cancelled ~> Over

(***************************************************************************)
(* processor.go: "the context was cancelled while the tasks ran" is what   *)
(* Process says of every error of the context's kind.                      *)
(***************************************************************************)
InterruptedMeansCancelled ==
    step = "returned" /\ IsContextError(result) => cancelled

(***************************************************************************)
(* client.go: NewClient creates a client "trying multiple RPC URLs if      *)
(* provided", so that, uncancelled, no task is passed over for want of a   *)
(* node while its network has a live one.                                  *)
(***************************************************************************)
WasPassedOver(t) ==
    /\ outcome[t] \notin {"none", "nil"}
    /\ \A i \in 1..Len(ran) : ran[i][1] # t

LiveNodeServes ==
    "live" \in Nodes /\ ~cancelled => \A t \in TaskIndex : ~WasPassedOver(t)

(***************************************************************************)
(* Process keeps the promise of WalletTasks.                               *)
(***************************************************************************)
Verdict ==
    CASE step = "select"   -> "selecting"
      [] step = "panicked" -> "panicked"
      [] step = "returned" /\ result = "nil"         -> "completed"
      [] step = "returned" /\ IsContextError(result) -> "interrupted"
      [] step = "returned" /\ result = "failure"     -> "failed"
      [] OTHER -> "working"

Ended == {t \in TaskIndex : t < task \/ (t = task /\ step \in {"between", "pause"})}

Working == Verdict = "working"

Left == IF Working THEN total - task + (IF step = "task" THEN 1 ELSE 0) ELSE 0

Failed == Working /\ \E t \in Ended : outcome[t] # "nil"

Wallet == INSTANCE WalletTasks WITH
    Limit   <- MaxTasks,
    verdict <- Verdict,
    busy    <- step \in TaskSteps,
    left    <- Left,
    failed  <- Failed

ImplementsWalletTasks == Wallet!Spec
=============================================================================
