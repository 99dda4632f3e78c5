--------------------------- MODULE ProcessorProofs ---------------------------
(***************************************************************************)
(* What holds of Process for every number of tasks, every configuration of *)
(* the delays and every behaviour of nodes, tasks, store and shutdown.     *)
(***************************************************************************)
EXTENDS Processor, RandomRangeProofs

(***************************************************************************)
(* What the control point says of the other variables: where a task is at  *)
(* hand, which error it has, whether an attempt is left, who holds the     *)
(* connection.                                                             *)
(***************************************************************************)
ControlInv ==
    /\ TypeOK
    /\ NoClientLeak
    /\ task <= total + 1
    /\ step = "select" => task = 1 /\ total = 0
    /\ step \in TaskSteps => kind \in TaskKinds /\ task <= total
    /\ step \in {"between", "pause"} => task < total
    /\ step = "chainId" => node \in Nodes
    /\ step = "notPrepared" => err # "nil"
    /\ step = "retryPause" => attempt < MaxAttempts

(***************************************************************************)
(* At least one attempt is made, whatever is configured.                   *)
(***************************************************************************)
LEMMA SomeAttempt ==
    ASSUME delay \in Delays
    PROVE  MaxAttempts \in Nat /\ MaxAttempts >= 1
BY ExecutorAssumption DEF MaxAttempts

(***************************************************************************)
(* A call of the client keeps it: a connection opened is closed again      *)
(* unless it becomes the task's.                                           *)
(***************************************************************************)
LEMMA ClientKeepsControl ==
    ASSUME ControlInv, ClientStep,
           UNCHANGED <<kind, delay, attempt, actions, taskVars, shutdown, logVars, historyVars>>
    PROVE  ControlInv'
<1> USE DEF ControlInv, TypeOK, ClientTypeOK, TasksTypeOK, ExecTypeOK, NoClientLeak,
            Steps, TaskSteps, RunSteps, Errors, clientVars, taskVars, logVars,
            historyVars, MaxAttempts
<1>0. kind' = kind /\ attempt' = attempt /\ delay' = delay
  OBVIOUS
<1>1. CASE Dial
  BY <1>1 DEF Dial
<1>2. CASE DialFails
  BY <1>2 DEF DialFails, Canceled
<1>3. CASE ChainId
  BY <1>3 DEF ChainId
<1>4. CASE ChainIdFails
  <2>1. err' \in {"canceled", "deadline", "failure"}
    BY <1>4, ClientAssumption DEF ChainIdFails, Canceled, ChainIdError
  <2> QED
    BY <1>4, <2>1 DEF ChainIdFails, Hangup
<1>5. CASE Call
  BY <1>5 DEF Call, Returns
<1>6. CASE Answer
  BY <1>6 DEF Answer, Returns, Canceled
<1>7. CASE Poll
  BY <1>7 DEF Poll, Returns
<1>8. CASE Receipt
  BY <1>8 DEF Receipt, Returns, Canceled
<1>9. CASE ReceiptNotFound \/ PollPauseEnds
  BY <1>9 DEF ReceiptNotFound, PollPauseEnds
<1>10. CASE PollPauseInterrupted
  BY <1>10 DEF PollPauseInterrupted, Returns
<1> QED
  BY <1>1, <1>2, <1>3, <1>4, <1>5, <1>6, <1>7, <1>8, <1>9, <1>10 DEF ClientStep

(***************************************************************************)
(* So do the task itself and the attempts at it.                           *)
(***************************************************************************)
LEMMA ExecutorKeepsControl ==
    ASSUME ControlInv, ExecutesTask
    PROVE  ControlInv'
<1> USE DEF ControlInv, TypeOK, ClientTypeOK, TasksTypeOK, ExecTypeOK, NoClientLeak,
            Steps, TaskSteps, RunSteps, Errors, clientVars, taskVars, logVars,
            historyVars
<1>0. /\ UNCHANGED <<delay, actions, taskVars, shutdown, logVars, historyVars>>
      /\ MaxAttempts' = MaxAttempts /\ MaxAttempts \in Nat /\ MaxAttempts >= 1
      /\ attempt \in 0..MaxAttempts
  BY SomeAttempt DEF ExecutesTask, ExecutorStep, MaxAttempts
<1>1. CASE Attempt /\ UNCHANGED <<clientVars, err, cancelled, kind>>
  <2>1. CASE Succeeds
    BY <1>0, <1>1, <2>1 DEF Succeeds
  <2>2. CASE Retries
    <3>1. /\ step = "ran"
          /\ step' \in {"panicked", "retryPause", "run"}
          /\ attempt < MaxAttempts
          /\ attempt' = IF step' = "run" THEN attempt + 1 ELSE attempt
      BY <2>2 DEF Retries, Pause, MayRetry
    <3> QED
      BY <1>0, <1>1, <3>1
  <2>3. CASE GivesUp
    <3>1. /\ step = "ran"
          /\ step' \in {"panicked", "errorPause", "close"}
          /\ UNCHANGED attempt
      BY <2>3 DEF GivesUp, Pause
    <3> QED
      BY <1>0, <1>1, <3>1
  <2>4. CASE RetryPauseEnds
    BY <1>0, <1>1, <2>4 DEF RetryPauseEnds
  <2>5. CASE RetryPauseInterrupted \/ ErrorPauseEnds
    BY <1>0, <1>1, <2>5 DEF RetryPauseInterrupted, ErrorPauseEnds
  <2> QED
    BY <1>1, <2>1, <2>2, <2>3, <2>4, <2>5 DEF Attempt
<1>2. CASE TaskStep /\ UNCHANGED attempt
  <2>1. CASE Run
    <3>1. /\ step = "run"
          /\ step' \in {"panicked", "sleep", "call", "poll"}
          /\ UNCHANGED <<clientVars, err, cancelled, kind>>
      BY <2>1, TasksAssumption DEF Run, FirstStep
    <3> QED
      BY <1>0, <1>2, <3>1
  <2>2. CASE Sleep
    BY <1>0, <1>2, <2>2 DEF Sleep, Returns
  <2>3. CASE ClientStep /\ UNCHANGED kind
    BY <1>0, <1>2, <2>3, ClientKeepsControl
  <2> QED
    BY <1>2, <2>1, <2>2, <2>3 DEF TaskStep
<1> QED
  BY <1>1, <1>2 DEF ExecutesTask, ExecutorStep

(***************************************************************************)
(* And the loop over the tasks, beside which the shutdown goroutine runs.  *)
(***************************************************************************)
LEMMA ControlInvInductive == ControlInv /\ [Next]_vars => ControlInv'
<1> SUFFICES ASSUME ControlInv, [Next]_vars PROVE ControlInv'
  OBVIOUS
<1> USE DEF ControlInv, TypeOK, ClientTypeOK, TasksTypeOK, ExecTypeOK, NoClientLeak,
            Steps, TaskSteps, RunSteps, Errors, entryVars, clientVars, taskVars,
            logVars, historyVars
<1>0. /\ MaxTasks \in Nat /\ total \in 0..MaxTasks
      /\ (UNCHANGED delay => MaxAttempts' = MaxAttempts)
      /\ MaxAttempts \in Nat /\ MaxAttempts >= 1
      /\ attempt \in 0..MaxAttempts
  BY SomeAttempt, ProcessorAssumption DEF MaxAttempts
<1>1. CASE ExecutesTask
  BY <1>1, ExecutorKeepsControl
<1>2. CASE LoopStep
  <2>0. UNCHANGED <<delay, actions>> /\ MaxAttempts' = MaxAttempts
    BY <1>0, <1>2 DEF LoopStep
  <2>1. CASE Select
    <3>1. PICK n \in 0..MaxTasks : total' = n
      BY <1>0, <2>1 DEF Select
    <3>2. task' <= total' + 1
      BY <1>0, <2>1, <3>1 DEF Select
    <3>3. step' \in {"returned", "task"} /\ result' \in Errors
      BY <2>1 DEF Select, ProcessReturns
    <3> QED
      BY <1>0, <2>0, <2>1, <3>1, <3>2, <3>3 DEF Select
  <2>10. CASE SelectPanics
    BY <1>0, <2>0, <2>10 DEF SelectPanics
  <2>2. CASE TaskLoop
    BY <1>0, <2>0, <2>2 DEF TaskLoop, ProcessReturns
  <2>3. CASE Prepare
    BY <1>0, <2>0, <2>3 DEF Prepare, NoRunnerOrNode, NetworkAny, NetworkNamed
  <2>4. CASE PrepareFails
    <3>1. outcome' \in [TaskIndex -> Errors \cup {"none"}]
      BY <2>4 DEF PrepareFails
    <3> QED
      BY <1>0, <2>0, <2>4, <3>1
      DEF PrepareFails, PassedOver, ProcessReturns, TaskOver, Keep, NextTask, IsContextError
  <2>5. CASE Close
    <3>1. outcome' \in [TaskIndex -> Errors \cup {"none"}]
      BY <2>5 DEF Close
    <3>2. ran' \in Seq(TaskIndex \X Status)
      BY <1>0, <2>5 DEF Close, TaskIndex, Status, StatusOf
    <3>3. open' = 0
      BY <2>5 DEF Close, CloseClient
    <3>4. /\ step = "close" /\ step' = "log" /\ ~client' /\ client' \in BOOLEAN
          /\ UNCHANGED <<node, kind, attempt, err, cancelled, total, task, firstError,
                         result, shutdown, storeOpen, txLog, logFailed>>
      BY <2>5 DEF Close
    <3> QED
      BY <1>0, <2>0, <3>1, <3>2, <3>3, <3>4
  <2>6. CASE Log
    <3>1. txLog' \in Seq(TaskIndex \X Status) /\ logFailed' \in BOOLEAN
      <4>1. <<task, StatusOf(err)>> \in TaskIndex \X Status
        BY <1>0, <2>6 DEF Log, TaskIndex, Status, StatusOf
      <4>2. txLog' \in {txLog, Append(txLog, <<task, StatusOf(err)>>)}
        BY <2>6 DEF Log, LogTransaction, Row
      <4>3. logFailed' \in BOOLEAN
        BY <2>6 DEF Log, LogTransaction
      <4>4. txLog \in Seq(TaskIndex \X Status)
        OBVIOUS
      <4>5. Append(txLog, <<task, StatusOf(err)>>) \in Seq(TaskIndex \X Status)
        BY <4>1, <4>4
      <4>6. txLog' \in Seq(TaskIndex \X Status)
        BY <4>2, <4>4, <4>5
      <4> QED
        BY <4>3, <4>6
    <3> QED
      BY <1>0, <2>0, <2>6, <3>1
      DEF Log, AfterExecution, ProcessReturns, TaskOver, Keep, NextTask, IsLast, IsContextError
  <2>7. CASE BetweenTasks
    BY <1>0, <2>0, <2>7 DEF BetweenTasks, InterTaskDelay, GoesOn, NextTask, ProcessReturns
  <2>8. CASE PauseEnds
    BY <1>0, <2>0, <2>8 DEF PauseEnds, GoesOn, NextTask
  <2>9. CASE PauseInterrupted
    BY <1>0, <2>0, <2>9 DEF PauseInterrupted, ProcessReturns
  <2> QED
    BY <1>2, <2>1, <2>2, <2>3, <2>4, <2>5, <2>6, <2>7, <2>8, <2>9, <2>10 DEF LoopStep
<1>3. CASE Signal \/ CloseResources
  <2>1. /\ UNCHANGED <<step, node, client, open, kind, attempt, err, delay, actions, total,
                       task, firstError, result, txLog, ran, logFailed, outcome>>
        /\ MaxAttempts' = MaxAttempts
    BY <1>0, <1>3 DEF Signal, CloseResources
  <2>2. shutdown' \in {"armed", "closing", "done"}
    BY <1>3 DEF Signal, CloseResources
  <2>3. cancelled' \in BOOLEAN /\ storeOpen' \in BOOLEAN
    BY <1>3 DEF Signal, CloseResources
  <2> QED
    BY <1>0, <2>1, <2>2, <2>3
<1>4. CASE UNCHANGED vars
  BY <1>0, <1>4 DEF vars
<1> HIDE DEF ControlInv, entryVars, clientVars, taskVars, logVars, historyVars
<1>5. CASE Next
  BY <1>1, <1>2, <1>3, <1>4, <1>5 DEF Next, WalletStep
<1> QED
  BY <1>4, <1>5

LEMMA ControlInvInitially == Init => ControlInv
<1> SUFFICES ASSUME Init PROVE ControlInv
  OBVIOUS
<1>1. delay \in Delays /\ attempt = 0 /\ MaxAttempts \in Nat
  BY SomeAttempt DEF Init
<1>2. ClientTypeOK /\ TasksTypeOK
  <2>1. client \in BOOLEAN /\ cancelled \in BOOLEAN
    BY DEF Init
  <2>2. /\ node \in Nodes \cup {"none"} /\ kind \in TaskKinds \cup {"none"}
        /\ open \in 0..1 /\ err \in Errors
    BY DEF Init, Errors
  <2> QED
    BY <2>1, <2>2 DEF ClientTypeOK, TasksTypeOK
<1>5. ExecTypeOK
  <2>1. 0 \in 0..MaxAttempts
    BY <1>1
  <2> QED
    BY <1>1, <2>1 DEF ExecTypeOK
<1>3. txLog \in Seq(TaskIndex \X Status) /\ ran \in Seq(TaskIndex \X Status)
  BY DEF Init
<1>4. TypeOK
  <2>1. /\ step \in Steps /\ actions \in Requests
        /\ firstError \in {"nil", "failure"} /\ result \in Errors
        /\ shutdown \in {"armed", "closing", "done"}
    BY DEF Init, Steps, Errors
  <2>2. total \in 0..MaxTasks /\ task \in 1..(MaxTasks + 1)
    BY ProcessorAssumption DEF Init
  <2>3. storeOpen \in BOOLEAN /\ logFailed \in BOOLEAN
    BY DEF Init
  <2>4. outcome \in [TaskIndex -> Errors \cup {"none"}]
    BY DEF Init
  <2> QED
    BY <1>2, <1>5, <1>3, <2>1, <2>2, <2>3, <2>4 DEF TypeOK
<1>6. NoClientLeak
  BY DEF Init, NoClientLeak
<1> QED
  BY <1>4, <1>6, ProcessorAssumption DEF Init, ControlInv, TaskSteps, RunSteps

(***************************************************************************)
(* The variables keep their types: one connection at most, no attempt more *)
(* than configured.                                                        *)
(***************************************************************************)
THEOREM ProcessorTypeCorrect == Spec => []TypeOK
<1>1. ControlInv => TypeOK
  BY DEF ControlInv
<1> QED
  BY <1>1, ControlInvInitially, ControlInvInductive, PTL DEF Spec

(***************************************************************************)
(* No connection is left open by any way out of a task.                    *)
(***************************************************************************)
THEOREM ConnectionsAreClosed == Spec => []NoClientLeak
<1>1. ControlInv => NoClientLeak
  BY DEF ControlInv
<1> QED
  BY <1>1, ControlInvInitially, ControlInvInductive, PTL DEF Spec

(***************************************************************************)
(* The execution of a task changes nothing of the loop, and stays within   *)
(* the task unless it panics.                                              *)
(***************************************************************************)
LEMMA ExecutionStaysInTask ==
    ASSUME ControlInv, ExecutesTask
    PROVE  /\ step \in TaskSteps \ {"log", "prepare", "notPrepared"}
           /\ step' \in (TaskSteps \ {"log", "prepare"}) \cup {"panicked"}
           /\ UNCHANGED <<delay, actions, total, task, firstError, result, shutdown,
                          storeOpen, txLog, ran, logFailed, outcome>>
<1>1. UNCHANGED <<delay, actions, total, task, firstError, result, shutdown, storeOpen,
                  txLog, ran, logFailed, outcome>>
  BY DEF ExecutesTask, ExecutorStep, taskVars, logVars, historyVars
<1> USE DEF TaskSteps, RunSteps
<1>2. CASE Attempt
  BY <1>1, <1>2 DEF Attempt, Succeeds, Retries, GivesUp, Pause, RetryPauseEnds,
                    RetryPauseInterrupted, ErrorPauseEnds
<1>3. CASE Run
  <2>1. step = "run" /\ step' \in {"panicked", "sleep", "call", "poll"}
    BY <1>3, TasksAssumption DEF Run, FirstStep, ControlInv
  <2> QED
    BY <1>1, <2>1
<1>4. CASE Sleep
  BY <1>1, <1>4 DEF Sleep, Returns
<1>5. CASE ClientStep
  BY <1>1, <1>5 DEF ClientStep, Dial, DialFails, ChainId, ChainIdFails, Call, Answer, Poll,
                    Receipt, ReceiptNotFound, PollPauseEnds, PollPauseInterrupted, Returns
<1> QED
  BY <1>2, <1>3, <1>4, <1>5 DEF ExecutesTask, ExecutorStep, TaskStep

(***************************************************************************)
(* The shutdown goroutine changes nothing of the loop.                     *)
(***************************************************************************)
LEMMA ShutdownKeepsLoop ==
    ASSUME Signal \/ CloseResources
    PROVE  UNCHANGED <<step, kind, client, delay, actions, total, task, firstError, result,
                       ran, outcome>>
BY DEF Signal, CloseResources, entryVars, clientVars, taskVars, historyVars

(***************************************************************************)
(* The executions so far are of tasks up to the one at hand, which has one *)
(* only once its log is being written.                                     *)
(***************************************************************************)
RanInv ==
    /\ RanInOrder
    /\ \A i \in 1..Len(ran) :
         /\ ran[i][1] <= task
         /\ step \in {"select", "task"} \cup (TaskSteps \ {"log"}) => ran[i][1] < task

LEMMA RanInvInductive == ControlInv /\ RanInv /\ [Next]_vars => RanInv'
<1> SUFFICES ASSUME ControlInv, RanInv, [Next]_vars PROVE RanInv'
  OBVIOUS
<1>0. /\ task \in Nat /\ ran \in Seq(TaskIndex \X Status)
      /\ \A i \in 1..Len(ran) : ran[i][1] \in Int
  <2>1. task \in Nat /\ ran \in Seq(TaskIndex \X Status)
    BY ProcessorAssumption DEF ControlInv, TypeOK
  <2>2. \A i \in 1..Len(ran) : ran[i] \in TaskIndex \X Status
    BY <2>1
  <2> QED
    BY <2>1, <2>2 DEF TaskIndex
<1> USE DEF RanInv, RanInOrder
<1>1. CASE ExecutesTask
  BY <1>0, <1>1, ExecutionStaysInTask
<1>2. CASE Signal \/ CloseResources
  BY <1>0, <1>2, ShutdownKeepsLoop
<1>3. CASE UNCHANGED vars
  BY <1>0, <1>3 DEF vars, taskVars, historyVars
<1>4. CASE Close
  <2>1. /\ step = "close" /\ step' = "log" /\ task' = task
        /\ ran' = Append(ran, <<task, StatusOf(err)>>)
    BY <1>4 DEF Close, taskVars
  <2>2. \A i \in 1..Len(ran) : ran[i][1] < task
    BY <2>1 DEF TaskSteps, RunSteps
  <2>3. /\ Len(ran') = Len(ran) + 1
        /\ \A i \in 1..Len(ran) : ran'[i] = ran[i]
        /\ ran'[Len(ran) + 1] = <<task, StatusOf(err)>>
    BY <1>0, <2>1
  <2>4. \A i \in 1..Len(ran') : i \in 1..Len(ran) \/ i = Len(ran) + 1
    BY <1>0, <2>3
  <2>5. ran'[Len(ran) + 1][1] = task
    BY <2>3
  <2>6. ASSUME NEW i \in 1..Len(ran'), NEW j \in 1..Len(ran'), i < j
        PROVE  ran'[i][1] < ran'[j][1]
    BY <1>0, <2>2, <2>3, <2>4, <2>5, <2>6
  <2>7. \A i \in 1..Len(ran') : ran'[i][1] <= task'
    BY <1>0, <2>1, <2>2, <2>3, <2>4, <2>5
  <2> QED
    BY <2>1, <2>6, <2>7
<1>5. CASE LoopStep /\ ~Close
  <2>1. ran' = ran
    BY <1>5 DEF LoopStep, Select, SelectPanics, TaskLoop, Prepare, PrepareFails, Log,
                BetweenTasks, PauseEnds, PauseInterrupted, historyVars
  <2>2. \/ task' = task + 1
        \/ /\ task' = task
           /\ \/ step' \in {"between", "pause", "returned", "panicked"}
              \/ step \in {"select", "task"} \cup (TaskSteps \ {"log"})
    BY <1>5 DEF LoopStep, Select, SelectPanics, TaskLoop, Prepare, PrepareFails, Log,
                BetweenTasks, PauseEnds, PauseInterrupted, PassedOver, AfterExecution,
                InterTaskDelay, GoesOn, NextTask, ProcessReturns, NoRunnerOrNode, NetworkAny,
                NetworkNamed, taskVars, TaskSteps
  <2> QED
    BY <1>0, <2>1, <2>2 DEF TaskSteps, RunSteps
<1> QED
  BY <1>1, <1>2, <1>3, <1>4, <1>5 DEF Next, WalletStep

(***************************************************************************)
(* No task is executed twice, nor after a later one.                       *)
(***************************************************************************)
THEOREM TasksRunInOrder == Spec => []RanInOrder
<1>1. Init => RanInv
  BY DEF Init, RanInv, RanInOrder
<1>2. RanInv => RanInOrder
  BY DEF RanInv
<1> QED
  BY <1>1, <1>2, ControlInvInitially, ControlInvInductive, RanInvInductive, PTL DEF Spec

(***************************************************************************)
(* A sequence is its front and its last element.                           *)
(***************************************************************************)
LEMMA FrontOfAppend ==
    ASSUME NEW S, NEW s \in Seq(S), NEW e \in S
    PROVE  Front(Append(s, e)) = s
<1>1. /\ Append(s, e) \in Seq(S) /\ Len(Append(s, e)) = Len(s) + 1 /\ Len(s) \in Nat
      /\ \A i \in 1..Len(s) : Append(s, e)[i] = s[i]
  OBVIOUS
<1>2. Front(Append(s, e)) = SubSeq(Append(s, e), 1, Len(s))
  BY <1>1 DEF Front
<1>3. /\ SubSeq(Append(s, e), 1, Len(s)) \in Seq(S)
      /\ Len(SubSeq(Append(s, e), 1, Len(s))) = Len(s)
      /\ \A i \in 1..Len(s) : SubSeq(Append(s, e), 1, Len(s))[i] = s[i]
  BY <1>1
<1> QED
  BY <1>2, <1>3

(***************************************************************************)
(* What LogMatchesRuns needs: the row about to be written is the last of   *)
(* the executions, and none like it is in the log yet.                     *)
(***************************************************************************)
LogInv ==
    /\ LogMatchesRuns
    /\ step = "log" =>
         /\ \A i \in 1..Len(txLog) : txLog[i][1] < task
         /\ \E rows \in Seq(TaskIndex \X Status) : ran = Append(rows, Row)

LEMMA LogInvInductive == ControlInv /\ RanInv /\ LogInv /\ [Next]_vars => LogInv'
<1> SUFFICES ASSUME ControlInv, RanInv, LogInv, [Next]_vars PROVE LogInv'
  OBVIOUS
<1>0. /\ task \in Nat /\ ran \in Seq(TaskIndex \X Status) /\ txLog \in Seq(TaskIndex \X Status)
      /\ task \in 1..(MaxTasks + 1) /\ MaxTasks \in Nat /\ total \in 0..MaxTasks
      /\ storeOpen \in BOOLEAN /\ logFailed \in BOOLEAN
  BY ProcessorAssumption DEF ControlInv, TypeOK
<1>6. step \in TaskSteps => Row \in TaskIndex \X Status /\ Row[1] = task
  <2>1. step \in TaskSteps => task \in TaskIndex
    BY <1>0 DEF ControlInv, TaskIndex
  <2>2. StatusOf(err) \in Status
    BY DEF StatusOf, Status
  <2> QED
    BY <2>1, <2>2 DEF Row
<1>1. CASE ExecutesTask
  <2>1. step # "log" /\ step' # "log" /\ UNCHANGED <<storeOpen, txLog, ran, logFailed>>
    BY <1>1, ExecutionStaysInTask
  <2> QED
    BY <2>1 DEF LogInv, LogMatchesRuns
<1>2. CASE Signal \/ CloseResources \/ UNCHANGED vars
  <2>1. /\ UNCHANGED <<step, task, err, txLog, ran, logFailed>>
        /\ storeOpen' => storeOpen
    BY <1>2 DEF Signal, CloseResources, vars, entryVars, taskVars, logVars, historyVars
  <2> QED
    BY <2>1 DEF LogInv, LogMatchesRuns, Row
<1>3. CASE Close
  <2>1. /\ step = "close" /\ step' = "log"
        /\ UNCHANGED <<task, err, storeOpen, txLog, logFailed>>
        /\ ran' = Append(ran, Row)
    BY <1>3 DEF Close, taskVars, logVars, Row
  <2>2. Row' = Row
    BY <2>1 DEF Row, StatusOf
  <2>3. Row \in TaskIndex \X Status
    BY <1>6, <2>1 DEF TaskSteps, RunSteps
  <2>4. Front(ran') = ran
    BY <1>0, <2>1, <2>3, FrontOfAppend
  <2>5. \A i \in 1..Len(txLog) : \E j \in 1..Len(ran) : txLog[i] = ran[j]
    BY DEF LogInv, LogMatchesRuns
  <2>6. \A j \in 1..Len(ran) : ran[j][1] < task
    BY <2>1 DEF RanInv, TaskSteps, RunSteps
  <2>7. \A i \in 1..Len(txLog) : txLog[i][1] < task
    BY <2>5, <2>6
  <2>8. Len(ran') = Len(ran) + 1 /\ \A j \in 1..Len(ran) : ran'[j] = ran[j]
    BY <1>0, <2>1
  <2>9. \A i \in 1..Len(txLog) : \E j \in 1..Len(ran') : txLog[i] = ran'[j]
    <3> SUFFICES ASSUME NEW i \in 1..Len(txLog)
                 PROVE  \E j \in 1..Len(ran') : txLog[i] = ran'[j]
      OBVIOUS
    <3>1. PICK j \in 1..Len(ran) : txLog[i] = ran[j]
      BY <2>5
    <3>2. j \in 1..Len(ran') /\ txLog[i] = ran'[j]
      BY <1>0, <2>8, <3>1
    <3> QED
      BY <3>2
  <2>10. LogMatchesRuns'
    BY <2>1, <2>4, <2>9 DEF LogInv, LogMatchesRuns
  <2> QED
    BY <1>0, <2>1, <2>2, <2>7, <2>10 DEF LogInv
<1>4. CASE Log
  <2>1. /\ step = "log" /\ step' # "log" /\ UNCHANGED <<storeOpen, ran>>
    BY <1>4 DEF Log, AfterExecution, ProcessReturns
  <2>2. \/ storeOpen /\ txLog' = Append(txLog, Row) /\ logFailed' = logFailed
        \/ ~storeOpen /\ txLog' = txLog
        \/ logFailed' /\ txLog' = txLog
    BY <1>4 DEF Log, LogTransaction
  <2>3. PICK rows \in Seq(TaskIndex \X Status) : ran = Append(rows, Row)
    BY <2>1 DEF LogInv
  <2>4. CASE txLog' = txLog
    BY <2>1, <2>2, <2>4 DEF LogInv, LogMatchesRuns
  <2>5. CASE storeOpen /\ txLog' = Append(txLog, Row) /\ logFailed' = logFailed
    <3>1. Row \in TaskIndex \X Status /\ Row[1] = task
      BY <1>6, <2>1 DEF TaskSteps
    <3>2. Front(ran) = rows
      BY <2>3, <3>1, FrontOfAppend
    <3>3. storeOpen' /\ ~logFailed' => txLog' = ran'
      BY <2>1, <2>3, <2>5, <3>2 DEF LogInv, LogMatchesRuns
    <3>4. /\ Len(txLog') = Len(txLog) + 1 /\ txLog'[Len(txLog) + 1] = Row
          /\ \A i \in 1..Len(txLog) : txLog'[i] = txLog[i]
      BY <1>0, <2>5, <3>1
    <3>5. Len(rows) + 1 \in 1..Len(ran) /\ ran[Len(rows) + 1] = Row
      BY <2>3, <3>1
    <3>6. ASSUME NEW i \in 1..Len(txLog') PROVE \E j \in 1..Len(ran') : txLog'[i] = ran'[j]
      <4>1. CASE i = Len(txLog) + 1
        BY <2>1, <3>4, <3>5, <4>1
      <4>2. CASE i # Len(txLog) + 1
        <5>1. i \in 1..Len(txLog)
          BY <1>0, <3>4, <4>2
        <5> QED
          BY <2>1, <3>4, <5>1 DEF LogInv, LogMatchesRuns
      <4> QED
        BY <4>1, <4>2
    <3>7. ASSUME NEW i \in 1..Len(txLog'), NEW j \in 1..Len(txLog'), i < j
          PROVE  txLog'[i][1] < txLog'[j][1]
      <4>1. i \in 1..Len(txLog)
        BY <1>0, <3>4, <3>7
      <4>2. CASE j = Len(txLog) + 1
        BY <2>1, <3>1, <3>4, <4>1, <4>2 DEF LogInv
      <4>3. CASE j # Len(txLog) + 1
        <5>1. j \in 1..Len(txLog)
          BY <1>0, <3>4, <4>3
        <5> QED
          BY <3>4, <3>7, <4>1, <5>1 DEF LogInv, LogMatchesRuns
      <4> QED
        BY <4>2, <4>3
    <3> QED
      BY <2>1, <3>3, <3>6, <3>7 DEF LogInv, LogMatchesRuns
  <2> QED
    BY <2>2, <2>4, <2>5
<1>5. CASE LoopStep /\ ~Close /\ ~Log
  <2>1. step # "log" /\ step' # "log" /\ UNCHANGED <<storeOpen, txLog, ran, logFailed>>
    BY <1>5
    DEF LoopStep, Select, SelectPanics, TaskLoop, Prepare, PrepareFails, BetweenTasks, PauseEnds,
        PauseInterrupted, logVars, historyVars, PassedOver, InterTaskDelay, GoesOn,
        ProcessReturns, NoRunnerOrNode, NetworkAny, NetworkNamed
  <2> QED
    BY <2>1 DEF LogInv, LogMatchesRuns
<1> QED
  BY <1>1, <1>2, <1>3, <1>4, <1>5 DEF Next, WalletStep

(***************************************************************************)
(* The transaction log is a record of the executions: no row is made up,   *)
(* repeated, out of order or of another status, and none is missing while  *)
(* the store takes them.                                                   *)
(***************************************************************************)
THEOREM LogIsARecordOfRuns == Spec => []LogMatchesRuns
<1>1. Init => LogInv
  <2> SUFFICES ASSUME Init PROVE LogInv
    OBVIOUS
  <2>1. step = "select" /\ txLog = <<>> /\ ran = <<>>
    BY DEF Init
  <2> QED
    BY <2>1 DEF LogInv, LogMatchesRuns
<1>2. Init => RanInv
  BY DEF Init, RanInv, RanInOrder
<1>3. LogInv => LogMatchesRuns
  BY DEF LogInv
<1> QED
  BY <1>1, <1>2, <1>3, ControlInvInitially, ControlInvInductive, RanInvInductive,
     LogInvInductive, PTL DEF Spec

(***************************************************************************)
(* The tasks that are over have an outcome, and firstError says whether    *)
(* all of theirs are nil; the others have none, but for the one whose row  *)
(* is being written.  A context error is never among the outcomes of the   *)
(* tasks that are over: it ends the wallet.                                *)
(***************************************************************************)
OutcomeInv ==
    /\ ~Over =>
         /\ \A t \in Ended : outcome[t] \in {"nil", "failure"}
         /\ firstError = "nil" <=> \A t \in Ended : outcome[t] = "nil"
         /\ \A t \in TaskIndex \ Ended :
              outcome[t] = IF step = "log" /\ t = task THEN err ELSE "none"
    /\ NilMeansAllSucceeded
    /\ FailuresAreIsolated

(***************************************************************************)
(* What a step of the loop that ends the wallet finds: a task without      *)
(* success, if it returns a context error; all of them over, otherwise.    *)
(***************************************************************************)
LEMMA ReturnsJustly ==
    ASSUME OutcomeInv, ~Over, total' = total, total \in 0..MaxTasks,
           outcome' \in [TaskIndex -> Errors \cup {"none"}],
           \/ /\ result' \in {"canceled", "deadline"}
              /\ \E t \in 1..total : outcome'[t] # "nil"
           \/ /\ result' = firstError /\ outcome' = outcome
              /\ firstError \in {"nil", "failure"} /\ 1..total = Ended
    PROVE  NilMeansAllSucceeded' /\ FailuresAreIsolated'
<1>1. CASE result' \in {"canceled", "deadline"} /\ \E t \in 1..total : outcome'[t] # "nil"
  BY <1>1 DEF NilMeansAllSucceeded, FailuresAreIsolated, IsContextError
<1>2. CASE /\ result' = firstError /\ outcome' = outcome
           /\ firstError \in {"nil", "failure"} /\ 1..total = Ended
  BY <1>2 DEF OutcomeInv, NilMeansAllSucceeded, FailuresAreIsolated, IsContextError
<1> QED
  BY <1>1, <1>2

LEMMA OutcomeInvInductive == ControlInv /\ OutcomeInv /\ [Next]_vars => OutcomeInv'
<1> SUFFICES ASSUME ControlInv, OutcomeInv, [Next]_vars PROVE OutcomeInv'
  OBVIOUS
<1>0. /\ MaxTasks \in Nat /\ total \in 0..MaxTasks /\ task \in 1..(MaxTasks + 1)
      /\ task <= total + 1
      /\ firstError \in {"nil", "failure"} /\ err \in Errors
      /\ outcome \in [TaskIndex -> Errors \cup {"none"}]
      /\ outcome' \in [TaskIndex -> Errors \cup {"none"}]
      /\ \A t \in TaskIndex : t \in Int
  BY ControlInvInductive, ProcessorAssumption DEF ControlInv, TypeOK, ClientTypeOK, TaskIndex
<1>1. CASE ExecutesTask
  BY <1>0, <1>1, ExecutionStaysInTask
  DEF OutcomeInv, Ended, Over, NilMeansAllSucceeded, FailuresAreIsolated, TaskSteps, RunSteps
<1>2. CASE Signal \/ CloseResources
  <2>1. err' = err
    BY <1>2 DEF Signal, CloseResources, entryVars
  <2> QED
    BY <1>0, <1>2, <2>1, ShutdownKeepsLoop
    DEF OutcomeInv, Ended, Over, NilMeansAllSucceeded, FailuresAreIsolated
<1>3. CASE UNCHANGED vars
  BY <1>0, <1>3
  DEF vars, entryVars, taskVars, historyVars, OutcomeInv, Ended, Over, NilMeansAllSucceeded,
      FailuresAreIsolated
<1>4. CASE Select
  <2>1. /\ step = "select" /\ task = 1 /\ step' \in {"task", "returned"}
        /\ (step' = "returned" => total' = 0 /\ result' = "nil")
        /\ task' = 1 /\ firstError' = firstError /\ outcome' = outcome
    BY <1>4 DEF Select, ProcessReturns, taskVars, historyVars, ControlInv
  <2> QED
    BY <1>0, <2>1
    DEF OutcomeInv, Ended, Over, NilMeansAllSucceeded, FailuresAreIsolated, IsContextError
<1>11. CASE SelectPanics
  BY <1>11 DEF SelectPanics, OutcomeInv, Over, NilMeansAllSucceeded, FailuresAreIsolated
<1>5. CASE TaskLoop
  <2>1. step = "task" /\ UNCHANGED <<total, task, firstError, outcome>>
    BY <1>5 DEF TaskLoop, taskVars, historyVars
  <2>2. CASE step' = "prepare"
    BY <1>0, <2>1, <2>2
    DEF OutcomeInv, Ended, Over, NilMeansAllSucceeded, FailuresAreIsolated
  <2>3. CASE task > total /\ step' = "returned" /\ result' = firstError
    <3>1. 1..total = Ended
      BY <1>0, <2>1, <2>3 DEF Ended, TaskIndex
    <3> QED
      BY <1>0, <2>1, <2>3, <3>1, ReturnsJustly DEF OutcomeInv, Over
  <2>4. CASE task <= total /\ step' = "returned" /\ result' = "canceled"
    <3>1. task \in 1..total /\ outcome'[task] # "nil"
      BY <1>0, <2>1, <2>4 DEF OutcomeInv, Ended, Over, TaskIndex
    <3> QED
      BY <1>0, <2>1, <2>4, <3>1, ReturnsJustly DEF OutcomeInv, Over
  <2> QED
    BY <1>5, <2>2, <2>3, <2>4 DEF TaskLoop, ProcessReturns
<1>6. CASE Prepare
  <2>1. /\ step = "prepare" /\ step' \in {"notPrepared", "run", "dial"}
        /\ UNCHANGED <<total, task, firstError, outcome>>
    BY <1>6 DEF Prepare, NoRunnerOrNode, NetworkAny, NetworkNamed, taskVars, historyVars
  <2> QED
    BY <1>0, <2>1 DEF OutcomeInv, Ended, Over, NilMeansAllSucceeded, FailuresAreIsolated
<1>7. CASE PrepareFails
  <2>1. /\ step = "notPrepared" /\ task \in 1..total /\ err # "nil" /\ total' = total
        /\ outcome' = [outcome EXCEPT ![task] = err]
    BY <1>7, <1>0 DEF PrepareFails, ControlInv, TaskSteps
  <2>2. CASE IsContextError(err)
    <3>1. /\ result' \in {"canceled", "deadline"} /\ step' = "returned"
          /\ outcome'[task] # "nil"
      BY <1>0, <1>7, <2>1, <2>2
      DEF PrepareFails, PassedOver, ProcessReturns, IsContextError, TaskIndex
    <3> QED
      BY <1>0, <2>1, <3>1, ReturnsJustly DEF OutcomeInv, Over
  <2>3. CASE ~IsContextError(err)
    <3>1. /\ step' = "task" /\ task' = task + 1 /\ err = "failure"
          /\ firstError' = "failure"
      BY <1>0, <1>7, <2>1, <2>3
      DEF PrepareFails, PassedOver, NextTask, Keep, IsContextError, Errors
    <3> QED
      BY <1>0, <2>1, <3>1
      DEF OutcomeInv, Ended, Over, NilMeansAllSucceeded, FailuresAreIsolated, TaskIndex
  <2> QED
    BY <2>2, <2>3
<1>8. CASE Close
  <2>1. /\ step = "close" /\ step' = "log" /\ err' = err
        /\ UNCHANGED <<total, task, firstError>>
        /\ outcome' = [outcome EXCEPT ![task] = err]
    BY <1>8 DEF Close, taskVars
  <2> QED
    BY <1>0, <2>1
    DEF OutcomeInv, Ended, Over, NilMeansAllSucceeded, FailuresAreIsolated, TaskIndex
<1>9. CASE Log
  <2>1. /\ step = "log" /\ task \in 1..total /\ total' = total /\ outcome' = outcome
        /\ outcome[task] = err
    BY <1>9, <1>0 DEF Log, ControlInv, TaskSteps, OutcomeInv, Over, Ended, TaskIndex
  <2>2. CASE IsContextError(err)
    <3>1. /\ result' \in {"canceled", "deadline"} /\ step' = "returned"
          /\ outcome'[task] # "nil"
      BY <1>9, <2>1, <2>2 DEF Log, AfterExecution, ProcessReturns, IsContextError
    <3> QED
      BY <1>0, <2>1, <3>1, ReturnsJustly DEF OutcomeInv, Over
  <2>3. CASE ~IsContextError(err)
    <3>1. /\ err \in {"nil", "failure"}
          /\ firstError' = IF firstError = "nil" THEN err ELSE firstError
          /\ \/ step' = "task" /\ task' = task + 1
             \/ step' = "between" /\ task' = task
      BY <1>0, <1>9, <2>3
      DEF Log, AfterExecution, NextTask, Keep, IsContextError, Errors
    <3>2. Ended' = Ended \cup {task}
      BY <1>0, <2>1, <3>1 DEF Ended, TaskIndex
    <3>3. ~Over /\ ~Over' /\ step' # "log" /\ step' # "returned"
      BY <2>1, <3>1 DEF Over
    <3> QED
      BY <1>0, <2>1, <3>1, <3>2, <3>3
      DEF OutcomeInv, NilMeansAllSucceeded, FailuresAreIsolated
  <2> QED
    BY <2>2, <2>3
<1>10. CASE BetweenTasks \/ PauseEnds \/ PauseInterrupted
  <2>1. /\ step \in {"between", "pause"} /\ task < total
        /\ UNCHANGED <<total, firstError, outcome>>
    BY <1>10
    DEF BetweenTasks, PauseEnds, PauseInterrupted, taskVars, historyVars, ControlInv
  <2>2. \/ step' = "returned" /\ result' = "canceled" /\ task' = task
        \/ step' \in {"pause", "panicked"} /\ task' = task
        \/ step' = "task" /\ task' = task + 1
    BY <1>10
    DEF BetweenTasks, PauseEnds, PauseInterrupted, InterTaskDelay, GoesOn, NextTask,
        ProcessReturns
  <2>3. CASE step' = "returned" /\ result' = "canceled"
    <3>1. task + 1 \in 1..total /\ outcome'[task + 1] # "nil"
      BY <1>0, <2>1 DEF OutcomeInv, Ended, Over, TaskIndex
    <3> QED
      BY <1>0, <2>1, <2>3, <3>1, ReturnsJustly DEF OutcomeInv, Over
  <2>4. CASE step' # "returned"
    BY <1>0, <2>1, <2>2, <2>4
    DEF OutcomeInv, Ended, Over, NilMeansAllSucceeded, FailuresAreIsolated, TaskIndex
  <2> QED
    BY <2>2, <2>3, <2>4
<1> QED
  BY <1>1, <1>2, <1>3, <1>4, <1>5, <1>6, <1>7, <1>8, <1>9, <1>10, <1>11
  DEF Next, WalletStep, LoopStep

LEMMA OutcomeInvInitially == Init => OutcomeInv
BY ProcessorAssumption
DEF Init, OutcomeInv, Over, Ended, TaskIndex, NilMeansAllSucceeded, FailuresAreIsolated

(***************************************************************************)
(* Process returns nil exactly when every selected task was executed       *)
(* without an error.                                                       *)
(***************************************************************************)
THEOREM NilIsEarned == Spec => []NilMeansAllSucceeded
<1>1. OutcomeInv => NilMeansAllSucceeded
  BY DEF OutcomeInv
<1> QED
  BY <1>1, ControlInvInitially, ControlInvInductive, OutcomeInvInitially,
     OutcomeInvInductive, PTL DEF Spec

(***************************************************************************)
(* Unless it ends with a context error, every selected task was tried.     *)
(***************************************************************************)
THEOREM NoTaskLeftOut == Spec => []FailuresAreIsolated
<1>1. OutcomeInv => FailuresAreIsolated
  BY DEF OutcomeInv
<1> QED
  BY <1>1, ControlInvInitially, ControlInvInductive, OutcomeInvInitially,
     OutcomeInvInductive, PTL DEF Spec

(***************************************************************************)
(* A pause panics over bounds too far apart only.                          *)
(***************************************************************************)
LEMMA PausePanicsOnOverflow ==
    ASSUME delay \in Delays, NEW f \in DelayFields, DurationPanics(delay[f])
    PROVE  \E g \in DelayFields : Overflows(delay[g])
<1>1. delay[f].min \in MachineInt /\ delay[f].max \in MachineInt
  BY ExecutorAssumption
<1> QED
  BY <1>1, PanicsExactlyOnOverflow DEF DurationPanics, Overflows

(***************************************************************************)
(* Each panic of Process has one of three causes, all in the               *)
(* configuration: a task without the client it calls, bounds of a pause    *)
(* too far apart, or bounds that ask for too many tasks.                   *)
(***************************************************************************)
LEMMA PanicHasACauseInductive ==
    ControlInv /\ PanicHasACause /\ [Next]_vars => PanicHasACause'
<1> SUFFICES ASSUME ControlInv, PanicHasACause, [Next]_vars PROVE PanicHasACause'
  OBVIOUS
<1>0. delay \in Delays /\ step \in Steps
  BY DEF ControlInv, TypeOK, ExecTypeOK
<1> USE DEF PanicHasACause
<1>1. CASE delay' = delay /\ \E f \in DelayFields : DurationPanics(delay[f])
  BY <1>0, <1>1, PausePanicsOnOverflow
<1>2. CASE Run /\ delay' = delay
  <2>1. CASE NeedsClient(kind) /\ ~client
    BY <1>2, <2>1 DEF Run, clientVars
  <2>2. CASE ~(NeedsClient(kind) /\ ~client)
    <3>1. step = "run" /\ kind \in TaskKinds /\ step' = FirstStep
      BY <1>2, <2>2 DEF Run, ControlInv, TaskSteps, RunSteps
    <3>2. FirstStep # "panicked"
      BY <3>1, TasksAssumption DEF FirstStep
    <3> QED
      BY <3>1, <3>2
  <2> QED
    BY <2>1, <2>2
<1>3. CASE ExecutesTask /\ ~Run /\ ~\E f \in DelayFields : DurationPanics(delay[f])
  <2>1. step' # "panicked"
    <3>1. /\ ~DurationPanics(delay.betweenRetries)
          /\ ~DurationPanics(delay.afterError)
      BY <1>3 DEF DelayFields
    <3>2. CASE Attempt
      BY <3>1, <3>2 DEF Attempt, Succeeds, Retries, GivesUp, Pause, RetryPauseEnds,
                        RetryPauseInterrupted, ErrorPauseEnds
    <3>3. CASE Sleep \/ ClientStep
      BY <3>3 DEF Sleep, ClientStep, Dial, DialFails, ChainId, ChainIdFails, Call, Answer,
                  Poll, Receipt, ReceiptNotFound, PollPauseEnds, PollPauseInterrupted, Returns
    <3> QED
      BY <1>3, <3>2, <3>3 DEF ExecutesTask, ExecutorStep, TaskStep
  <2> QED
    BY <2>1
<1>8. CASE LoopStep /\ SelectPanics
  <2>1. /\ actions.min \in MachineInt /\ actions.max \in MachineInt
        /\ MaxTasks \in 0..(MaxInt - 1) /\ total = 0
    BY <1>8, ProcessorAssumption DEF ControlInv, TypeOK, SelectPanics
  <2>2. actions.min > MaxTasks \/ actions.max > MaxTasks
    BY <1>8, <2>1, TooManyAreAskedFor DEF SelectPanics
  <2>3. UNCHANGED <<actions, total>> /\ ~actions.explicit
    BY <1>8 DEF SelectPanics, LoopStep, taskVars
  <2> QED
    BY <2>1, <2>2, <2>3
<1>4. CASE LoopStep /\ ~SelectPanics /\ ~\E f \in DelayFields : DurationPanics(delay[f])
  <2>1. ~DurationPanics(delay.betweenActions)
    BY <1>4 DEF DelayFields
  <2>2. step' # "panicked"
    BY <1>4, <2>1
    DEF LoopStep, Select, TaskLoop, Prepare, PrepareFails, Close, Log, BetweenTasks,
        PauseEnds, PauseInterrupted, PassedOver, AfterExecution, InterTaskDelay, GoesOn,
        ProcessReturns, NoRunnerOrNode, NetworkAny, NetworkNamed
  <2> QED
    BY <2>2
<1>5. CASE Signal \/ CloseResources
  BY <1>5, ShutdownKeepsLoop
<1>6. CASE UNCHANGED vars
  BY <1>6 DEF vars, entryVars, clientVars, taskVars
<1>7. (ExecutesTask \/ LoopStep) => delay' = delay
  BY DEF ExecutesTask, ExecutorStep, LoopStep
<1> QED
  BY <1>1, <1>2, <1>3, <1>4, <1>5, <1>6, <1>7, <1>8 DEF Next, WalletStep

(***************************************************************************)
(* No value of the configuration but those makes Process panic.            *)
(***************************************************************************)
THEOREM PanicsAreConfigured == Spec => []PanicHasACause
<1>1. Init => PanicHasACause
  BY DEF Init, PanicHasACause
<1> QED
  BY <1>1, ControlInvInitially, ControlInvInductive, PanicHasACauseInductive, PTL DEF Spec

-----------------------------------------------------------------------------

(***************************************************************************)
(* What WalletTasks sees of a state: the verdict follows from the control  *)
(* point, and from the error once Process has returned.                    *)
(***************************************************************************)
Seen ==
    /\ step = "select" => Verdict = "selecting"
    /\ step = "panicked" => Verdict = "panicked"
    /\ step = "returned" /\ result = "nil" => Verdict = "completed"
    /\ step = "returned" /\ result = "failure" => Verdict = "failed"
    /\ step = "returned" /\ result \in {"canceled", "deadline"} => Verdict = "interrupted"
    /\ step \notin {"select", "panicked", "returned"} => Verdict = "working"

LEMMA VerdictIsSeen == Seen
<1>1. step = "select" => Verdict = "selecting"
  BY Zenon DEF Verdict, IsContextError
<1>2. step = "panicked" => Verdict = "panicked"
  BY Zenon DEF Verdict, IsContextError
<1>3. step = "returned" /\ result = "nil" => Verdict = "completed"
  BY Zenon DEF Verdict, IsContextError
<1>4. step = "returned" /\ result = "failure" => Verdict = "failed"
  BY Zenon DEF Verdict, IsContextError
<1>5. step = "returned" /\ result \in {"canceled", "deadline"} => Verdict = "interrupted"
  BY Zenon DEF Verdict, IsContextError
<1>6. step \notin {"select", "panicked", "returned"} => Verdict = "working"
  BY Zenon DEF Verdict, IsContextError
<1> QED
  BY <1>1, <1>2, <1>3, <1>4, <1>5, <1>6 DEF Seen

LEMMA VerdictIsSeenNext == Seen'
  BY VerdictIsSeen, PTL

(***************************************************************************)
(* When Process returns or panics, WalletTasks has nothing left of it.     *)
(***************************************************************************)
LEMMA NothingLeft ==
    ASSUME step' \in {"returned", "panicked"}, result' \in Errors, UNCHANGED cancelled
    PROVE  Wallet!Ends(Verdict')
<1>1. Verdict' # "working"
  BY VerdictIsSeenNext DEF Seen, Errors
<1>2. Left' = 0
  BY <1>1 DEF Left, Working
<1>3. Failed' = FALSE
  BY <1>1 DEF Failed, Working
<1>4. (step \in TaskSteps)' = FALSE
  BY DEF TaskSteps, RunSteps
<1> QED
  BY <1>2, <1>3, <1>4 DEF Wallet!Ends

(***************************************************************************)
(* A task that ends leaves as many as before, and its error is remembered. *)
(***************************************************************************)
LEMMA TaskEnds ==
    ASSUME ControlInv, OutcomeInv,
           step \in TaskSteps, err \in {"nil", "failure"}, outcome'[task] = err,
           \A t \in TaskIndex \ {task} : outcome'[t] = outcome[t],
           \/ step' = "task" /\ task' = task + 1
           \/ step' = "between" /\ task' = task,
           UNCHANGED <<total, cancelled>>
    PROVE  Wallet!End
<1>0. /\ MaxTasks \in Nat /\ total \in 0..MaxTasks /\ task \in 1..(MaxTasks + 1)
      /\ \A t \in TaskIndex : t \in Int
      /\ task \in TaskIndex
  BY ProcessorAssumption DEF ControlInv, TypeOK, TaskIndex
<1>1. Verdict = "working" /\ Verdict' = "working"
  BY VerdictIsSeen, VerdictIsSeenNext DEF Seen, TaskSteps, RunSteps
<1>2. Left' = Left
  BY <1>0, <1>1 DEF Left, Working, TaskSteps, RunSteps
<1>3. (step \in TaskSteps)' = FALSE
  BY DEF TaskSteps, RunSteps
<1>4. Ended' = Ended \cup {task} /\ task \notin Ended
  <2>1. step \notin {"between", "pause"}
    BY DEF TaskSteps, RunSteps
  <2>2. Ended = {t \in TaskIndex : t < task}
    BY <2>1 DEF Ended
  <2>3. Ended' = {t \in TaskIndex : t < task \/ t = task}
    BY <1>0 DEF Ended, TaskIndex
  <2> QED
    BY <1>0, <2>2, <2>3
<1>5. Failed => Failed'
  <2> SUFFICES ASSUME Failed PROVE Failed'
    OBVIOUS
  <2>1. PICK t \in Ended : outcome[t] # "nil"
    BY DEF Failed
  <2>2. t \in Ended' /\ outcome'[t] # "nil"
    BY <1>4, <2>1 DEF Ended
  <2> QED
    BY <1>1, <2>2 DEF Failed, Working
<1>6. Failed' \in {Failed, TRUE}
  BY <1>5 DEF Failed
<1> QED
  BY <1>1, <1>2, <1>3, <1>6 DEF Wallet!End

(***************************************************************************)
(* Every step of Process, and of the shutdown beside it, is one that       *)
(* WalletTasks allows, or none that it sees.                               *)
(***************************************************************************)
LEMMA ProcessStepsAreAllowed ==
    ASSUME ControlInv, ControlInv', OutcomeInv, [Next]_vars
    PROVE  [Wallet!Next]_(Wallet!taskState)
<1>0. /\ MaxTasks \in Nat /\ total \in 0..MaxTasks /\ task \in 1..(MaxTasks + 1)
      /\ task <= total + 1 /\ task \in Nat
      /\ firstError \in {"nil", "failure"} /\ result' \in Errors
      /\ err \in Errors
      /\ outcome \in [TaskIndex -> Errors \cup {"none"}]
      /\ \A t \in TaskIndex : t \in Int
  BY ProcessorAssumption DEF ControlInv, TypeOK, ClientTypeOK, TaskIndex
<1> DEFINE Stutters == /\ step \notin {"select", "panicked", "returned"}
                       /\ step' \notin {"select", "panicked", "returned"}
                       /\ Left' = Left /\ Ended' = Ended
                       /\ step' \in TaskSteps <=> step \in TaskSteps
                       /\ cancelled' = cancelled
                       /\ \A t \in Ended : outcome'[t] = outcome[t]
<1>s. Stutters => UNCHANGED Wallet!taskState
  <2> SUFFICES ASSUME Stutters PROVE UNCHANGED Wallet!taskState
    OBVIOUS
  <2>1. Verdict = "working" /\ Verdict' = "working"
    BY VerdictIsSeen, VerdictIsSeenNext DEF Seen
  <2>2. Failed' = Failed
    BY <2>1 DEF Failed, Working
  <2>3. (step \in TaskSteps)' = (step \in TaskSteps)
    OBVIOUS
  <2> QED
    BY <2>1, <2>2, <2>3 DEF Wallet!taskState
<1>w. step \notin {"select", "panicked", "returned"} => Verdict = "working"
  BY VerdictIsSeen DEF Seen
<1>i. ASSUME step' = "returned", result' \in {"canceled", "deadline"}, UNCHANGED cancelled,
             step \notin {"select", "panicked", "returned"},
             cancelled \/ step \in TaskSteps
      PROVE  Wallet!Interrupt
  BY <1>0, <1>i, <1>w, NothingLeft, VerdictIsSeenNext DEF Seen, Wallet!Interrupt
<1>p. ASSUME step' = "panicked", UNCHANGED cancelled,
             step \notin {"panicked", "returned"}
      PROVE  Wallet!Panic
  BY <1>0, <1>p, <1>w, NothingLeft, VerdictIsSeen, VerdictIsSeenNext DEF Seen, Wallet!Panic
<1> HIDE DEF Stutters
<1>1. CASE ExecutesTask
  <2>1. /\ step \in TaskSteps \ {"log", "prepare", "notPrepared"}
        /\ step' \in (TaskSteps \ {"log", "prepare"}) \cup {"panicked"}
        /\ UNCHANGED <<total, task, outcome>>
    BY <1>1, ExecutionStaysInTask
  <2>2. cancelled' = cancelled
    <3>1. CASE ClientStep
      BY <3>1 DEF ClientStep, Dial, DialFails, ChainId, ChainIdFails, Call, Answer, Poll,
                  Receipt, ReceiptNotFound, PollPauseEnds, PollPauseInterrupted
    <3> QED
      BY <1>1, <3>1 DEF ExecutesTask, ExecutorStep, TaskStep, Run, Sleep
  <2>3. CASE step' = "panicked"
    BY <1>p, <2>1, <2>2, <2>3 DEF Wallet!Next, TaskSteps, RunSteps
  <2>4. CASE step' # "panicked"
    <3>1. Stutters
      BY <1>0, <2>1, <2>2, <2>4, VerdictIsSeen, VerdictIsSeenNext
      DEF Stutters, Seen, TaskSteps, RunSteps, Left, Working, Ended
    <3> QED
      BY <1>s, <3>1
  <2> QED
    BY <2>3, <2>4
<1>2. CASE Signal
  <2>1. UNCHANGED <<step, total, task, result, outcome>> /\ cancelled' = TRUE
    BY <1>2 DEF Signal, taskVars, historyVars
  <2>2. UNCHANGED <<Verdict, Left, Failed, step \in TaskSteps>>
    <3>1. Verdict' = Verdict
      BY <2>1, Zenon DEF Verdict
    <3> QED
      BY <2>1, <3>1 DEF Left, Failed, Working, Ended
  <2> QED
    BY <2>1, <2>2 DEF Wallet!Next, Wallet!Cancel
<1>3. CASE CloseResources \/ UNCHANGED vars
  <2>1. UNCHANGED <<step, total, task, result, outcome, cancelled>>
    BY <1>3 DEF CloseResources, vars, taskVars, historyVars
  <2>2. Verdict' = Verdict
    BY <2>1, Zenon DEF Verdict
  <2> QED
    BY <2>1, <2>2 DEF Wallet!taskState, Left, Failed, Working, Ended
<1>4. CASE Select
  <2>1. /\ step = "select" /\ task = 1 /\ UNCHANGED <<task, cancelled, outcome>>
        /\ total' \in 0..MaxTasks
        /\ \/ total' = 0 /\ step' = "returned" /\ result' = "nil"
           \/ total' # 0 /\ step' = "task"
    BY <1>0, <1>4 DEF Select, ProcessReturns, taskVars, historyVars, ControlInv
  <2>2. Verdict = "selecting" /\ ~Working /\ ~Failed /\ ~(step \in TaskSteps)
    BY <2>1, VerdictIsSeen DEF Seen, Working, Failed, TaskSteps, RunSteps
  <2>3. CASE step' = "returned" /\ result' = "nil"
    <3>1. Verdict' = "completed"
      BY <2>3, VerdictIsSeenNext DEF Seen
    <3> QED
      BY <2>1, <2>2, <2>3, <3>1, NothingLeft DEF Errors, Wallet!Select, Wallet!Next
  <2>4. CASE total' # 0 /\ step' = "task"
    <3>1. Verdict' = "working"
      BY <2>4, VerdictIsSeenNext DEF Seen
    <3>2. Left' = total' /\ total' \in 1..MaxTasks
      <4>1. PICK n \in 0..MaxTasks : total' = n
        BY <2>1
      <4>2. Left' = n - 1 + 1
        BY <2>1, <2>4, <3>1, <4>1 DEF Left, Working
      <4>3. n \in 1..MaxTasks /\ n - 1 + 1 = n
        BY <1>0, <2>4, <4>1
      <4> QED
        BY <4>1, <4>2, <4>3
    <3>3. ~Failed'
      BY <1>0, <2>1, <2>4 DEF Failed, Ended, TaskIndex
    <3>4. ~(step' \in TaskSteps)
      BY <2>4 DEF TaskSteps, RunSteps
    <3>5. Failed' = Failed /\ (step \in TaskSteps)' = (step \in TaskSteps)
      BY <2>2, <3>3, <3>4 DEF Failed
    <3> QED
      BY <2>1, <2>2, <3>1, <3>2, <3>5 DEF Wallet!Select, Wallet!Next
  <2> QED
    BY <2>1, <2>3, <2>4
<1>11. CASE SelectPanics
  BY <1>p, <1>11 DEF SelectPanics, Wallet!Next
<1>5. CASE TaskLoop
  <2>1. step = "task" /\ UNCHANGED <<total, task, outcome, cancelled>> /\ Verdict = "working"
    BY <1>5, <1>w DEF TaskLoop, taskVars, historyVars
  <2>2. ~(step \in TaskSteps) /\ ~Over /\ Ended = {t \in TaskIndex : t < task}
        /\ Left = total - task + 1
    BY <1>0, <2>1 DEF TaskSteps, RunSteps, Over, Ended, Left, Working
  <2>3. CASE task > total /\ step' = "returned" /\ result' = firstError
    <3>1. Left = 0
      BY <1>0, <2>2, <2>3
    <3>2. firstError = "nil" <=> ~Failed
      BY <2>1, <2>2 DEF OutcomeInv, Failed, Working
    <3>3. Wallet!Ends(Verdict') /\ (Verdict' = IF Failed THEN "failed" ELSE "completed")
      BY <1>0, <2>1, <2>3, <3>2, NothingLeft, VerdictIsSeenNext DEF Seen
    <3>4. CASE Failed
      BY <2>1, <2>2, <3>1, <3>3, <3>4 DEF Wallet!Fail, Wallet!AllOver, Wallet!Next
    <3>5. CASE ~Failed
      BY <2>1, <2>2, <3>1, <3>3, <3>5 DEF Wallet!Complete, Wallet!AllOver, Wallet!Next
    <3> QED
      BY <3>4, <3>5
  <2>4. CASE task <= total /\ cancelled /\ step' = "returned" /\ result' = "canceled"
    BY <1>i, <2>1, <2>4 DEF Wallet!Next
  <2>5. CASE task <= total /\ ~cancelled /\ step' = "prepare"
    <3>1. Verdict' = "working"
      BY <2>5, VerdictIsSeenNext DEF Seen
    <3>2. Left > 0 /\ Left' = Left - 1
      BY <1>0, <2>1, <2>2, <2>5, <3>1 DEF Left, Working
    <3>3. (step \in TaskSteps)' = TRUE
      BY <2>5 DEF TaskSteps
    <3>4. Failed' = Failed
      <4>1. Ended' = Ended
        BY <2>1, <2>5 DEF Ended
      <4>2. Failed' <=> \E t \in Ended : outcome[t] # "nil"
        BY <2>1, <3>1, <4>1 DEF Failed, Working
      <4>3. Failed <=> \E t \in Ended : outcome[t] # "nil"
        BY <2>1 DEF Failed, Working
      <4> QED
        BY <4>2, <4>3 DEF Failed
    <3> QED
      BY <2>1, <2>2, <2>5, <3>1, <3>2, <3>3, <3>4 DEF Wallet!Begin, Wallet!Next
  <2> QED
    BY <1>5, <2>3, <2>4, <2>5 DEF TaskLoop, ProcessReturns, MayBegin
<1>6. CASE Prepare
  <2>1. /\ step = "prepare" /\ step' \in {"notPrepared", "run", "dial"}
        /\ UNCHANGED <<total, task, outcome, cancelled>>
    BY <1>6 DEF Prepare, NoRunnerOrNode, NetworkAny, NetworkNamed, taskVars, historyVars
  <2>2. Stutters
    BY <1>0, <2>1, VerdictIsSeen, VerdictIsSeenNext
    DEF Stutters, Seen, TaskSteps, RunSteps, Left, Working, Ended
  <2> QED
    BY <1>s, <2>2
<1>7. CASE PrepareFails
  <2>1. /\ step = "notPrepared" /\ step \in TaskSteps /\ UNCHANGED <<total, cancelled>>
        /\ outcome' = [outcome EXCEPT ![task] = err]
        /\ task \in TaskIndex
    BY <1>0, <1>7 DEF PrepareFails, ControlInv, TaskSteps, TaskIndex
  <2>2. CASE IsContextError(err)
    <3>1. step' = "returned" /\ result' \in {"canceled", "deadline"}
      BY <1>7, <2>2 DEF PrepareFails, PassedOver, ProcessReturns, IsContextError
    <3> QED
      BY <1>i, <2>1, <3>1 DEF Wallet!Next
  <2>3. CASE ~IsContextError(err)
    <3>1. step' = "task" /\ task' = task + 1 /\ err \in {"nil", "failure"}
      BY <1>0, <1>7, <2>3 DEF PrepareFails, PassedOver, NextTask, IsContextError, Errors
    <3>2. outcome'[task] = err /\ \A t \in TaskIndex \ {task} : outcome'[t] = outcome[t]
      BY <1>0, <2>1
    <3> QED
      BY <2>1, <3>1, <3>2, TaskEnds DEF Wallet!Next
  <2> QED
    BY <2>2, <2>3
<1>8. CASE Close
  <2>1. /\ step = "close" /\ step' = "log" /\ UNCHANGED <<total, task, cancelled>>
        /\ outcome' = [outcome EXCEPT ![task] = err]
    BY <1>8 DEF Close, taskVars
  <2>2. task \notin Ended
    BY <1>0, <2>1 DEF Ended
  <2>3. \A t \in Ended : outcome'[t] = outcome[t]
    BY <1>0, <2>1, <2>2 DEF Ended
  <2>4. Stutters
    BY <1>0, <2>1, <2>3, VerdictIsSeen, VerdictIsSeenNext
    DEF Stutters, Seen, TaskSteps, RunSteps, Left, Working, Ended
  <2> QED
    BY <1>s, <2>4
<1>9. CASE Log
  <2>1. /\ step = "log" /\ step \in TaskSteps /\ UNCHANGED <<total, outcome, cancelled>>
        /\ task \in TaskIndex
    BY <1>0, <1>9 DEF Log, ControlInv, TaskSteps, TaskIndex
  <2>2. CASE IsContextError(err)
    <3>1. step' = "returned" /\ result' \in {"canceled", "deadline"}
      BY <1>9, <2>2 DEF Log, AfterExecution, ProcessReturns, IsContextError
    <3> QED
      BY <1>i, <2>1, <3>1 DEF Wallet!Next
  <2>3. CASE ~IsContextError(err)
    <3>1. /\ err \in {"nil", "failure"}
          /\ \/ step' = "task" /\ task' = task + 1
             \/ step' = "between" /\ task' = task
      BY <1>0, <1>9, <2>3 DEF Log, AfterExecution, NextTask, IsContextError, Errors
    <3>2. outcome[task] = err
      BY <1>0, <2>1 DEF OutcomeInv, Over, Ended
    <3> QED
      BY <2>1, <3>1, <3>2, TaskEnds DEF Wallet!Next
  <2> QED
    BY <2>2, <2>3
<1>10. CASE BetweenTasks \/ PauseEnds \/ PauseInterrupted
  <2>1. step \in {"between", "pause"} /\ UNCHANGED <<total, outcome, cancelled>>
    BY <1>10 DEF BetweenTasks, PauseEnds, PauseInterrupted, historyVars
  <2>2. \/ step' = "returned" /\ result' = "canceled" /\ cancelled
        \/ step' = "panicked"
        \/ step' = "pause" /\ task' = task
        \/ step' = "task" /\ task' = task + 1
    BY <1>10
    DEF BetweenTasks, PauseEnds, PauseInterrupted, InterTaskDelay, GoesOn, NextTask,
        ProcessReturns
  <2>3. CASE step' = "returned" /\ result' = "canceled" /\ cancelled
    BY <1>i, <2>1, <2>3 DEF Wallet!Next
  <2>4. CASE step' = "panicked"
    BY <1>p, <2>1, <2>4 DEF Wallet!Next
  <2>5. CASE \/ step' = "pause" /\ task' = task
             \/ step' = "task" /\ task' = task + 1
    <3>1. Verdict = "working" /\ Verdict' = "working"
      BY <2>1, <2>5, VerdictIsSeen, VerdictIsSeenNext DEF Seen
    <3>2. Left' = Left
      BY <1>0, <2>1, <2>5, <3>1 DEF Left, Working
    <3>3. Ended = {t \in TaskIndex : t <= task} /\ Ended' = {t \in TaskIndex : t <= task}
      BY <1>0, <2>1, <2>5 DEF Ended, TaskIndex
    <3>4. Stutters
      BY <2>1, <2>5, <3>2, <3>3 DEF Stutters, TaskSteps, RunSteps
    <3> QED
      BY <1>s, <3>4
  <2> QED
    BY <2>2, <2>3, <2>4, <2>5
<1> QED
  BY <1>1, <1>2, <1>3, <1>4, <1>5, <1>6, <1>7, <1>8, <1>9, <1>10, <1>11
  DEF Next, WalletStep, LoopStep

(***************************************************************************)
(* Process keeps the promise of WalletTasks, for every number of tasks.    *)
(***************************************************************************)
THEOREM ProcessKeepsItsPromise == Spec => ImplementsWalletTasks
<1>1. Init => Wallet!Init
  <2> SUFFICES ASSUME Init PROVE Wallet!Init
    OBVIOUS
  <2>1. step = "select" /\ cancelled = FALSE
    BY DEF Init
  <2>2. Verdict = "selecting"
    BY <2>1, VerdictIsSeen DEF Seen
  <2>3. Left = 0 /\ Failed = FALSE /\ (step \in TaskSteps) = FALSE
    BY <2>1, <2>2 DEF Left, Failed, Working, TaskSteps, RunSteps
  <2> QED
    BY <2>1, <2>2, <2>3 DEF Wallet!Init
<1>2. ControlInv /\ ControlInv' /\ OutcomeInv /\ [Next]_vars => [Wallet!Next]_(Wallet!taskState)
  BY ProcessStepsAreAllowed
<1> QED
  BY <1>1, <1>2, ControlInvInitially, ControlInvInductive, OutcomeInvInitially,
     OutcomeInvInductive, PTL DEF Spec, ImplementsWalletTasks, Wallet!Spec

(***************************************************************************)
(* Where the errors of the context's kind come from: context.Canceled from *)
(* a context that is done, and a deadline from a node that is silent or    *)
(* from the call of log_balance, which has thirty seconds.                 *)
(***************************************************************************)
NoDeadlines == "silent" \notin Nodes /\ "log_balance" \notin TaskKinds

CanceledIsTrue == err = "canceled" \/ result = "canceled" => cancelled

NoneExpires ==
    NoDeadlines => err # "deadline" /\ result # "deadline" /\ step \notin {"call", "answer"}

InterruptInv == CanceledIsTrue /\ NoneExpires

(***************************************************************************)
(* Every step keeps it: neither a call of the client nor the loop invents  *)
(* an error of the context.                                                *)
(***************************************************************************)
LEMMA ClientKeepsInterruptInv ==
    ASSUME ControlInv, InterruptInv, ClientStep, UNCHANGED result
    PROVE  InterruptInv'
<1> USE DEF InterruptInv, CanceledIsTrue, NoneExpires
<1>1. CASE Dial \/ ChainId \/ ReceiptNotFound \/ PollPauseEnds
  BY <1>1 DEF Dial, ChainId, ReceiptNotFound, PollPauseEnds, clientVars
<1>2. CASE DialFails
  BY <1>2 DEF DialFails, Canceled, clientVars
<1>3. CASE ChainIdFails
  <2>1. /\ ChainIdError("live") = {} /\ ChainIdError("silent") = {"deadline"}
        /\ ChainIdError("dead") = {"failure"}
    BY ZenonT(30) DEF ChainIdError
  <2>2. node \in Nodes /\ node \in {"live", "silent", "dead"}
    BY <1>3, ClientAssumption DEF ChainIdFails, ControlInv
  <2>3. PICK n \in Nodes : node = n
    BY <2>2
  <2>4. err' \in Canceled \cup ChainIdError(n)
    BY <1>3, <2>3 DEF ChainIdFails
  <2>5. err' \in Canceled \/ (err' = "deadline" /\ "silent" \in Nodes) \/ err' = "failure"
    BY <2>1, <2>2, <2>3, <2>4
  <2>6. step' = "notPrepared" /\ UNCHANGED cancelled
    BY <1>3 DEF ChainIdFails
  <2> QED
    BY <2>5, <2>6 DEF Canceled, NoDeadlines
<1>4. CASE Call \/ Answer \/ Poll \/ Receipt \/ PollPauseInterrupted
  BY <1>4
  DEF Call, Answer, Poll, Receipt, PollPauseInterrupted, Returns, MayRequest, Canceled,
      clientVars
<1> QED
  BY <1>1, <1>2, <1>3, <1>4 DEF ClientStep

LEMMA InterruptInvInductive == ControlInv /\ InterruptInv /\ [Next]_vars => InterruptInv'
<1> SUFFICES ASSUME ControlInv, InterruptInv, [Next]_vars PROVE InterruptInv'
  OBVIOUS
<1>1. CASE ExecutesTask
  <2>0. UNCHANGED result
    BY <1>1, ExecutionStaysInTask
  <2>1. CASE Attempt /\ UNCHANGED <<clientVars, err, cancelled, kind>>
    <3>1. step' \notin {"call", "answer"}
      BY <2>1
      DEF Attempt, Succeeds, Retries, GivesUp, Pause, RetryPauseEnds, RetryPauseInterrupted,
          ErrorPauseEnds
    <3> QED
      BY <2>0, <2>1, <3>1 DEF InterruptInv, CanceledIsTrue, NoneExpires
  <2>2. CASE Run
    <3>1. kind \in TaskKinds /\ UNCHANGED <<err, cancelled>>
      BY <2>2 DEF Run, ControlInv, TaskSteps, RunSteps
    <3>2. /\ kind = "dummy_task" => FirstStep = "sleep"
          /\ kind = "log_balance" => FirstStep = "call"
          /\ kind = "receipt" => FirstStep = "poll"
      BY ZenonT(30) DEF FirstStep
    <3>3. step' \in {"call", "answer"} => kind = "log_balance"
      BY <2>2, <3>1, <3>2, TasksAssumption DEF Run
    <3> QED
      BY <2>0, <3>1, <3>3 DEF InterruptInv, CanceledIsTrue, NoneExpires, NoDeadlines
  <2>3. CASE Sleep
    BY <2>0, <2>3 DEF Sleep, Returns, InterruptInv, CanceledIsTrue, NoneExpires
  <2>4. CASE ClientStep
    BY <2>0, <2>4, ClientKeepsInterruptInv
  <2> QED
    BY <1>1, <2>1, <2>2, <2>3, <2>4 DEF ExecutesTask, ExecutorStep, TaskStep
<1>2. CASE LoopStep
  <2>1. UNCHANGED cancelled
    BY <1>2
    DEF LoopStep, Select, SelectPanics, TaskLoop, Prepare, PrepareFails, Close, Log,
        BetweenTasks, PauseEnds, PauseInterrupted
  <2>2. err' \in {err, "failure", "nil"}
    BY <1>2
    DEF LoopStep, Select, SelectPanics, TaskLoop, Prepare, NoRunnerOrNode, NetworkAny, NetworkNamed,
        PrepareFails, Close, Log, TaskOver, BetweenTasks, PauseEnds, PauseInterrupted, entryVars
  <2>3. step' \notin {"call", "answer"}
    BY <1>2
    DEF LoopStep, Select, SelectPanics, TaskLoop, Prepare, NoRunnerOrNode, NetworkAny, NetworkNamed,
        PrepareFails, PassedOver, Close, Log, AfterExecution, BetweenTasks, InterTaskDelay,
        GoesOn, PauseEnds, PauseInterrupted, ProcessReturns
  <2>4. \/ result' \in {result, err, "nil", "failure"}
        \/ result' = "canceled" /\ cancelled
    BY <1>2
    DEF LoopStep, Select, SelectPanics, TaskLoop, MayBegin, Prepare, PrepareFails, PassedOver,
        Close, Log, AfterExecution, BetweenTasks, InterTaskDelay, GoesOn, PauseEnds, PauseInterrupted,
        ProcessReturns, taskVars, ControlInv, TypeOK
  <2> QED
    BY <2>1, <2>2, <2>3, <2>4 DEF InterruptInv, CanceledIsTrue, NoneExpires
<1>3. CASE Signal \/ CloseResources \/ UNCHANGED vars
  <2>1. UNCHANGED <<step, err, result>> /\ (cancelled => cancelled')
    BY <1>3 DEF Signal, CloseResources, vars, entryVars, taskVars
  <2> QED
    BY <2>1 DEF InterruptInv, CanceledIsTrue, NoneExpires
<1> QED
  BY <1>1, <1>2, <1>3 DEF Next, WalletStep

(***************************************************************************)
(* Where no call has a deadline to miss, Process reports the cancellation  *)
(* of a context only when the context is done: the wording of processor.go *)
(* is off by the deadlines of single calls and by nothing else.            *)
(***************************************************************************)
THEOREM OnlyDeadlinesMislead == ASSUME NoDeadlines PROVE Spec => []InterruptedMeansCancelled
<1>1. Init => InterruptInv
  BY DEF Init, InterruptInv, CanceledIsTrue, NoneExpires
<1>2. InterruptInv => InterruptedMeansCancelled
  BY DEF InterruptInv, CanceledIsTrue, NoneExpires, InterruptedMeansCancelled, IsContextError
<1> QED
  BY <1>1, <1>2, InterruptInvInductive, ControlInvInitially, ControlInvInductive, PTL DEF Spec

(***************************************************************************)
(* Where every URL is live and each task has a constructor and a network,  *)
(* preparing one fails only under a done context.                          *)
(***************************************************************************)
Serviceable == Nodes = {"live"} /\ ~Misconfigured

ServedInv == LiveNodeServes /\ (step = "notPrepared" => cancelled)

LEMMA ServedInvInductive ==
    ASSUME Serviceable
    PROVE  ControlInv /\ ServedInv /\ [Next]_vars => ServedInv'
<1> SUFFICES ASSUME ControlInv, ServedInv, [Next]_vars PROVE ServedInv'
  OBVIOUS
<1>0. /\ cancelled => cancelled'
      /\ ran \in Seq(TaskIndex \X Status) /\ outcome \in [TaskIndex -> Errors \cup {"none"}]
  <2>1. cancelled => cancelled'
    BY DEF Next, WalletStep, ExecutesTask, ExecutorStep, TaskStep, Run, Sleep, ClientStep, Dial,
           DialFails, ChainId, ChainIdFails, Call, Answer, Poll, Receipt, ReceiptNotFound,
           PollPauseEnds, PollPauseInterrupted, LoopStep, Select, SelectPanics, TaskLoop, Prepare,
           PrepareFails, Close, Log, BetweenTasks, PauseEnds, PauseInterrupted, Signal,
           CloseResources, vars
  <2> QED
    BY <2>1 DEF ControlInv, TypeOK
<1>1. CASE ExecutesTask
  <2>1. UNCHANGED <<ran, outcome>>
    BY <1>1, ExecutionStaysInTask
  <2>2. step' = "notPrepared" => cancelled'
    <3>1. CASE DialFails
      BY <3>1 DEF DialFails, Canceled, Serviceable
    <3>2. CASE ChainIdFails
      <4>1. node = "live"
        BY <3>2 DEF ChainIdFails, ControlInv, Serviceable
      <4>2. ChainIdError("live") = {}
        BY ZenonT(30) DEF ChainIdError
      <4>3. err' \in Canceled /\ UNCHANGED cancelled
        BY <3>2, <4>1, <4>2 DEF ChainIdFails
      <4> QED
        BY <4>3 DEF Canceled
    <3>3. CASE Run
      BY <3>3, TasksAssumption DEF Run, FirstStep, ControlInv, TaskSteps, RunSteps
    <3>4. CASE Attempt
      BY <3>4
      DEF Attempt, Succeeds, Retries, GivesUp, Pause, RetryPauseEnds, RetryPauseInterrupted,
          ErrorPauseEnds
    <3>5. CASE \/ Sleep \/ Dial \/ ChainId \/ Call \/ Answer \/ Poll \/ Receipt \/ ReceiptNotFound
               \/ PollPauseEnds \/ PollPauseInterrupted
      BY <3>5
      DEF Sleep, Dial, ChainId, Call, Answer, Poll, Receipt, ReceiptNotFound, PollPauseEnds,
          PollPauseInterrupted, Returns
    <3> QED
      BY <1>1, <3>1, <3>2, <3>3, <3>4, <3>5 DEF ExecutesTask, ExecutorStep, TaskStep, ClientStep
  <2> QED
    BY <1>0, <2>1, <2>2 DEF ServedInv, LiveNodeServes, WasPassedOver
<1>2. CASE PrepareFails
  <2>1. cancelled'
    BY <1>0, <1>2 DEF PrepareFails, ServedInv
  <2> QED
    BY <2>1 DEF ServedInv, LiveNodeServes
<1>3. CASE Close
  <2>1. step' # "notPrepared" /\ ran' = Append(ran, <<task, StatusOf(err)>>) /\ task \in TaskIndex
    BY <1>3, ProcessorAssumption
    DEF Close, ControlInv, TypeOK, TaskSteps, RunSteps, TaskIndex
  <2>2. outcome' = [outcome EXCEPT ![task] = err]
    BY <1>3 DEF Close
  <2>3. PICK now \in TaskIndex : task = now
    BY <2>1
  <2>4. <<now, StatusOf(err)>> \in TaskIndex \X Status
    BY DEF StatusOf, Status
  <2>5. /\ Len(ran') = Len(ran) + 1 /\ Len(ran) \in Nat
        /\ ran'[Len(ran) + 1] = <<now, StatusOf(err)>>
        /\ \A i \in 1..Len(ran) : ran'[i] = ran[i]
    BY <1>0, <2>1, <2>3, <2>4
  <2>6. ~WasPassedOver(now)'
    BY <2>5 DEF WasPassedOver
  <2>7. ASSUME NEW t \in TaskIndex, t # now, WasPassedOver(t)' PROVE WasPassedOver(t)
    <3>1. outcome'[t] = outcome[t]
      BY <1>0, <2>2, <2>3, <2>7
    <3>2. ASSUME NEW i \in 1..Len(ran) PROVE ran[i][1] # t
      <4>1. i \in 1..Len(ran') /\ ran'[i] = ran[i]
        BY <2>5, <3>2
      <4> QED
        BY <2>7, <4>1 DEF WasPassedOver
    <3> QED
      BY <2>7, <3>1, <3>2 DEF WasPassedOver
  <2> QED
    BY <1>0, <2>1, <2>6, <2>7 DEF ServedInv, LiveNodeServes
<1>4. CASE \/ Select \/ SelectPanics \/ TaskLoop \/ Prepare \/ Log
           \/ BetweenTasks \/ PauseEnds \/ PauseInterrupted
  <2>1. UNCHANGED <<ran, outcome>>
    BY <1>4
    DEF Select, SelectPanics, TaskLoop, Prepare, Log, BetweenTasks, PauseEnds,
        PauseInterrupted, historyVars
  <2>2. step' # "notPrepared"
    BY <1>4
    DEF Select, SelectPanics, TaskLoop, Prepare, NoRunnerOrNode, NetworkAny, NetworkNamed, Log,
        AfterExecution, BetweenTasks, InterTaskDelay, GoesOn, PauseEnds, PauseInterrupted, ProcessReturns,
        Serviceable
  <2> QED
    BY <1>0, <2>1, <2>2 DEF ServedInv, LiveNodeServes, WasPassedOver
<1>5. CASE Signal \/ CloseResources \/ UNCHANGED vars
  <2>1. UNCHANGED <<step, ran, outcome>>
    BY <1>5 DEF Signal, CloseResources, vars, historyVars
  <2> QED
    BY <1>0, <2>1 DEF ServedInv, LiveNodeServes, WasPassedOver
<1> QED
  BY <1>1, <1>2, <1>3, <1>4, <1>5 DEF Next, WalletStep, LoopStep

(***************************************************************************)
(* Then no task is passed over before a cancellation: what LiveNodeServes  *)
(* asks of a network with one live URL, the code gives when all are live.  *)
(***************************************************************************)
THEOREM AllLiveServe == ASSUME Serviceable PROVE Spec => []LiveNodeServes
<1>1. Init => ServedInv
  BY DEF Init, ServedInv, LiveNodeServes, WasPassedOver
<1>2. ServedInv => LiveNodeServes
  BY DEF ServedInv
<1> QED
  BY <1>1, <1>2, ServedInvInductive, ControlInvInitially, ControlInvInductive, PTL DEF Spec
=============================================================================
