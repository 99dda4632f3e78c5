----------------------------- MODULE ParallelRun -----------------------------
(***************************************************************************)
(* The program with max_parallel_wallets > 1 (app_parallel.go): the main   *)
(* goroutine launches one worker goroutine per wallet as slots come free,  *)
(* the results handler counts the workers' results and starts a goroutine  *)
(* of its own for every checkpoint it wants written.  All of them share    *)
(* the context, the store, the slot and result channels and the WaitGroup; *)
(* over several starts of the program.                                     *)
(***************************************************************************)
EXTENDS Application, Sequences

ASSUME ParallelAssumption == ~Sequential

VARIABLES
    worker,     \* position -> where its goroutine is
    failed,     \* positions whose processErr is not nil
    panicking,  \* positions whose goroutine unwinds from a panic
    slots,      \* tokens in the semaphore channel
    results,    \* resultsChan: the buffered <<position, failed>> records
    handler,    \* where handleParallelResults is
    processed,  \* its processedCount
    highest,    \* its highestCompletedIndex
    saves,      \* indices whose SetState goroutine has not run yet
    wg          \* the WaitGroup's counter

poolVars == <<worker, failed, panicking, slots, results>>
handlerVars == <<handler, processed, highest, saves>>
vars == <<appVars, poolVars, handlerVars, wg>>

WorkerStates == {"idle", "start", "process", "pause", "send", "release",
                 "leave", "gone", "unwound"}

HandlerStates == {"off", "load", "receive", "gone"}

TotalKeys == NumKeys - first                           \* len(keysToProcess)

Smaller(m, n) == IF m < n THEN m ELSE n

\* A bug: a worker more than there is room for.
OneWorkerMore == Smaller(MaxParallelWallets, TotalKeys) + 1

NumWorkers == Smaller(MaxParallelWallets, TotalKeys)

\* A bug: a channel that does not hold every worker's result.
RoomForOneResult == 1

ResultsCapacity == TotalKeys

Result == [pos : Index, err : BOOLEAN]

TypeOK ==
    /\ AppTypeOK
    /\ worker \in [Index -> WorkerStates]
    /\ failed \in SUBSET Index
    /\ panicking \in SUBSET Index
    /\ slots \in 0..MaxParallelWallets
    /\ results \in Seq(Result)
    /\ handler \in HandlerStates
    /\ processed \in 0..NumKeys
    /\ highest \in Index \cup {NoIndex}
    /\ saves \in SUBSET Index
    /\ wg \in 0..(NumKeys + 1)

PoolInit ==
    /\ worker = [p \in Index |-> "idle"]
    /\ failed = {}
    /\ panicking = {}
    /\ slots = 0
    /\ results = <<>>
    /\ handler = "off"
    /\ processed = 0
    /\ highest = NoIndex
    /\ saves = {}
    /\ wg = 0

Init == AppInit /\ PoolInit

-----------------------------------------------------------------------------
(***************************************************************************)
(* The main goroutine.                                                     *)
(***************************************************************************)

MainMoves(from, to) ==
    /\ main = from
    /\ main' = to
    /\ UNCHANGED <<session, wallets, first, cancelled, shutdown, completed,
                   storageVars>>

(***************************************************************************)
(* runProcessing and the head of runParallel: the semaphore is filled, the *)
(* results channel made and the handler started.                           *)
(***************************************************************************)
StartParallel ==
    /\ MainMoves("run", "loop")
    /\ slots' = NumWorkers
    /\ handler' = "load"
    /\ wg' = wg + 1
    /\ UNCHANGED <<next, worker, failed, panicking, results, processed,
                   highest, saves>>

(***************************************************************************)
(* The head of the launch loop: the list is exhausted, the context is done *)
(* or the loop goes on to wait for a slot.                                 *)
(***************************************************************************)
LaunchLoop ==
    /\ MainMoves("loop", IF next = NumKeys \/ cancelled THEN "wait" ELSE "slot")
    /\ UNCHANGED <<next, poolVars, handlerVars, wg>>

(***************************************************************************)
(* select takes either branch when a slot is free and the context is done. *)
(***************************************************************************)
SlotFree == slots > 0

AcquireSlot ==
    /\ SlotFree
    /\ MainMoves("slot", "loop")
    /\ slots' = slots - 1
    /\ worker' = [worker EXCEPT ![next] = "start"]
    /\ next' = next + 1
    /\ wg' = wg + 1
    /\ UNCHANGED <<failed, panicking, results, handlerVars>>

AbandonSlot ==
    /\ cancelled
    /\ MainMoves("slot", "wait")
    /\ UNCHANGED <<next, poolVars, handlerVars, wg>>

(***************************************************************************)
(* wg.Wait in main: nothing but the WaitGroup is waited for.               *)
(***************************************************************************)
\* A bug: main does not wait when the context is done.
DoneOrCancelled == wg = 0 \/ cancelled

AllDone == wg = 0

Exit ==
    /\ AllDone
    /\ MainMoves("wait", "exited")
    /\ UNCHANGED <<next, poolVars, handlerVars, wg>>

MainStep ==
    \/ Prepare /\ UNCHANGED <<poolVars, handlerVars, wg>>
    \/ StartParallel \/ LaunchLoop \/ AcquireSlot \/ AbandonSlot \/ Exit

-----------------------------------------------------------------------------
(***************************************************************************)
(* processWalletWorker.                                                    *)
(***************************************************************************)

WorkerMoves(p, from, to) ==
    /\ Alive
    /\ worker[p] = from
    /\ worker' = [worker EXCEPT ![p] = to]

(***************************************************************************)
(* The check of the context before the wallet is touched: a done context   *)
(* becomes the worker's result.                                            *)
(***************************************************************************)
\* A bug: the context is not looked at.
NeverSkips == FALSE

SkipsWallet == cancelled

WorkerStart(p) ==
    /\ WorkerMoves(p, "start", IF SkipsWallet THEN "send" ELSE "process")
    /\ failed' = IF SkipsWallet THEN failed \cup {p} ELSE failed
    /\ UNCHANGED <<appVars, panicking, slots, results, handlerVars, wg>>

(***************************************************************************)
(* Process may succeed or fail whether or not the context is done: it also *)
(* fails on a task's own error, and succeeds on a wallet for which no task *)
(* is selected.                                                            *)
(***************************************************************************)
ProcessOk(p) ==
    /\ WorkerMoves(p, "process", "pause")
    /\ completed' = completed \cup {Address(p)}
    /\ UNCHANGED <<session, main, wallets, first, next, cancelled, shutdown,
                   storageVars, failed, panicking, slots, results,
                   handlerVars, wg>>

FailedAfter(p) == failed \cup {p}

ProcessFails(p) ==
    /\ WorkerMoves(p, "process", "send")
    /\ failed' = FailedAfter(p)
    /\ UNCHANGED <<appVars, panicking, slots, results, handlerVars, wg>>

(***************************************************************************)
(* A panic runs the deferred calls before it ends the process; processErr  *)
(* was never assigned.                                                     *)
(***************************************************************************)
ProcessPanics(p) ==
    /\ TaskMayPanic
    /\ WorkerMoves(p, "process", "send")
    /\ panicking' = panicking \cup {p}
    /\ UNCHANGED <<appVars, failed, slots, results, handlerVars, wg>>

(***************************************************************************)
(* The pause after a success, which keeps the slot, ends by its timer or   *)
(* by the context; there is none when the delay is zero.  A draw over      *)
(* between_accounts that panics runs the same deferred calls before the    *)
(* program dies: it is PauseEnds with Killed after it, and no property     *)
(* here tells the two apart.                                               *)
(***************************************************************************)
PauseEnds(p) ==
    /\ WorkerMoves(p, "pause", "send")
    /\ UNCHANGED <<appVars, failed, panicking, slots, results, handlerVars, wg>>

(***************************************************************************)
(* The deferred calls, last in first out: the result is published, then    *)
(* the slot is given back, then wg.Done is called.                         *)
(***************************************************************************)
\* A bug: a failed worker returns without a result.
PublishIfOk(p) ==
    IF p \in failed THEN results ELSE Append(results, [pos |-> p, err |-> FALSE])

Publish(p) == Append(results, [pos |-> p, err |-> p \in failed])

SendResult(p) ==
    /\ WorkerMoves(p, "send", "release")
    /\ Len(results) < ResultsCapacity
    /\ results' = Publish(p)
    /\ UNCHANGED <<appVars, failed, panicking, slots, handlerVars, wg>>

\* A bug: a worker that failed keeps its slot.
ReturnedIfOk(p) == IF p \in failed THEN 0 ELSE 1

Returned(p) == 1

ReleaseSlot(p) ==
    /\ WorkerMoves(p, "release", "leave")
    /\ slots' = slots + Returned(p)
    /\ UNCHANGED <<appVars, failed, panicking, results, handlerVars, wg>>

WorkerDone(p) ==
    /\ WorkerMoves(p, "leave", IF p \in panicking THEN "unwound" ELSE "gone")
    /\ wg' = wg - 1
    /\ UNCHANGED <<appVars, failed, panicking, slots, results, handlerVars>>

(***************************************************************************)
(* The panic has reached the top of the goroutine: the process dies.       *)
(***************************************************************************)
PanicCrash(p) ==
    /\ Alive
    /\ worker[p] = "unwound"
    /\ main' = "crashed"
    /\ UNCHANGED <<session, wallets, first, next, cancelled, shutdown,
                   completed, storageVars, poolVars, handlerVars, wg>>

WorkerStep(p) ==
    \/ WorkerStart(p) \/ ProcessOk(p) \/ ProcessFails(p) \/ ProcessPanics(p)
    \/ PauseEnds(p) \/ SendResult(p) \/ ReleaseSlot(p) \/ WorkerDone(p)
    \/ PanicCrash(p)

-----------------------------------------------------------------------------
(***************************************************************************)
(* handleParallelResults.                                                  *)
(***************************************************************************)

HandlerMoves(from, to) ==
    /\ Alive
    /\ handler = from
    /\ handler' = to
    /\ UNCHANGED <<appVars, worker, failed, panicking, slots>>

\* A bug: the handler starts from -1 whatever is recorded.
IgnoresState == {NoIndex}

LoadedIndices == LastCompleted(FALSE)

HandlerLoad ==
    /\ HandlerMoves("load", "receive")
    /\ highest' \in LoadedIndices
    /\ UNCHANGED <<results, processed, saves, wg>>

(***************************************************************************)
(* A result moves the highest index, and asks for it to be written, when   *)
(* it carries no error and an index above every earlier one.               *)
(***************************************************************************)
\* A bug: the error is not looked at.
CountsFailures(res) == TRUE

Succeeded(res) == ~res.err

Raises(res) == Succeeded(res) /\ OriginalIndex(res.pos) > highest

HandlerReceive ==
    /\ processed < TotalKeys
    /\ results # <<>>
    /\ HandlerMoves("receive", "receive")
    /\ results' = Tail(results)
    /\ processed' = processed + 1
    /\ LET index == OriginalIndex(Head(results).pos)
           raises == Raises(Head(results))
       IN  /\ highest' = IF raises THEN index ELSE highest
           /\ saves' = IF raises /\ ResumeEnabled THEN saves \cup {index} ELSE saves
    /\ UNCHANGED wg

HandlerLeaves ==
    /\ HandlerMoves("receive", "gone")
    /\ wg' = wg - 1
    /\ UNCHANGED <<results, processed, highest, saves>>

\* A bug: the handler stops one result early.
AllButOneReceived == processed >= TotalKeys - 1

AllReceived == processed = TotalKeys

HandlerFinished == AllReceived /\ HandlerLeaves

(***************************************************************************)
(* select takes either branch when a result waits and the context is done. *)
(***************************************************************************)
HandlerCancelled == ~AllReceived /\ cancelled /\ HandlerLeaves

HandlerStep ==
    \/ HandlerLoad \/ HandlerReceive \/ HandlerFinished \/ HandlerCancelled

(***************************************************************************)
(* One SetState goroutine per index, in no order and awaited by nobody.    *)
(* An index is asked for at most once in a session: highest only grows.    *)
(***************************************************************************)
SaveHighest(v) ==
    /\ Alive
    /\ v \in saves
    /\ saves' = saves \ {v}
    /\ SetState(v) \/ SetStateFails
    /\ UNCHANGED <<session, main, wallets, first, next, cancelled, shutdown,
                   completed, poolVars, handler, processed, highest, wg>>

-----------------------------------------------------------------------------

ShutdownStep == CloseResources /\ UNCHANGED <<poolVars, handlerVars, wg>>

Environment == (Signal \/ Killed) /\ UNCHANGED <<poolVars, handlerVars, wg>>

Restart ==
    /\ Reboot
    /\ worker' = [p \in Index |-> "idle"]
    /\ failed' = {}
    /\ panicking' = {}
    /\ slots' = 0
    /\ results' = <<>>
    /\ handler' = "off"
    /\ processed' = 0
    /\ highest' = NoIndex
    /\ saves' = {}
    /\ wg' = 0

GoroutineStep ==
    \/ MainStep
    \/ \E p \in Index : WorkerStep(p)
    \/ HandlerStep
    \/ \E v \in saves : SaveHighest(v)
    \/ ShutdownStep

Next ==
    \/ GoroutineStep
    \/ Environment
    \/ Restart
    \/ Terminated /\ UNCHANGED vars

Spec == Init /\ [][Next]_vars

(***************************************************************************)
(* A goroutine that is not blocked is run and a timer fires; the queries   *)
(* of the finished run and of the handler have ten seconds.  Two things    *)
(* are assumed that no timeout ensures: that the database answers or       *)
(* refuses prepare, which reads the saved index under the program's        *)
(* context, without a deadline, from stores that add none; and that        *)
(* Process returns or panics, of which Processor says what it rests on.    *)
(* No goroutine is owed its turn before another, and nothing is owed by    *)
(* signals, kills and restarts, nor by a select about which of two ready   *)
(* branches it takes.                                                      *)
(***************************************************************************)
FairSpec == Spec /\ WF_vars(GoroutineStep)

-----------------------------------------------------------------------------

Launched == {p \in Index : worker[p] # "idle"}
Holding == {p \in Index : worker[p] \in {"start", "process", "pause", "send", "release"}}
Unsent == {p \in Index : worker[p] \in {"start", "process", "pause", "send"}}
Working == {p \in Index : worker[p] \in {"process", "pause"}}
Present == {p \in Index : worker[p] \notin {"idle", "gone", "unwound"}}

Started == main \notin {"prepare", "run"} /\ handler # "off"

(***************************************************************************)
(* Slots are neither lost nor invented: at every moment the free slots and *)
(* the workers between taking and giving back make up the pool, panics and *)
(* workers cancelled before they start included.                           *)
(***************************************************************************)
SlotAccounting == Started => slots + Cardinality(Holding) = NumWorkers

(***************************************************************************)
(* Each launched worker's result is in exactly one place: to be sent, in   *)
(* the channel, or counted.  A lost one would leave the handler waiting    *)
(* for a count it cannot reach, a doubled one would end it early.          *)
(***************************************************************************)
ResultAccounting ==
    Started => processed + Len(results) + Cardinality(Unsent) = Cardinality(Launched)

(***************************************************************************)
(* main.go: the program waits for its operations before it exits.  Every   *)
(* worker is past wg.Done and the handler has returned when it does, so no *)
(* wallet is cut off half-way by an orderly exit; the checkpoints handed   *)
(* to goroutines of their own are not covered.                             *)
(***************************************************************************)
ExitIsOrderly == main = "exited" => Present = {} /\ handler \in {"off", "gone"}

(***************************************************************************)
(* An uncancelled exit has counted every result: the highest index covers  *)
(* every success of the session, and none is left in the channel.          *)
(***************************************************************************)
NothingUncounted ==
    main = "exited" /\ ~cancelled /\ Started =>
        /\ results = <<>>
        /\ \A p \in Launched \ failed : OriginalIndex(p) <= highest

(***************************************************************************)
(* No index reaches the row, or a goroutine that will write it, without    *)
(* its own wallet completed.  In file order, over any crashes, signals and *)
(* database failures; as long as no task panics.                           *)
(***************************************************************************)
RecordedCompleted ==
    \A i \in saves \cup ({saved, highest} \ {NoIndex}) : KeyAddress[i] \in completed

(***************************************************************************)
(* Whatever order the wallets were shuffled into, an uncancelled exit      *)
(* leaves none out: each was completed, or its worker reported an error or *)
(* is about to end the process with its panic.                             *)
(***************************************************************************)
EveryWalletAttempted ==
    main = "exited" /\ ~cancelled =>
        \A i \in first..(NumKeys - 1) :
            KeyAddress[i] \in completed \cup {Address(p) : p \in failed \cup panicking}

(***************************************************************************)
(* The row never runs ahead of the handler: once it has loaded the row,    *)
(* and while the store is open and answers, neither the row nor an index   *)
(* waiting to be written is above its highest index, across restarts whose *)
(* sessions left late writes or none.                                      *)
(***************************************************************************)
RowBehindHighest ==
    handler \in {"receive", "gone"} /\ storeOpen =>
        \A i \in saves \cup {saved} : i <= highest

(***************************************************************************)
(* app_parallel.go: what SetState wrote was a "new maximum index", so the  *)
(* row only grows within a session.                                        *)
(***************************************************************************)
CheckpointNeverRegresses == [][saved' >= saved]_vars

(***************************************************************************)
(* No deadlock of channels and WaitGroup: as long as the process lives, one *)
(* of its goroutines is not blocked.  Main waits for a slot, or for the    *)
(* WaitGroup, a worker for room in the results channel, the handler for a  *)
(* result; they never all wait for each other, with the handler gone on a  *)
(* cancellation or workers unwinding from a panic.                         *)
(***************************************************************************)
MainCanMove ==
    \/ main \in {"prepare", "run", "loop"}
    \/ main = "slot" /\ (SlotFree \/ cancelled)
    \/ main = "wait" /\ AllDone

WorkerCanMove(p) ==
    \/ worker[p] \in {"start", "process", "pause", "release", "leave", "unwound"}
    \/ worker[p] = "send" /\ Len(results) < ResultsCapacity

HandlerCanMove ==
    \/ handler = "load"
    \/ handler = "receive" /\ (results # <<>> \/ AllReceived \/ cancelled)

SomeoneCanMove ==
    Alive => MainCanMove \/ HandlerCanMove \/ \E p \in Index : WorkerCanMove(p)

(***************************************************************************)
(* The parallel mode is a wallet pool of at most max_parallel_wallets that *)
(* never skips and never stops on a failure; a wallet is being processed   *)
(* from the worker's check of the context to the end of its pause.         *)
(***************************************************************************)
PoolStatus ==
    CASE main = "prepare" -> "opening"
      [] main = "exited"  -> "closed"
      [] main = "crashed" -> "dead"
      [] OTHER            -> "open"

Waiting == {p \in Index : p >= first /\ worker[p] \in {"idle", "start"}}

Pending == IF PoolStatus = "open" THEN Waiting ELSE {}
Running == IF PoolStatus = "open" THEN Working ELSE {}

Pool == INSTANCE WalletPool WITH
    Size <- NumKeys, Limit <- MaxParallelWallets, StopOnFailure <- FALSE,
    MaySkip <- FALSE, status <- PoolStatus, pending <- Pending, running <- Running,
    broken <- FALSE

ImplementsWalletPool == Pool!Spec

(***************************************************************************)
(* No deadlock of goroutines: whatever is cancelled, fails or panics, and  *)
(* with the handler gone before the workers, a started program ends.       *)
(***************************************************************************)
EventuallyEnds == []<>(~Alive)
=============================================================================
