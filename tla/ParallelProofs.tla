--------------------------- MODULE ParallelProofs ---------------------------
(***************************************************************************)
(* What holds of the parallel mode for every keys file, every number of    *)
(* workers and of starts, in every interleaving of its goroutines: what    *)
(* may be recorded, where the row stands, what an uncancelled end has      *)
(* done, and the promise of a wallet pool.                                 *)
(***************************************************************************)
EXTENDS PoolProofs

(***************************************************************************)
(* How a success travels: a worker past Process without an error, a result *)
(* without one, the highest index, an index handed to a SetState goroutine *)
(* and the row each stand for a wallet that is completed.                  *)
(***************************************************************************)
Recorded == saves \cup ({saved, highest} \ {NoIndex})

Successful(p) ==
    \/ worker[p] = "pause"
    \/ worker[p] \in {"send", "release", "leave", "gone", "unwound"} /\ p \notin failed

RecordInv ==
    /\ wallets = FileOrder
    /\ worker \in [Index -> WorkerStates]
    /\ failed \in SUBSET Index
    /\ panicking = {}
    /\ results \in Seq(Result)
    /\ Recorded \subseteq Index
    /\ \A p \in Index : Successful(p) => KeyAddress[p] \in completed
    /\ \A n \in 1..Len(results) :
         ~results[n].err => KeyAddress[results[n].pos] \in completed
    /\ \A i \in Recorded : KeyAddress[i] \in completed

(***************************************************************************)
(* On the first start nothing is recorded and no worker is launched.       *)
(***************************************************************************)
LEMMA RecordInvInitially == Init => RecordInv
<1>1. \A i \in Index : i # NoIndex
  BY ApplicationAssumption DEF Index, NoIndex
<1> QED
  BY <1>1
  DEF Init, AppInit, PoolInit, StorageInit, RecordInv, WorkerStates, Recorded, Successful

(***************************************************************************)
(* A step that leaves the workers, the results and what is recorded alone  *)
(* or makes less of them keeps the invariant.                              *)
(***************************************************************************)
LEMMA RecordInvKept ==
    ASSUME RecordInv, UNCHANGED <<wallets, worker, failed, panicking, results>>,
           completed \subseteq completed', Recorded' \subseteq Recorded
    PROVE  RecordInv'
BY DEF RecordInv, Successful

(***************************************************************************)
(* A worker that moves keeps it if a success, where it newly counts as     *)
(* one, is the completion of its wallet.                                   *)
(***************************************************************************)
LEMMA RecordInvWorker ==
    ASSUME RecordInv, NEW p \in Index, NEW to \in WorkerStates,
           worker' = [worker EXCEPT ![p] = to],
           failed \subseteq failed', failed' \in SUBSET Index,
           UNCHANGED <<wallets, panicking, results>>,
           completed \subseteq completed', Recorded' \subseteq Recorded,
           Successful(p)' => KeyAddress[p] \in completed'
    PROVE  RecordInv'
<1>1. \A q \in Index : Successful(q)' => Successful(q) \/ q = p
  BY DEF RecordInv, Successful
<1>2. worker' \in [Index -> WorkerStates]
  BY DEF RecordInv
<1> QED
  BY <1>1, <1>2 DEF RecordInv

(***************************************************************************)
(* Every step of every goroutine keeps the invariant, in file order and as *)
(* long as no task panics: a panicking worker sends a result without error. *)
(***************************************************************************)
LEMMA RecordInvInductive ==
    ASSUME ~RandomOrder, ~TaskMayPanic
    PROVE  RecordInv /\ [Next]_vars => RecordInv'
<1> SUFFICES ASSUME RecordInv, [Next]_vars PROVE RecordInv'
  OBVIOUS
<1> USE DEF appVars, poolVars, handlerVars, storageVars
<1>1. CASE Prepare /\ UNCHANGED <<poolVars, handlerVars, wg>>
  <2>1. wallets \in [Index -> Index]
    BY DEF RecordInv, FileOrder
  <2>2. wallets' = wallets
    BY <1>1, <2>1, OrdersAreLists DEF Prepare
  <2> QED
    BY <1>1, <2>2, RecordInvKept DEF Prepare, Recorded
<1>2. CASE StartParallel
  BY <1>2, RecordInvKept DEF StartParallel, MainMoves, Recorded
<1>3. CASE LaunchLoop \/ AbandonSlot \/ Exit
  BY <1>3, RecordInvKept DEF LaunchLoop, AbandonSlot, Exit, MainMoves, Recorded
<1>4. CASE AcquireSlot
  <2>1. \A q \in Index : Successful(q)' => Successful(q)
    BY <1>4 DEF AcquireSlot, Successful, RecordInv
  <2>2. worker' \in [Index -> WorkerStates]
    BY <1>4 DEF AcquireSlot, RecordInv, WorkerStates
  <2> QED
    BY <1>4, <2>1, <2>2 DEF AcquireSlot, MainMoves, RecordInv, Recorded
<1>5. ASSUME NEW p \in Index, WorkerStep(p) PROVE RecordInv'
  <2> USE DEF WorkerMoves
  <2>0. Address(p) = KeyAddress[p]
    BY DEF Address, RecordInv, FileOrder
  <2>1. CASE WorkerStart(p)
    <3>1. ~Successful(p)'
      BY <2>1 DEF WorkerStart, SkipsWallet, Successful, RecordInv
    <3> QED
      BY <2>1, <3>1, RecordInvWorker DEF WorkerStart, SkipsWallet, WorkerStates, Recorded, RecordInv
  <2>2. CASE ProcessOk(p)
    BY <2>0, <2>2, RecordInvWorker DEF ProcessOk, WorkerStates, Recorded, RecordInv
  <2>3. CASE ProcessFails(p)
    <3>1. ~Successful(p)'
      BY <2>3 DEF ProcessFails, FailedAfter, Successful, RecordInv
    <3> QED
      BY <2>3, <3>1, RecordInvWorker
      DEF ProcessFails, FailedAfter, WorkerStates, Recorded, RecordInv
  <2>4. CASE ProcessPanics(p)
    BY <2>4 DEF ProcessPanics
  <2>5. CASE PauseEnds(p)
    BY <2>5, RecordInvWorker DEF PauseEnds, WorkerStates, Recorded, RecordInv, Successful
  <2>6. CASE SendResult(p)
    <3> DEFINE r == [pos |-> p, err |-> p \in failed]
    <3>1. r \in Result
      BY DEF Result
    <3>2. results' \in Seq(Result) /\ Len(results') = Len(results) + 1
      BY <2>6, <3>1 DEF SendResult, Publish, RecordInv
    <3>3. ~r.err => KeyAddress[r.pos] \in completed
      BY <2>6 DEF SendResult, RecordInv, Successful
    <3>4. \A n \in 1..Len(results') : n \in 1..Len(results) \/ results'[n] = r
      BY <2>6, <3>1 DEF SendResult, Publish, RecordInv
    <3>5. \A n \in 1..Len(results) : results'[n] = results[n]
      BY <2>6, <3>1 DEF SendResult, Publish, RecordInv
    <3>6. \A q \in Index : Successful(q)' => Successful(q)
      BY <2>6 DEF SendResult, RecordInv, Successful
    <3>7. worker' \in [Index -> WorkerStates]
      BY <2>6 DEF SendResult, RecordInv, WorkerStates
    <3>8. UNCHANGED <<wallets, failed, panicking, completed>> /\ Recorded' = Recorded
      BY <2>6 DEF SendResult, Recorded
    <3> HIDE DEF r
    <3> QED
      BY <3>2, <3>3, <3>4, <3>5, <3>6, <3>7, <3>8 DEF RecordInv
  <2>7. CASE ReleaseSlot(p)
    BY <2>7, RecordInvWorker DEF ReleaseSlot, WorkerStates, Recorded, RecordInv, Successful
  <2>8. CASE WorkerDone(p)
    BY <2>8, RecordInvWorker DEF WorkerDone, WorkerStates, Recorded, RecordInv, Successful
  <2>9. CASE PanicCrash(p)
    BY <2>9, RecordInvKept DEF PanicCrash, Recorded
  <2> QED
    BY <1>5, <2>1, <2>2, <2>3, <2>4, <2>5, <2>6, <2>7, <2>8, <2>9 DEF WorkerStep
<1>6. CASE HandlerLoad
  <2>1. highest' = saved \/ highest' = NoIndex
    BY <1>6, LastCompletedIsSavedOrNone DEF HandlerLoad, LoadedIndices
  <2> QED
    BY <1>6, <2>1, RecordInvKept DEF HandlerLoad, HandlerMoves, Recorded
<1>7. CASE HandlerReceive
  <2> DEFINE r == Head(results)
             index == OriginalIndex(r.pos)
  <2>1. /\ results' \in Seq(Result) /\ Len(results') = Len(results) - 1
        /\ 1 \in 1..Len(results) /\ r = results[1] /\ r \in Result
        /\ \A n \in 1..Len(results') : n + 1 \in 1..Len(results) /\ results'[n] = results[n + 1]
    BY <1>7 DEF HandlerReceive, RecordInv
  <2>2. wallets \in [Index -> Index] /\ r.pos \in Index
    BY <2>1 DEF RecordInv, FileOrder, Result
  <2>3. index \in Index /\ KeyAddress[index] = KeyAddress[r.pos]
    BY <2>2, OriginalIndexFirst DEF Address, RecordInv, FileOrder
  <2>4. Recorded' \subseteq Recorded \/ (~r.err /\ Recorded' \subseteq Recorded \cup {index})
    BY <1>7 DEF HandlerReceive, HandlerMoves, Raises, Succeeded, Recorded
  <2>5. ~r.err => KeyAddress[r.pos] \in completed
    BY <2>1 DEF RecordInv
  <2>6. UNCHANGED <<wallets, worker, failed, panicking, completed>>
    BY <1>7 DEF HandlerReceive, HandlerMoves
  <2> HIDE DEF r, index
  <2>7. \A q \in Index : Successful(q)' => Successful(q)
    BY <2>6 DEF Successful
  <2> QED
    BY <2>1, <2>3, <2>4, <2>5, <2>6, <2>7 DEF RecordInv
<1>8. CASE HandlerFinished \/ HandlerCancelled
  BY <1>8, RecordInvKept DEF HandlerFinished, HandlerCancelled, HandlerLeaves, HandlerMoves, Recorded
<1>9. ASSUME NEW v \in saves, SaveHighest(v) PROVE RecordInv'
  <2>1. Recorded' \subseteq Recorded
    BY <1>9 DEF SaveHighest, SetState, SetStateFails, Recorded
  <2> QED
    BY <1>9, <2>1, RecordInvKept DEF SaveHighest
<1>10. CASE ShutdownStep \/ Environment
  BY <1>10, RecordInvKept
  DEF ShutdownStep, Environment, CloseResources, CloseStore, Signal, Killed, Recorded
<1>11. CASE Restart
  <2>1. Recorded' \subseteq Recorded
    BY <1>11 DEF Restart, Reboot, ReopenStore, Recorded
  <2>2. \A q \in Index : ~Successful(q)'
    BY <1>11 DEF Restart, Successful
  <2>3. worker' \in [Index -> WorkerStates] /\ results' \in Seq(Result) /\ Len(results') = 0
    BY <1>11 DEF Restart, WorkerStates
  <2> QED
    BY <1>11, <2>1, <2>2, <2>3 DEF Restart, Reboot, RecordInv
<1>12. CASE UNCHANGED vars
  BY <1>12, RecordInvKept DEF vars, Recorded
<1> QED
  BY <1>1, <1>2, <1>3, <1>4, <1>5, <1>6, <1>7, <1>8, <1>9, <1>10, <1>11, <1>12
  DEF Next, GoroutineStep, MainStep, HandlerStep

(***************************************************************************)
(* No index is ever recorded, or on its way to the row, whose own wallet   *)
(* is not completed: in file order and without a panicking task, for any   *)
(* number of wallets, workers and starts, any kills, signals and database  *)
(* failures.                                                               *)
(***************************************************************************)
THEOREM RecordedAreCompleted ==
    ASSUME ~RandomOrder, ~TaskMayPanic PROVE Spec => []RecordedCompleted
<1>1. RecordInv => RecordedCompleted
  BY DEF RecordInv, Recorded, RecordedCompleted
<1> QED
  BY <1>1, RecordInvInitially, RecordInvInductive, PTL DEF Spec

(***************************************************************************)
(* Between loading the row and leaving, neither the row nor what waits to  *)
(* be written is above the highest index; before it nothing waits.         *)
(***************************************************************************)
RowInv ==
    /\ handler \in {"off", "load"} => saves = {}
    /\ ~ResumeEnabled => saves = {}
    /\ ~(ResumeEnabled /\ Durable) => saved = NoIndex
    /\ RowBehindHighest

(***************************************************************************)
(* Every step keeps it, as long as an open store can be read: a handler    *)
(* that takes a failed reading for an empty row starts below it.           *)
(***************************************************************************)
LEMMA RowInvInductive ==
    ASSUME ~ReadMayFail
    PROVE  PoolInv /\ RowInv /\ [Next]_vars => RowInv'
<1> SUFFICES ASSUME PoolInv, RowInv, [Next]_vars PROVE RowInv'
  OBVIOUS
<1> USE DEF RowInv, RowBehindHighest, appVars, poolVars, handlerVars, storageVars
<1>0. /\ saves \in SUBSET Index /\ saved \in Int /\ highest \in Int
      /\ Index \subseteq Int
  BY ApplicationAssumption DEF PoolInv, PoolTypes, AppTypeOK, Index, NoIndex
<1>1. CASE MainStep
  <2>1. CASE StartParallel
    <3>1. handler = "off" /\ handler' = "load" /\ UNCHANGED <<saves, saved, highest, storeOpen>>
      BY <2>1 DEF StartParallel, MainMoves, PoolInv, Launching
    <3> QED
      BY <3>1
  <2>2. CASE ~StartParallel
    <3>1. UNCHANGED <<handler, saves, saved, highest, storeOpen>>
      BY <1>1, <2>2 DEF MainStep, Prepare, LaunchLoop, AcquireSlot, AbandonSlot, Exit, MainMoves
    <3> QED
      BY <3>1
  <2> QED
    BY <2>1, <2>2
<1>2. ASSUME NEW p \in Index, WorkerStep(p) PROVE RowInv'
  <2>1. UNCHANGED <<handler, saves, saved, highest, storeOpen>>
    BY <1>2
    DEF WorkerStep, WorkerStart, ProcessOk, ProcessFails, ProcessPanics, PauseEnds, SendResult,
        ReleaseSlot, WorkerDone, PanicCrash
  <2> QED
    BY <2>1
<1>3. CASE HandlerLoad
  <2>1. /\ handler = "load" /\ handler' = "receive" /\ saves = {}
        /\ highest' \in LastCompleted(FALSE) /\ UNCHANGED <<saves, saved, storeOpen>>
    BY <1>3 DEF HandlerLoad, HandlerMoves, LoadedIndices
  <2>2. storeOpen => highest' = saved
    BY <2>1 DEF LastCompleted, GetState
  <2> QED
    BY <1>0, <2>1, <2>2
<1>4. CASE HandlerReceive
  <2> DEFINE r == Head(results)
             index == OriginalIndex(r.pos)
  <2>1. /\ handler = "receive" /\ handler' = "receive" /\ UNCHANGED <<saved, storeOpen>>
        /\ highest' = IF Raises(r) THEN index ELSE highest
        /\ saves' = IF Raises(r) /\ ResumeEnabled THEN saves \cup {index} ELSE saves
    BY <1>4 DEF HandlerReceive, HandlerMoves
  <2>2. r.pos \in Index /\ wallets \in [Index -> Index]
    <3>1. results \in Seq(Result) /\ results # <<>> /\ wallets \in [Index -> Index]
      BY <1>4 DEF HandlerReceive, PoolInv, PoolTypes, AppTypeOK
    <3>2. r \in Result
      BY <3>1
    <3> QED
      BY <3>1, <3>2 DEF Result
  <2>3. index \in Int /\ (Raises(r) => index > highest)
    BY <1>0, <2>2, OriginalIndexFirst DEF Raises
  <2> HIDE DEF r, index
  <2> QED
    BY <1>0, <2>1, <2>3
<1>5. CASE HandlerFinished \/ HandlerCancelled
  <2>1. handler = "receive" /\ handler' = "gone" /\ UNCHANGED <<saves, saved, highest, storeOpen>>
    BY <1>5 DEF HandlerFinished, HandlerCancelled, HandlerLeaves, HandlerMoves
  <2> QED
    BY <2>1
<1>6. ASSUME NEW v \in saves, SaveHighest(v) PROVE RowInv'
  <2>1. /\ saves' = saves \ {v} /\ UNCHANGED <<handler, highest, storeOpen>>
        /\ saved' = saved \/ (Durable /\ saved' = v)
    BY <1>6 DEF SaveHighest, SetState, SetStateFails
  <2> QED
    BY <1>0, <2>1
<1>7. CASE ShutdownStep \/ Environment
  <2>1. /\ UNCHANGED <<handler, saves, saved, highest>>
        /\ storeOpen' => storeOpen
    BY <1>7 DEF ShutdownStep, Environment, CloseResources, CloseStore, Signal, Killed
  <2> QED
    BY <2>1
<1>8. CASE Restart
  <2>1. handler' = "off" /\ saves' = {} /\ saved' = saved
    BY <1>8 DEF Restart, Reboot, ReopenStore
  <2> QED
    BY <2>1
<1>9. CASE UNCHANGED vars
  BY <1>9 DEF vars
<1> HIDE DEF RowInv, RowBehindHighest, appVars, poolVars, handlerVars, storageVars
<1> QED
  BY <1>1, <1>2, <1>3, <1>4, <1>5, <1>6, <1>7, <1>8, <1>9 DEF Next, GoroutineStep, HandlerStep

(***************************************************************************)
(* While reading the row does not fail on an open store, it stays behind   *)
(* the handler: across any number of starts, kills, lost and late writes.  *)
(***************************************************************************)
THEOREM RowIsBehindHighest ==
    ASSUME ~ReadMayFail PROVE Spec => []RowBehindHighest
<1>1. Init => RowInv
  BY DEF Init, AppInit, PoolInit, StorageInit, RowInv, RowBehindHighest
<1>2. RowInv => RowBehindHighest
  BY DEF RowInv
<1> QED
  BY <1>1, <1>2, RowInvInductive, PoolInvInitially, PoolInvInductive, PTL DEF Spec

(***************************************************************************)
(* How far the launch loop and the handler have come: the positions from   *)
(* first up to next are launched; only a cancellation makes either of them *)
(* leave early.                                                            *)
(***************************************************************************)
LaunchedInv ==
    /\ first <= next
    /\ \A p \in Index : worker[p] # "idle" <=> first <= p /\ p < next
    /\ main \in {"wait", "exited"} /\ ~cancelled => next = NumKeys
    /\ handler = "gone" /\ ~cancelled => processed = TotalKeys
    /\ handler \in {"off", "load"} => highest = NoIndex

(***************************************************************************)
(* It holds at the start, and every step keeps it.                         *)
(***************************************************************************)
LEMMA LaunchedInvInductive == PoolInv /\ LaunchedInv /\ [Next]_vars => LaunchedInv'
<1> SUFFICES ASSUME PoolInv, LaunchedInv, [Next]_vars PROVE LaunchedInv'
  OBVIOUS
<1> USE DEF LaunchedInv, appVars, poolVars, handlerVars, storageVars
<1>0. /\ NumKeys \in Nat \ {0} /\ Index = 0..(NumKeys - 1)
      /\ first \in 0..NumKeys /\ next \in 0..NumKeys
      /\ worker \in [Index -> WorkerStates]
      /\ (main \in {"prepare", "run"} => handler = "off")
      /\ (main = "slot" => next < NumKeys)
      /\ (handler = "off" => \A p \in Index : worker[p] = "idle")
  BY ApplicationAssumption DEF Index, PoolInv, PoolTypes, AppTypeOK, Launching
<1>1. CASE Prepare /\ UNCHANGED <<poolVars, handlerVars, wg>>
  <2>1. PICK l \in LastCompleted(cancelled) :
          /\ first' = ResumeFrom(l)
          /\ next' = ResumeFrom(l)
          /\ main' = IF ResumeFrom(l) < NumKeys THEN "run" ELSE "wait"
    BY <1>1 DEF Prepare
  <2>2. ResumeFrom(l) \in 0..NumKeys
    BY LastCompletedIsSavedOrNone, ResumeFromBehind DEF PoolInv, PoolTypes, AppTypeOK
  <2>3. handler = "off" /\ UNCHANGED <<handler, worker, highest>>
    BY <1>0, <1>1 DEF Prepare
  <2> QED
    BY <1>0, <2>1, <2>2, <2>3
<1>2. CASE StartParallel \/ LaunchLoop \/ AbandonSlot \/ Exit
  <2>1. /\ UNCHANGED <<first, next, worker, processed, cancelled, highest>>
        /\ handler' = "gone" => handler = "gone"
        /\ handler' # handler => handler = "off"
        /\ main' \in {"wait", "exited"} =>
             main \in {"wait", "exited"} \/ next = NumKeys \/ cancelled
    BY <1>0, <1>2 DEF StartParallel, LaunchLoop, AbandonSlot, Exit, MainMoves
  <2> QED
    BY <1>0, <2>1 DEF TotalKeys
<1>3. CASE AcquireSlot
  <2>1. /\ main = "slot" /\ main' = "loop" /\ next \in Index /\ next' = next + 1
        /\ worker' = [worker EXCEPT ![next] = "start"]
        /\ UNCHANGED <<first, handler, processed, cancelled, highest>>
    BY <1>0, <1>3 DEF AcquireSlot, MainMoves
  <2> QED
    BY <1>0, <2>1 DEF TotalKeys
<1>4. ASSUME NEW p \in Index, WorkerStep(p) PROVE LaunchedInv'
  <2>1. /\ UNCHANGED <<first, next, handler, processed, cancelled, highest>>
        /\ main' \in {main, "crashed"}
    BY <1>4
    DEF WorkerStep, WorkerStart, ProcessOk, ProcessFails, ProcessPanics, PauseEnds, SendResult,
        ReleaseSlot, WorkerDone, PanicCrash
  <2>2. \A q \in Index : worker'[q] = "idle" <=> worker[q] = "idle"
    BY <1>0, <1>4
    DEF WorkerStep, WorkerStart, ProcessOk, ProcessFails, ProcessPanics, PauseEnds, SendResult,
        ReleaseSlot, WorkerDone, PanicCrash, WorkerMoves
  <2> QED
    BY <1>0, <2>1, <2>2 DEF TotalKeys
<1>5. CASE HandlerStep
  <2>1. /\ UNCHANGED <<main, first, next, worker, cancelled>>
        /\ handler' = "gone" => cancelled \/ processed' = TotalKeys
        /\ handler' \in {"receive", "gone"}
    BY <1>5
    DEF HandlerStep, HandlerLoad, HandlerReceive, HandlerFinished, HandlerCancelled,
        HandlerLeaves, HandlerMoves, AllReceived
  <2> QED
    BY <1>0, <2>1 DEF TotalKeys
<1>6. ASSUME NEW v \in saves, SaveHighest(v) PROVE LaunchedInv'
  BY <1>6 DEF SaveHighest, TotalKeys
<1>7. CASE ShutdownStep \/ Environment
  <2>1. /\ UNCHANGED <<first, next, worker, handler, processed, highest>>
        /\ main' \in {main, "crashed"} /\ (cancelled => cancelled')
    BY <1>7 DEF ShutdownStep, Environment, CloseResources, Signal, Killed
  <2> QED
    BY <1>0, <2>1 DEF TotalKeys
<1>8. CASE Restart
  <2>1. /\ first' = 0 /\ next' = 0 /\ main' = "prepare" /\ handler' = "off"
        /\ worker' = [p \in Index |-> "idle"] /\ highest' = NoIndex
    BY <1>8 DEF Restart, Reboot
  <2> QED
    BY <1>0, <2>1
<1>9. CASE UNCHANGED vars
  BY <1>9 DEF vars, TotalKeys
<1> HIDE DEF LaunchedInv, appVars, poolVars, handlerVars, storageVars
<1> QED
  BY <1>1, <1>2, <1>3, <1>4, <1>5, <1>6, <1>7, <1>8, <1>9 DEF Next, GoroutineStep, MainStep

LEMMA LaunchedInvInitially == Init => LaunchedInv
BY ApplicationAssumption DEF Init, AppInit, PoolInit, LaunchedInv, Index

(***************************************************************************)
(* What became of each worker: past Process its wallet is completed or the *)
(* worker stands as failed or panicking; past its send a success is in the *)
(* channel or covered by the highest index.  The list is the keys file's,  *)
(* or all of it in another order.                                          *)
(***************************************************************************)
Processed(p) == worker[p] \notin {"idle", "start", "process"}

Sent(p) == worker[p] \in {"release", "leave", "gone", "unwound"}

Received(p) == OriginalIndex(p) <= highest

Underway(p) == \E n \in 1..Len(results) : results[n].pos = p /\ ~results[n].err

OutcomesInv ==
    /\ main = "prepare" => wallets = FileOrder
    /\ wallets = FileOrder \/ (first = 0 /\ wallets \in Injection(Index, Index))
    /\ \A p \in Index : Processed(p) => Address(p) \in completed \/ p \in failed \cup panicking
    /\ \A p \in Index : Sent(p) /\ p \notin failed => Received(p) \/ Underway(p)

(***************************************************************************)
(* Steps that leave the workers and what they reported alone keep it.      *)
(***************************************************************************)
LEMMA OutcomesKept ==
    ASSUME OutcomesInv, UNCHANGED <<wallets, first, worker, failed, panicking, results>>,
           main' = "prepare" => main = "prepare",
           completed \subseteq completed', highest' >= highest,
           highest \in Int, highest' \in Int, wallets \in [Index -> Index]
    PROVE  OutcomesInv'
<1>1. \A p \in Index : OriginalIndex(p)' = OriginalIndex(p) /\ OriginalIndex(p) \in Int
  <2>1. \A p \in Index : OriginalIndex(p)' = OriginalIndex(p)
    BY DEF OriginalIndex, Address
  <2>2. \A p \in Index : OriginalIndex(p) \in Int
    BY OriginalIndexFirst, ApplicationAssumption DEF Index
  <2> QED
    BY <2>1, <2>2
<1>2. \A p \in Index : Received(p) => Received(p)'
  BY <1>1 DEF Received
<1>3. \A p \in Index : Underway(p)' <=> Underway(p)
  BY DEF Underway
<1>4. \A p \in Index : Address(p)' = Address(p)
  BY DEF Address
<1> QED
  BY <1>2, <1>3, <1>4 DEF OutcomesInv, Processed, Sent

(***************************************************************************)
(* So do those of a worker p that keep it for p.                           *)
(***************************************************************************)
LEMMA OutcomesOfWorker ==
    ASSUME OutcomesInv, NEW p \in Index, NEW to,
           worker' = [worker EXCEPT ![p] = to], worker \in [Index -> WorkerStates],
           UNCHANGED <<wallets, first, highest>>,
           main' = "prepare" => main = "prepare",
           completed \subseteq completed', failed \subseteq failed', panicking \subseteq panicking',
           \A q \in Index : Underway(q) => Underway(q)',
           Processed(p)' => (Address(p) \in completed \/ p \in failed \cup panicking)',
           Sent(p)' /\ p \notin failed' => (Received(p) \/ Underway(p))'
    PROVE  OutcomesInv'
<1>1. \A q \in Index : Received(q)' <=> Received(q)
  BY DEF Received, OriginalIndex, Address
<1>2. \A q \in Index : Address(q)' = Address(q)
  BY DEF Address
<1>3. \A q \in Index : q # p => (Processed(q)' <=> Processed(q)) /\ (Sent(q)' <=> Sent(q))
  BY DEF Processed, Sent
<1> QED
  BY <1>1, <1>2, <1>3 DEF OutcomesInv

LEMMA OutcomesInvInductive ==
    PoolInv /\ LaunchedInv /\ OutcomesInv /\ [Next]_vars => OutcomesInv'
<1> SUFFICES ASSUME PoolInv, LaunchedInv, OutcomesInv, [Next]_vars PROVE OutcomesInv'
  OBVIOUS
<1> USE DEF appVars, poolVars, handlerVars, storageVars
<1>0. /\ wallets \in [Index -> Index] /\ worker \in [Index -> WorkerStates]
      /\ highest \in Int /\ highest >= NoIndex /\ results \in Seq(Result)
      /\ (handler = "off" => \A p \in Index : worker[p] = "idle")
      /\ (main \in {"prepare", "run"} => handler = "off")
  <2>1. \A i \in Index \cup {NoIndex} : i \in Int /\ i >= NoIndex
    BY ApplicationAssumption DEF Index, NoIndex
  <2> QED
    BY <2>1 DEF PoolInv, PoolTypes, AppTypeOK, Launching
<1>1. CASE Prepare /\ UNCHANGED <<poolVars, handlerVars, wg>>
  <2>1. PICK l \in LastCompleted(cancelled) :
          /\ first' = ResumeFrom(l)
          /\ wallets' \in Orders(l)
    BY <1>1 DEF Prepare
  <2>2. l \in Index \cup {NoIndex}
    BY <2>1, LastCompletedIsSavedOrNone DEF PoolInv, PoolTypes, AppTypeOK
  <2>3. wallets = FileOrder /\ main' # "prepare"
    BY <1>1 DEF Prepare, OutcomesInv
  <2>4. wallets' = FileOrder \/ (first' = 0 /\ wallets' \in Injection(Index, Index))
    <3>1. CASE Shuffles(l)
      <4>1. l = NoIndex
        BY <2>2, <3>1, ApplicationAssumption DEF Shuffles, Index, NoIndex
      <4>2. first' = 0
        BY <2>1, <4>1, ApplicationAssumption DEF ResumeFrom, NoIndex
      <4> QED
        BY <2>1, <3>1, <4>2 DEF Orders, Injection
    <3>2. CASE ~Shuffles(l)
      BY <2>1, <2>3, <3>2 DEF Orders
    <3> QED
      BY <3>1, <3>2
  <2>5. \A p \in Index : worker'[p] = "idle"
    BY <1>0, <1>1 DEF Prepare
  <2> QED
    BY <2>3, <2>4, <2>5 DEF OutcomesInv, Processed, Sent
<1>2. CASE StartParallel \/ LaunchLoop \/ AbandonSlot \/ Exit
  BY <1>0, <1>2, OutcomesKept DEF StartParallel, LaunchLoop, AbandonSlot, Exit, MainMoves
<1>3. CASE AcquireSlot
  <2>1. next \in Index
    BY <1>3, ApplicationAssumption
    DEF AcquireSlot, MainMoves, PoolInv, PoolTypes, AppTypeOK, Launching, Index
  <2>2. PICK p \in Index : p = next
    BY <2>1
  <2>3. /\ worker' = [worker EXCEPT ![p] = "start"] /\ main' = "loop"
        /\ UNCHANGED <<wallets, first, completed, failed, panicking, results, highest>>
    BY <1>3, <2>2 DEF AcquireSlot, MainMoves
  <2>4. ~Processed(p)' /\ ~Sent(p)' /\ \A q \in Index : Underway(q) => Underway(q)'
    BY <1>0, <2>3 DEF Processed, Sent, Underway
  <2> QED
    BY <1>0, <2>3, <2>4, OutcomesOfWorker
<1>4. ASSUME NEW p \in Index, WorkerStep(p) PROVE OutcomesInv'
  <2> USE DEF WorkerMoves
  <2>1. CASE WorkerStart(p)
    <3>1. /\ worker' = [worker EXCEPT ![p] = IF SkipsWallet THEN "send" ELSE "process"]
          /\ failed' = IF SkipsWallet THEN failed \cup {p} ELSE failed
          /\ UNCHANGED <<main, wallets, first, completed, panicking, results, highest>>
      BY <2>1 DEF WorkerStart
    <3>2. Processed(p)' => p \in failed'
      BY <1>0, <3>1 DEF Processed
    <3>3. ~Sent(p)' /\ \A q \in Index : Underway(q) => Underway(q)'
      BY <1>0, <3>1 DEF Sent, Underway
    <3> QED
      BY <1>0, <3>1, <3>2, <3>3, OutcomesOfWorker
  <2>2. CASE ProcessOk(p)
    <3>1. /\ worker' = [worker EXCEPT ![p] = "pause"]
          /\ completed' = completed \cup {Address(p)}
          /\ UNCHANGED <<main, wallets, first, failed, panicking, results, highest>>
      BY <2>2 DEF ProcessOk
    <3>2. Address(p)' \in completed'
      BY <3>1 DEF Address
    <3>3. ~Sent(p)' /\ \A q \in Index : Underway(q) => Underway(q)'
      BY <1>0, <3>1 DEF Sent, Underway
    <3> QED
      BY <1>0, <3>1, <3>2, <3>3, OutcomesOfWorker
  <2>3. CASE ProcessFails(p) \/ ProcessPanics(p)
    <3>1. /\ worker' = [worker EXCEPT ![p] = "send"]
          /\ failed \subseteq failed' /\ panicking \subseteq panicking'
          /\ p \in failed' \cup panicking'
          /\ UNCHANGED <<main, wallets, first, completed, results, highest>>
      BY <2>3 DEF ProcessFails, ProcessPanics, FailedAfter
    <3>2. ~Sent(p)' /\ \A q \in Index : Underway(q) => Underway(q)'
      BY <1>0, <3>1 DEF Sent, Underway
    <3> QED
      BY <1>0, <3>1, <3>2, OutcomesOfWorker
  <2>4. CASE PauseEnds(p)
    <3>1. /\ worker[p] = "pause" /\ worker' = [worker EXCEPT ![p] = "send"]
          /\ UNCHANGED <<main, wallets, first, completed, failed, panicking, results, highest>>
      BY <2>4 DEF PauseEnds
    <3>2. (Address(p) \in completed \/ p \in failed \cup panicking)'
      BY <3>1 DEF OutcomesInv, Processed, Address
    <3>3. ~Sent(p)' /\ \A q \in Index : Underway(q) => Underway(q)'
      BY <1>0, <3>1 DEF Sent, Underway
    <3> QED
      BY <1>0, <3>1, <3>2, <3>3, OutcomesOfWorker
  <2>5. CASE SendResult(p)
    <3> DEFINE r == [pos |-> p, err |-> p \in failed]
    <3>1. /\ worker[p] = "send" /\ worker' = [worker EXCEPT ![p] = "release"]
          /\ results' = Append(results, r)
          /\ UNCHANGED <<main, wallets, first, completed, failed, panicking, highest>>
      BY <2>5 DEF SendResult, Publish
    <3>2. r \in Result /\ r.pos = p /\ r.err = (p \in failed)
      BY DEF Result
    <3> HIDE DEF r
    <3>3. /\ Len(results') = Len(results) + 1 /\ Len(results) \in Nat
          /\ \A n \in 1..Len(results) : results'[n] = results[n]
          /\ results'[Len(results) + 1] = r
      BY <1>0, <3>1, <3>2
    <3>4. \A q \in Index : Underway(q) => Underway(q)'
      BY <3>3 DEF Underway
    <3>5. ASSUME p \notin failed PROVE Underway(p)'
      <4>1. Len(results) + 1 \in 1..Len(results')
        BY <3>3
      <4>2. results'[Len(results) + 1].pos = p /\ ~results'[Len(results) + 1].err
        BY <3>2, <3>3, <3>5
      <4> QED
        BY <4>1, <4>2 DEF Underway
    <3>6. (Address(p) \in completed \/ p \in failed \cup panicking)'
      BY <3>1 DEF OutcomesInv, Processed, Address
    <3> QED
      BY <1>0, <3>1, <3>4, <3>5, <3>6, OutcomesOfWorker
  <2>6. CASE ReleaseSlot(p) \/ WorkerDone(p)
    <3>1. PICK to \in {"leave", "gone", "unwound"} :
            /\ worker[p] \in {"release", "leave"} /\ worker' = [worker EXCEPT ![p] = to]
      BY <2>6 DEF ReleaseSlot, WorkerDone
    <3>2. UNCHANGED <<main, wallets, first, completed, failed, panicking, results, highest>>
      BY <2>6 DEF ReleaseSlot, WorkerDone
    <3>3. (Address(p) \in completed \/ p \in failed \cup panicking)'
      BY <3>1, <3>2 DEF OutcomesInv, Processed, Address
    <3>4. \A q \in Index : Underway(q) => Underway(q)'
      BY <3>2 DEF Underway
    <3>5. p \notin failed' => (Received(p) \/ Underway(p))'
      BY <3>1, <3>2 DEF OutcomesInv, Sent, Received, Underway, OriginalIndex, Address
    <3> QED
      BY <1>0, <3>1, <3>2, <3>3, <3>4, <3>5, OutcomesOfWorker
  <2>7. CASE PanicCrash(p)
    BY <1>0, <2>7, OutcomesKept DEF PanicCrash
  <2> QED
    BY <1>4, <2>1, <2>2, <2>3, <2>4, <2>5, <2>6, <2>7 DEF WorkerStep
<1>5. CASE HandlerLoad
  <2>1. /\ handler = "load" /\ highest' \in Index \cup {NoIndex}
        /\ UNCHANGED <<main, wallets, first, worker, failed, panicking, results, completed>>
    BY <1>5, LastCompletedIsSavedOrNone
    DEF HandlerLoad, HandlerMoves, LoadedIndices, PoolInv, PoolTypes, AppTypeOK
  <2>2. highest' \in Int /\ highest' >= highest
    BY <2>1, ApplicationAssumption DEF LaunchedInv, Index, NoIndex
  <2> QED
    BY <1>0, <2>1, <2>2, OutcomesKept
<1>6. CASE HandlerReceive
  <2> DEFINE r == Head(results)
             index == OriginalIndex(r.pos)
  <2>1. /\ results # <<>> /\ results' = Tail(results)
        /\ highest' = IF Raises(r) THEN index ELSE highest
        /\ UNCHANGED <<main, wallets, first, worker, failed, panicking, completed>>
    BY <1>6 DEF HandlerReceive, HandlerMoves
  <2>2. /\ r = results[1] /\ r \in Result
        /\ Len(results') = Len(results) - 1 /\ Len(results) \in Nat
        /\ \A n \in 1..Len(results') : results'[n] = results[n + 1]
    BY <1>0, <2>1
  <2>3. \A p \in Index : OriginalIndex(p)' = OriginalIndex(p)
    BY <2>1 DEF OriginalIndex, Address
  <2>4. \A p \in Index : OriginalIndex(p) \in Int
    BY <1>0, OriginalIndexFirst, ApplicationAssumption DEF Index
  <2>5. /\ highest' \in Int /\ highest' >= highest
        /\ ~r.err => index <= highest'
    BY <1>0, <2>1, <2>2, <2>4 DEF Raises, Succeeded, Result
  <2> HIDE DEF r, index
  <2>6. ASSUME NEW p \in Index, Received(p) \/ Underway(p)
        PROVE  (Received(p) \/ Underway(p))'
    <3>1. CASE Received(p)
      BY <1>0, <2>3, <2>4, <2>5, <3>1 DEF Received
    <3>2. CASE Underway(p)
      <4>1. PICK n \in 1..Len(results) : results[n].pos = p /\ ~results[n].err
        BY <3>2 DEF Underway
      <4>2. CASE n = 1
        <5>1. index = OriginalIndex(p) /\ ~r.err
          BY <2>2, <4>1, <4>2 DEF index
        <5> QED
          BY <2>3, <2>5, <5>1 DEF Received
      <4>3. CASE n # 1
        <5>1. n - 1 \in 1..Len(results') /\ results'[n - 1] = results[n]
          BY <2>2, <4>3
        <5> QED
          BY <4>1, <5>1 DEF Underway
      <4> QED
        BY <4>2, <4>3
    <3> QED
      BY <2>6, <3>1, <3>2
  <2>7. \A p \in Index : Address(p)' = Address(p)
    BY <2>1 DEF Address
  <2> QED
    BY <2>1, <2>6, <2>7 DEF OutcomesInv, Processed, Sent
<1>7. CASE HandlerFinished \/ HandlerCancelled
  BY <1>0, <1>7, OutcomesKept DEF HandlerFinished, HandlerCancelled, HandlerLeaves, HandlerMoves
<1>8. ASSUME NEW v \in saves, SaveHighest(v) PROVE OutcomesInv'
  BY <1>0, <1>8, OutcomesKept DEF SaveHighest
<1>9. CASE ShutdownStep \/ Environment
  BY <1>0, <1>9, OutcomesKept DEF ShutdownStep, Environment, CloseResources, Signal, Killed
<1>10. CASE Restart
  BY <1>10 DEF Restart, Reboot, OutcomesInv, Processed, Sent
<1>11. CASE UNCHANGED vars
  BY <1>0, <1>11, OutcomesKept DEF vars
<1> HIDE DEF appVars, poolVars, handlerVars, storageVars
<1> QED
  BY <1>1, <1>2, <1>3, <1>4, <1>5, <1>6, <1>7, <1>8, <1>9, <1>10, <1>11
  DEF Next, GoroutineStep, MainStep, HandlerStep

LEMMA OutcomesInvInitially == Init => OutcomesInv
BY DEF Init, AppInit, PoolInit, OutcomesInv, Processed, Sent

(***************************************************************************)
(* At an uncancelled exit all positions from first on have been launched,  *)
(* their workers have left, and the handler has received every result.     *)
(***************************************************************************)
LEMMA UncancelledExit ==
    ASSUME PoolInv, LaunchedInv, main = "exited", ~cancelled
    PROVE  /\ \A p \in Index : first <= p => Sent(p)
           /\ handler # "off" => Len(results) = 0
<1>0. /\ NumKeys \in Nat \ {0} /\ Index = 0..(NumKeys - 1) /\ first \in 0..NumKeys
      /\ worker \in [Index -> WorkerStates] /\ next = NumKeys
      /\ Present = {} /\ handler \in {"off", "gone"}
      /\ Len(results) \in Nat /\ processed \in Int
  BY ApplicationAssumption
  DEF Index, PoolInv, PoolTypes, AppTypeOK, LaunchedInv, ExitIsOrderly
<1>1. \A p \in Index : first <= p => Sent(p)
  BY <1>0 DEF LaunchedInv, Sent, Present, WorkerStates
<1>2. ASSUME handler # "off" PROVE Len(results) = 0
  <2>1. processed = NumKeys - first
    BY <1>0, <1>2 DEF LaunchedInv, TotalKeys
  <2>2. In(UnsentStates) = {}
    BY <1>0 DEF In, UnsentStates, Present
  <2>3. In(LaunchedStates) = first..(NumKeys - 1)
    BY <1>0 DEF In, LaunchedStates, LaunchedInv
  <2>4. Cardinality(In(UnsentStates)) = 0
    BY <2>2, FS_EmptySet
  <2>5. Cardinality(In(LaunchedStates)) = NumKeys - first
    BY <1>0, <2>3, FS_Interval
  <2> QED
    BY <1>0, <2>1, <2>4, <2>5 DEF PoolInv, Counts
<1> QED
  BY <1>1, <1>2

(***************************************************************************)
(* An uncancelled exit has counted every result, and the highest index     *)
(* covers every success of the session.                                    *)
(***************************************************************************)
THEOREM ExitHasCountedAll == Spec => []NothingUncounted
<1>1. PoolInv /\ LaunchedInv /\ OutcomesInv => NothingUncounted
  <2> SUFFICES ASSUME PoolInv, LaunchedInv, OutcomesInv, main = "exited", ~cancelled, Started
               PROVE  /\ results = <<>>
                      /\ \A p \in Launched \ failed : OriginalIndex(p) <= highest
    BY DEF NothingUncounted
  <2>1. Len(results) = 0 /\ results \in Seq(Result)
    BY UncancelledExit DEF Started, PoolInv, PoolTypes
  <2>2. ASSUME NEW p \in Launched \ failed PROVE OriginalIndex(p) <= highest
    <3>1. p \in Index /\ first <= p
      BY DEF Launched, LaunchedInv
    <3>2. Sent(p)
      BY <3>1, UncancelledExit
    <3>3. ~Underway(p)
      BY <2>1 DEF Underway
    <3> QED
      BY <3>1, <3>2, <3>3 DEF OutcomesInv, Received
  <2> QED
    BY <2>1, <2>2
<1> QED
  BY <1>1, PoolInvInitially, PoolInvInductive, LaunchedInvInitially, LaunchedInvInductive,
     OutcomesInvInitially, OutcomesInvInductive, PTL DEF Spec

(***************************************************************************)
(* Whatever order the wallets are in, an uncancelled exit leaves none out: *)
(* an injective order of finitely many wallets contains all of them.       *)
(***************************************************************************)
THEOREM ExitLeavesNoneOut == Spec => []EveryWalletAttempted
<1>1. PoolInv /\ LaunchedInv /\ OutcomesInv => EveryWalletAttempted
  <2> SUFFICES ASSUME PoolInv, LaunchedInv, OutcomesInv, main = "exited", ~cancelled,
                      NEW i \in first..(NumKeys - 1)
               PROVE  KeyAddress[i] \in
                        completed \cup {Address(p) : p \in failed \cup panicking}
    BY DEF EveryWalletAttempted
  <2>1. i \in Index /\ first <= i
    BY ApplicationAssumption DEF Index, PoolInv, PoolTypes, AppTypeOK
  <2>2. PICK p \in Index : first <= p /\ wallets[p] = i
    <3>1. CASE wallets = FileOrder
      BY <2>1, <3>1 DEF FileOrder
    <3>2. CASE first = 0 /\ wallets \in Injection(Index, Index)
      <4>1. IsFiniteSet(Index)
        BY FS_Interval, ApplicationAssumption DEF Index
      <4>2. wallets \in Surjection(Index, Index)
        BY <3>2, <4>1, FS_Injection
      <4>3. PICK p \in Index : wallets[p] = i
        BY <2>1, <4>2 DEF Surjection
      <4>4. first <= p
        BY <3>2, ApplicationAssumption DEF Index
      <4> QED
        BY <4>3, <4>4
    <3> QED
      BY <3>1, <3>2 DEF OutcomesInv
  <2>3. Processed(p)
    BY <2>2, UncancelledExit DEF Processed, Sent
  <2> QED
    BY <2>2, <2>3 DEF OutcomesInv, Address
<1> QED
  BY <1>1, PoolInvInitially, PoolInvInductive, LaunchedInvInitially, LaunchedInvInductive,
     OutcomesInvInitially, OutcomesInvInductive, PTL DEF Spec

(***************************************************************************)
(* The main goroutine is at the places of the parallel mode only.          *)
(***************************************************************************)
PlacesInv == main \in {"prepare", "run", "loop", "slot", "wait", "exited", "crashed"}

LEMMA PlacesInductive == PlacesInv /\ [Next]_vars => PlacesInv'
<1> SUFFICES ASSUME PlacesInv, [Next]_vars PROVE PlacesInv'
  OBVIOUS
<1> USE DEF PlacesInv
<1>1. CASE MainStep
  BY <1>1
  DEF MainStep, Prepare, StartParallel, LaunchLoop, AcquireSlot, AbandonSlot, Exit, MainMoves
<1>2. ASSUME NEW p \in Index, WorkerStep(p) PROVE PlacesInv'
  BY <1>2
  DEF WorkerStep, WorkerStart, ProcessOk, ProcessFails, ProcessPanics, PauseEnds, SendResult,
      ReleaseSlot, WorkerDone, PanicCrash, appVars
<1>3. CASE HandlerStep \/ \E v \in saves : SaveHighest(v)
  BY <1>3
  DEF HandlerStep, HandlerLoad, HandlerReceive, HandlerFinished, HandlerCancelled, HandlerLeaves,
      HandlerMoves, SaveHighest, appVars
<1>4. CASE ShutdownStep \/ Environment \/ Restart \/ UNCHANGED vars
  BY <1>4
  DEF ShutdownStep, Environment, CloseResources, Signal, Killed, Restart, Reboot, vars, appVars
<1> QED
  BY <1>1, <1>2, <1>3, <1>4 DEF Next, GoroutineStep

(***************************************************************************)
(* Whoever could be waited for is there: a full channel would hold more    *)
(* results than workers were launched, an empty semaphore has holders, a   *)
(* WaitGroup above zero has a worker or the handler, and the handler of an *)
(* uncancelled session has a result coming from each of its wallets.       *)
(***************************************************************************)
THEOREM NobodyWaitsForNobody == Spec => []SomeoneCanMove
<1>1. PoolInv /\ LaunchedInv /\ PlacesInv => SomeoneCanMove
  <2> SUFFICES ASSUME PoolInv, LaunchedInv, main \in {"slot", "wait"},
                      ~MainCanMove, ~HandlerCanMove, \A p \in Index : ~WorkerCanMove(p)
               PROVE  FALSE
    BY DEF SomeoneCanMove, PlacesInv, Alive, MainCanMove
  <2>0. /\ NumKeys \in Nat \ {0} /\ Index = 0..(NumKeys - 1)
        /\ first \in 0..NumKeys /\ next \in 0..NumKeys /\ first <= next
        /\ worker \in [Index -> WorkerStates]
        /\ results \in Seq(Result) /\ Len(results) \in Nat
        /\ processed \in Int /\ slots \in Int /\ wg \in Int
        /\ TotalKeys = NumKeys - first /\ ResultsCapacity = TotalKeys
    BY ApplicationAssumption
    DEF Index, PoolInv, PoolTypes, AppTypeOK, LaunchedInv, TotalKeys, ResultsCapacity
  <2>1. /\ In(LaunchedStates) = first..(next - 1)
        /\ Cardinality(In(LaunchedStates)) = next - first
    <3>1. \A p \in Index : worker[p] # "idle" <=> first <= p /\ p < next
      BY DEF LaunchedInv
    <3>2. first..(next - 1) \subseteq Index
      BY <2>0
    <3>3. In(LaunchedStates) = {p \in Index : worker[p] # "idle"}
      BY <2>0 DEF In, LaunchedStates
    <3>4. In(LaunchedStates) = first..(next - 1)
      BY <2>0, <3>1, <3>2, <3>3
    <3>5. Cardinality(first..(next - 1)) = next - first
      <4>1. first \in Int /\ next - 1 \in Int
        BY <2>0
      <4>2. Cardinality(first..(next - 1))
              = IF first > next - 1 THEN 0 ELSE (next - 1) - first + 1
        BY <4>1, FS_Interval
      <4> QED
        BY <2>0, <4>2
    <3> QED
      BY <3>4, <3>5
  <2>2. \A p \in Index : worker[p] \in {"idle", "send", "gone"}
    BY <2>0 DEF WorkerCanMove, WorkerStates
  <2>3. \A p \in Index : worker[p] # "send"
    <3> SUFFICES ASSUME NEW p \in Index, worker[p] = "send" PROVE FALSE
      OBVIOUS
    <3>1. Len(results) >= NumKeys - first
      BY <2>0 DEF WorkerCanMove
    <3>2. p \in In(UnsentStates)
      BY DEF In, UnsentStates
    <3>3. IsFiniteSet(In(UnsentStates)) /\ Cardinality(In(UnsentStates)) \in Nat
      BY Counted
    <3>4. Cardinality(In(UnsentStates)) # 0
      BY <3>2, <3>3, FS_EmptySet
    <3>5. processed >= 0
      BY DEF PoolInv, PoolTypes
    <3> QED
      BY <2>0, <2>1, <3>1, <3>3, <3>4, <3>5 DEF PoolInv, Counts
  <2>4. /\ Cardinality(In(HoldingStates)) = 0 /\ Cardinality(In(UnsentStates)) = 0
        /\ Cardinality(In(PresentStates)) = 0
    <3>1. In(HoldingStates) = {} /\ In(UnsentStates) = {} /\ In(PresentStates) = {}
      BY <2>2, <2>3 DEF In, HoldingStates, UnsentStates, PresentStates
    <3> QED
      BY <3>1, FS_EmptySet
  <2>5. CASE main = "slot"
    <3>1. handler # "off" /\ next < NumKeys
      BY <2>5 DEF PoolInv, Launching
    <3>2. slots = NumWorkers
      BY <2>0, <2>4, <3>1, ApplicationAssumption
      DEF PoolInv, Counts, NumWorkers, Smaller
    <3>3. NumWorkers > 0
      BY <2>0, <3>1, ApplicationAssumption, ParallelAssumption DEF NumWorkers, Smaller, Sequential
    <3> QED
      BY <2>5, <3>2, <3>3 DEF MainCanMove, SlotFree
  <2>6. CASE main = "wait"
    <3>1. wg # 0
      BY <2>6 DEF MainCanMove, AllDone
    <3>2. handler = "receive"
      BY <2>4, <3>1 DEF PoolInv, Counts, One, HandlerCanMove
    <3>3. Len(results) = 0 /\ processed # TotalKeys /\ ~cancelled
      BY <3>2 DEF HandlerCanMove, AllReceived
    <3>4. next = NumKeys
      BY <2>6, <3>3 DEF LaunchedInv
    <3> QED
      BY <2>0, <2>1, <2>4, <3>3, <3>4 DEF PoolInv, Counts
  <2> QED
    BY <2>5, <2>6
<1>2. Init => PlacesInv
  BY DEF Init, AppInit, PlacesInv
<1> QED
  BY <1>1, <1>2, PlacesInductive, PoolInvInitially, PoolInvInductive, LaunchedInvInitially,
     LaunchedInvInductive, PTL DEF Spec

(***************************************************************************)
(* How the mode looks as a wallet pool, at each place the main goroutine   *)
(* may be.                                                                 *)
(***************************************************************************)
PoolSeen ==
    /\ main = "prepare" => PoolStatus = "opening"
    /\ main = "exited" => PoolStatus = "closed"
    /\ main = "crashed" => PoolStatus = "dead"
    /\ Alive /\ main # "prepare" => PoolStatus = "open" /\ Pending = Waiting /\ Running = Working
    /\ main \in {"prepare", "exited", "crashed"} => Pending = {} /\ Running = {}

LEMMA PoolIsSeen == PoolSeen
<1>1. /\ main = "prepare" => PoolStatus = "opening"
      /\ main = "exited" => PoolStatus = "closed"
      /\ main = "crashed" => PoolStatus = "dead"
      /\ main \notin {"prepare", "exited", "crashed"} => PoolStatus = "open"
  BY ZenonT(30) DEF PoolStatus
<1> QED
  BY <1>1 DEF PoolSeen, Pending, Running, Alive

LEMMA PoolIsSeenNext == PoolSeen'
BY PoolIsSeen, PTL

(***************************************************************************)
(* The cardinality that WalletPool speaks of is the one of FiniteSets.     *)
(***************************************************************************)
LEMMA PoolCounts == \A S : Pool!Cardinality(S) = Cardinality(S)
BY DEF Pool!Cardinality, Cardinality

(***************************************************************************)
(* Any set of workers that hold a slot and leaves one of them out is       *)
(* smaller than the pool: the books bound both what is processed at a time *)
(* and what a starting worker overtakes.                                   *)
(***************************************************************************)
LEMMA FewerThanTheLimit ==
    ASSUME PoolInv, NEW p \in In(HoldingStates), NEW S \in SUBSET (In(HoldingStates) \ {p})
    PROVE  Cardinality(S) < MaxParallelWallets
<1>1. IsFiniteSet(In(HoldingStates)) /\ Cardinality(In(HoldingStates)) \in Int
  BY Counted
<1>2. Cardinality(In(HoldingStates) \ {p}) = Cardinality(In(HoldingStates)) - 1
  BY <1>1, FS_RemoveElement
<1>3. IsFiniteSet(In(HoldingStates) \ {p})
  BY <1>1, FS_RemoveElement
<1>4. Cardinality(S) <= Cardinality(In(HoldingStates) \ {p}) /\ IsFiniteSet(S)
  BY <1>3, FS_Subset
<1>5. Cardinality(S) \in Nat
  BY <1>4, FS_CardinalityType
<1>6. handler # "off"
  BY DEF PoolInv, Launching, In, HoldingStates
<1>7. slots + Cardinality(In(HoldingStates)) = NumWorkers /\ slots \in Nat
  BY <1>6 DEF PoolInv, PoolTypes, Counts
<1>8. NumWorkers <= MaxParallelWallets
  BY ApplicationAssumption DEF NumWorkers, Smaller, TotalKeys, PoolInv, PoolTypes, AppTypeOK
<1>9. MaxParallelWallets \in Int /\ NumWorkers \in Int
  BY ApplicationAssumption DEF NumWorkers, Smaller, TotalKeys, PoolInv, PoolTypes, AppTypeOK
<1> QED
  BY <1>1, <1>2, <1>4, <1>5, <1>7, <1>8, <1>9

(***************************************************************************)
(* A step that moves no worker into or out of the waiting and the working  *)
(* ones leaves the pool as it is, while the main goroutine stays between   *)
(* prepare and the end.                                                    *)
(***************************************************************************)
LEMMA PoolUndisturbed ==
    ASSUME Waiting' = Waiting, Working' = Working, cancelled' = cancelled,
           Alive, Alive', main = "prepare" <=> main' = "prepare"
    PROVE  UNCHANGED Pool!poolState
<1>1. PoolStatus' = PoolStatus /\ Pending' = Pending /\ Running' = Running
  BY PoolIsSeen, PoolIsSeenNext DEF PoolSeen, Alive
<1> QED
  BY <1>1 DEF Pool!poolState

(***************************************************************************)
(* What a worker's step does to the pool.                                  *)
(***************************************************************************)
LEMMA WorkerStepsAreAllowed ==
    ASSUME PoolInv, LaunchedInv, NEW p \in Index, WorkerStep(p)
    PROVE  [Pool!Next]_(Pool!poolState)
<1>0. /\ worker \in [Index -> WorkerStates] /\ Pool!Wallet = Index
      /\ Index \subseteq Int /\ first \in Int /\ next \in Int
      /\ PoolSeen /\ PoolSeen'
      /\ worker[p] # "idle" => first <= p /\ p < next
      /\ main = "prepare" => \A q \in Index : worker[q] = "idle"
  BY PoolIsSeen, PoolIsSeenNext, ApplicationAssumption
  DEF PoolInv, PoolTypes, AppTypeOK, Launching, LaunchedInv, Pool!Wallet, Index
<1> DEFINE Moves(to) == worker' = [worker EXCEPT ![p] = to] /\ UNCHANGED <<main, first, cancelled>>
<1>a. ASSUME Alive, worker[p] # "idle", UNCHANGED main
      PROVE  /\ Alive' /\ main # "prepare" /\ main' # "prepare"
             /\ PoolStatus = "open" /\ PoolStatus' = "open"
             /\ Pending = Waiting /\ Pending' = Waiting' /\ Running = Working /\ Running' = Working'
  BY <1>0, <1>a DEF PoolSeen, Alive
<1>1. CASE WorkerStart(p)
  <2>1. Alive /\ worker[p] = "start" /\ UNCHANGED <<main, first, next, cancelled>>
    BY <1>1 DEF WorkerStart, WorkerMoves, appVars
  <2>2. p \in Waiting /\ p \notin Working /\ p \in In(HoldingStates)
    BY <1>0, <2>1 DEF Waiting, Working, In, HoldingStates
  <2>3. CASE cancelled
    <3>1. worker' = [worker EXCEPT ![p] = "send"]
      BY <1>1, <2>3 DEF WorkerStart, WorkerMoves, SkipsWallet
    <3>2. Waiting' = Waiting \ {p} /\ Working' = Working
      BY <1>0, <2>1, <2>2, <3>1 DEF Waiting, Working
    <3>3. Pool!Drop(p)
      BY <1>a, <2>1, <2>2, <2>3, <3>2 DEF Pool!Drop
    <3> QED
      BY <1>0, <3>3 DEF Pool!Next
  <2>4. CASE ~cancelled
    <3>1. worker' = [worker EXCEPT ![p] = "process"]
      BY <1>1, <2>4 DEF WorkerStart, WorkerMoves, SkipsWallet
    <3>2. Waiting' = Waiting \ {p} /\ Working' = Working \cup {p}
      BY <1>0, <2>1, <2>2, <3>1 DEF Waiting, Working
    <3>3. Working \subseteq In(HoldingStates) \ {p}
      BY <2>2 DEF Working, In, HoldingStates
    <3>4. {v \in Waiting : v < p} \subseteq In(HoldingStates) \ {p}
      <4>1. SUFFICES ASSUME NEW v \in Waiting, v < p PROVE v \in In(HoldingStates) \ {p}
        OBVIOUS
      <4>2. v \in Index /\ first <= v /\ v < next /\ v # p
        BY <1>0, <2>1, <4>1 DEF Waiting
      <4>3. worker[v] # "idle"
        BY <4>2 DEF LaunchedInv
      <4>4. worker[v] = "start"
        BY <4>3 DEF Waiting
      <4> QED
        BY <4>2, <4>4 DEF In, HoldingStates
    <3>5. Cardinality(Working) < MaxParallelWallets
      BY <2>2, <3>3, FewerThanTheLimit
    <3>6. Cardinality({v \in Waiting : v < p}) < MaxParallelWallets
      BY <2>2, <3>4, FewerThanTheLimit
    <3>7. Pool!Overtaken(p) = {v \in Waiting : v < p}
      BY <1>a, <2>1 DEF Pool!Overtaken
    <3>8. Pool!Start(p)
      BY <1>a, <2>1, <2>2, <2>4, <3>2, <3>5, <3>6, <3>7, PoolCounts DEF Pool!Start
    <3> QED
      BY <1>0, <3>8 DEF Pool!Next
  <2> QED
    BY <2>3, <2>4
<1>2. CASE ProcessFails(p) \/ ProcessPanics(p) \/ PauseEnds(p)
  <2>1. /\ Alive /\ worker[p] \in {"process", "pause"} /\ worker' = [worker EXCEPT ![p] = "send"]
        /\ UNCHANGED <<main, first, cancelled>>
    BY <1>2 DEF ProcessFails, ProcessPanics, PauseEnds, WorkerMoves, appVars
  <2>2. p \in Working /\ Working' = Working \ {p} /\ Waiting' = Waiting
    BY <1>0, <2>1 DEF Waiting, Working
  <2>3. Pool!Finish(p)
    BY <1>a, <2>1, <2>2 DEF Pool!Finish
  <2> QED
    BY <1>0, <2>3 DEF Pool!Next
<1>3. CASE PanicCrash(p)
  <2>1. Alive /\ main' = "crashed" /\ UNCHANGED cancelled
    BY <1>3 DEF PanicCrash
  <2>2. PoolStatus \in {"opening", "open"} /\ PoolStatus' = "dead" /\ Pending' = {} /\ Running' = {}
    BY <1>0, <2>1 DEF PoolSeen
  <2>3. Pool!Die
    BY <2>1, <2>2 DEF Pool!Die, Pool!Ends
  <2> QED
    BY <2>3 DEF Pool!Next
<1>4. CASE ProcessOk(p) \/ SendResult(p) \/ ReleaseSlot(p) \/ WorkerDone(p)
  <2>1. PICK to \in WorkerStates :
          /\ worker' = [worker EXCEPT ![p] = to]
          /\ \/ worker[p] = "process" /\ to = "pause"
             \/ /\ worker[p] \in {"send", "release", "leave"}
                /\ to \in {"release", "leave", "gone", "unwound"}
          /\ Alive /\ UNCHANGED <<main, first, cancelled>>
    BY <1>4
    DEF ProcessOk, SendResult, ReleaseSlot, WorkerDone, WorkerMoves, appVars, WorkerStates
  <2>2. Working' = Working /\ Waiting' = Waiting
    BY <1>0, <2>1 DEF Waiting, Working
  <2>3. UNCHANGED Pool!poolState
    BY <1>a, <2>1, <2>2, PoolUndisturbed
  <2> QED
    BY <2>3
<1> QED
  BY <1>1, <1>2, <1>3, <1>4 DEF WorkerStep

(***************************************************************************)
(* Each step of the mode is one of the pool's, or leaves the pool as it is. *)
(***************************************************************************)
LEMMA ParallelStepsAreAllowed ==
    ASSUME PoolInv, PoolInv', LaunchedInv, LaunchedInv', [Next]_vars
    PROVE  [Pool!Next]_(Pool!poolState)
<1>0. /\ worker \in [Index -> WorkerStates] /\ Pool!Wallet = Index
      /\ NumKeys \in Nat \ {0} /\ Index = 0..(NumKeys - 1)
      /\ next \in 0..NumKeys /\ first' \in 0..NumKeys
      /\ PoolSeen /\ PoolSeen'
      /\ main \in {"prepare", "run"} => \A q \in Index : worker[q] = "idle"
  BY PoolIsSeen, PoolIsSeenNext, ApplicationAssumption
  DEF PoolInv, PoolTypes, AppTypeOK, Launching, Pool!Wallet, Index
<1> USE DEF appVars, poolVars, handlerVars, storageVars
<1>1. CASE Prepare /\ UNCHANGED <<poolVars, handlerVars, wg>>
  <2>1. main = "prepare" /\ main' \in {"run", "wait"} /\ UNCHANGED <<worker, cancelled>>
    BY <1>1 DEF Prepare
  <2>2. PICK from \in 0..NumKeys : first' = from
    BY <1>0
  <2>3. Waiting' = {w \in Index : w >= from} /\ Working' = {}
    BY <1>0, <2>1, <2>2 DEF Waiting, Working
  <2>4. /\ PoolStatus = "opening" /\ PoolStatus' = "open"
        /\ Pending' = {w \in Index : w >= from} /\ Running = {} /\ Running' = {}
    BY <1>0, <2>1, <2>3 DEF PoolSeen, Alive
  <2>5. Pool!Open
    BY <1>0, <2>1, <2>4 DEF Pool!Open
  <2> QED
    BY <2>5 DEF Pool!Next
<1>2. CASE StartParallel \/ LaunchLoop \/ AbandonSlot
  <2>1. /\ main \in {"run", "loop", "slot"} /\ main' \in {"loop", "slot", "wait"}
        /\ UNCHANGED <<worker, first, cancelled>>
    BY <1>2 DEF StartParallel, LaunchLoop, AbandonSlot, MainMoves
  <2>2. Waiting' = Waiting /\ Working' = Working
    BY <2>1 DEF Waiting, Working
  <2> QED
    BY <2>1, <2>2, PoolUndisturbed DEF Alive
<1>3. CASE AcquireSlot
  <2>1. /\ main = "slot" /\ main' = "loop" /\ UNCHANGED <<first, cancelled>>
        /\ worker' = [worker EXCEPT ![next] = "start"] /\ next \in Index
    BY <1>0, <1>3 DEF AcquireSlot, MainMoves, PoolInv, Launching
  <2>2. worker[next] = "idle"
    BY <1>0, <2>1 DEF LaunchedInv
  <2>3. Waiting' = Waiting /\ Working' = Working
    BY <1>0, <2>1, <2>2 DEF Waiting, Working
  <2> QED
    BY <2>1, <2>3, PoolUndisturbed DEF Alive
<1>4. CASE Exit
  <2>1. main = "wait" /\ main' = "exited" /\ UNCHANGED <<worker, next, first, cancelled>>
    BY <1>4 DEF Exit, MainMoves
  <2>2. Present' = {}
    BY <2>1 DEF PoolInv, ExitIsOrderly
  <2>3. Working = {}
    BY <2>1, <2>2 DEF Present, Working
  <2>4. Waiting = {} \/ cancelled
    <3>1. SUFFICES ASSUME ~cancelled, NEW p \in Waiting PROVE FALSE
      OBVIOUS
    <3>2. p \in Index /\ first <= p /\ p < next
      BY <1>0, <2>1, <3>1 DEF Waiting, LaunchedInv, PoolInv, PoolTypes, AppTypeOK
    <3>3. worker[p] # "idle"
      BY <3>2 DEF LaunchedInv
    <3>4. worker[p] = "start"
      BY <3>3 DEF Waiting
    <3> QED
      BY <2>1, <2>2, <3>2, <3>4 DEF Present
  <2>5. /\ PoolStatus = "open" /\ PoolStatus' = "closed" /\ Pending = Waiting /\ Running = {}
        /\ Pending' = {} /\ Running' = {}
    BY <1>0, <2>1, <2>3 DEF PoolSeen, Alive
  <2>6. Pool!Close
    BY <2>1, <2>4, <2>5 DEF Pool!Close, Pool!Ends
  <2> QED
    BY <2>6 DEF Pool!Next
<1>5. ASSUME NEW p \in Index, WorkerStep(p) PROVE [Pool!Next]_(Pool!poolState)
  BY <1>5, WorkerStepsAreAllowed
<1>6. CASE HandlerStep \/ (\E v \in saves : SaveHighest(v)) \/ ShutdownStep
  <2>1. Alive /\ UNCHANGED <<main, worker, first, cancelled>>
    BY <1>6
    DEF HandlerStep, HandlerLoad, HandlerReceive, HandlerFinished, HandlerCancelled,
        HandlerLeaves, HandlerMoves, SaveHighest, ShutdownStep, CloseResources
  <2>2. Waiting' = Waiting /\ Working' = Working
    BY <2>1 DEF Waiting, Working
  <2> QED
    BY <2>1, <2>2, PoolUndisturbed DEF Alive
<1>7. CASE Killed
  <2>1. Alive /\ main' = "crashed" /\ UNCHANGED cancelled
    BY <1>7 DEF Killed
  <2>2. PoolStatus \in {"opening", "open"} /\ PoolStatus' = "dead" /\ Pending' = {} /\ Running' = {}
    BY <1>0, <2>1 DEF PoolSeen
  <2>3. Pool!Die
    BY <2>1, <2>2 DEF Pool!Die, Pool!Ends
  <2> QED
    BY <2>3 DEF Pool!Next
<1>8. CASE Signal /\ UNCHANGED <<poolVars, handlerVars, wg>>
  <2>1. Alive /\ cancelled' = TRUE /\ UNCHANGED <<main, worker, first>>
    BY <1>8 DEF Signal
  <2>2. UNCHANGED <<PoolStatus, Pending, Running>>
    BY <2>1 DEF PoolStatus, Pending, Running, Waiting, Working
  <2>3. PoolStatus \in {"opening", "open"}
    BY <1>0, <2>1 DEF PoolSeen
  <2>4. Pool!Cancel
    BY <2>1, <2>2, <2>3 DEF Pool!Cancel
  <2> QED
    BY <2>4 DEF Pool!Next
<1>9. CASE Restart
  <2>1. main \in {"exited", "crashed"} /\ main' = "prepare" /\ cancelled' = FALSE
    BY <1>9 DEF Restart, Reboot, Alive
  <2>2. /\ PoolStatus \in {"closed", "dead"} /\ PoolStatus' = "opening"
        /\ UNCHANGED <<Pending, Running>>
    BY <1>0, <2>1 DEF PoolSeen
  <2>3. Pool!Reopen
    BY <2>1, <2>2 DEF Pool!Reopen
  <2> QED
    BY <2>3 DEF Pool!Next
<1>10. CASE UNCHANGED vars
  <2>1. UNCHANGED <<PoolStatus, Pending, Running, cancelled>>
    BY <1>10 DEF vars, PoolStatus, Pending, Running, Waiting, Working
  <2> QED
    BY <2>1 DEF Pool!poolState
<1> HIDE DEF appVars, poolVars, handlerVars, storageVars
<1> QED
  BY <1>1, <1>2, <1>3, <1>4, <1>5, <1>6, <1>7, <1>8, <1>9, <1>10
  DEF Next, GoroutineStep, MainStep, Environment

(***************************************************************************)
(* The parallel mode keeps the promise of WalletPool, for every number of  *)
(* wallets, workers and starts: no more than max_parallel_wallets at once, *)
(* none twice in a session, none started after the cancellation, fewer     *)
(* overtaken than there are workers, and no end before all is done.        *)
(***************************************************************************)
THEOREM ParallelKeepsThePromise == Spec => ImplementsWalletPool
<1>1. Init => Pool!Init
  <2> SUFFICES ASSUME Init PROVE Pool!Init
    OBVIOUS
  <2>1. main = "prepare" /\ cancelled = FALSE
    BY DEF Init, AppInit
  <2>2. PoolStatus = "opening" /\ Pending = {} /\ Running = {}
    BY <2>1, PoolIsSeen DEF PoolSeen
  <2> QED
    BY <2>1, <2>2 DEF Pool!Init
<1>2. PoolInv /\ PoolInv' /\ LaunchedInv /\ LaunchedInv' /\ [Next]_vars
        => [Pool!Next]_(Pool!poolState)
  BY ParallelStepsAreAllowed
<1> QED
  BY <1>1, <1>2, PoolInvInitially, PoolInvInductive, LaunchedInvInitially,
     LaunchedInvInductive, PTL
  DEF Spec, ImplementsWalletPool, Pool!Spec
=============================================================================
