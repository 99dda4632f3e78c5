----------------------------- MODULE PoolProofs -----------------------------
(***************************************************************************)
(* The books of the worker pool, for every number of wallets and workers   *)
(* and in every interleaving, panics, kills and cancellations included:    *)
(* slots, results and the WaitGroup always add up.                         *)
(***************************************************************************)
EXTENDS ParallelRun, ApplicationProofs, FiniteSetTheorems

(***************************************************************************)
(* Workers counted by the states they are in.                              *)
(***************************************************************************)
In(A) == {p \in Index : worker[p] \in A}

HoldingStates == {"start", "process", "pause", "send", "release"}
UnsentStates == {"start", "process", "pause", "send"}
PresentStates == WorkerStates \ {"idle", "gone", "unwound"}
LaunchedStates == WorkerStates \ {"idle"}

One(s, A) == IF s \in A THEN 1 ELSE 0

(***************************************************************************)
(* TypeOK but for the bounds of slots and wg, which follow from the books. *)
(***************************************************************************)
PoolTypes ==
    /\ AppTypeOK
    /\ worker \in [Index -> WorkerStates]
    /\ failed \in SUBSET Index
    /\ panicking \in SUBSET Index
    /\ slots \in Nat
    /\ results \in Seq(Result)
    /\ handler \in HandlerStates
    /\ processed \in 0..NumKeys
    /\ highest \in Index \cup {NoIndex}
    /\ saves \in SUBSET Index
    /\ wg \in Int

(***************************************************************************)
(* Who has been launched: nobody before the handler, then the positions    *)
(* the loop has passed.                                                    *)
(***************************************************************************)
Launching ==
    /\ main \in {"prepare", "run"} => handler = "off"
    /\ main \in {"loop", "slot"} => handler # "off"
    /\ main = "slot" => next < NumKeys
    /\ \A p \in Index : worker[p] # "idle" => p < next /\ handler # "off"
    /\ handler = "off" =>
         slots = 0 /\ Len(results) = 0 /\ processed = 0 /\ wg = 0

(***************************************************************************)
(* The books.  The WaitGroup counts the workers that are there and the     *)
(* handler: what makes the exit orderly.                                   *)
(***************************************************************************)
Counts ==
    /\ handler # "off" => slots + Cardinality(In(HoldingStates)) = NumWorkers
    /\ processed + Len(results) + Cardinality(In(UnsentStates))
         = Cardinality(In(LaunchedStates))
    /\ wg = Cardinality(In(PresentStates)) + One(handler, {"load", "receive"})

PoolInv == PoolTypes /\ Launching /\ Counts /\ ExitIsOrderly

(***************************************************************************)
(* Workers in given states can be counted.                                 *)
(***************************************************************************)
LEMMA Counted ==
    ASSUME NEW CONSTANT A
    PROVE  IsFiniteSet(In(A)) /\ Cardinality(In(A)) \in 0..NumKeys
<1>1. /\ IsFiniteSet(Index) /\ Cardinality(Index) = NumKeys
  BY FS_Interval, ApplicationAssumption DEF Index
<1>2. In(A) \in SUBSET Index
  BY DEF In
<1>3. IsFiniteSet(In(A)) /\ Cardinality(In(A)) <= NumKeys
  BY <1>1, <1>2, FS_Subset
<1>4. Cardinality(In(A)) \in Nat
  BY <1>3, FS_CardinalityType
<1> QED
  BY <1>3, <1>4, ApplicationAssumption

(***************************************************************************)
(* A worker that moves changes each count by itself alone.                 *)
(***************************************************************************)
LEMMA CountMoves ==
    ASSUME worker \in [Index -> WorkerStates], NEW p \in Index, NEW to,
           worker' = [worker EXCEPT ![p] = to], NEW CONSTANT A
    PROVE  Cardinality(In(A)')
             = Cardinality(In(A)) + One(to, A) - One(worker[p], A)
<1>1. IsFiniteSet(In(A)) /\ Cardinality(In(A)) \in Int
  BY Counted
<1>2. CASE to \in A /\ worker[p] \notin A
  <2>1. In(A)' = In(A) \cup {p} /\ p \notin In(A)
    BY <1>2 DEF In
  <2> QED
    BY <1>1, <1>2, <2>1, FS_AddElement DEF One
<1>3. CASE to \notin A /\ worker[p] \in A
  <2>1. In(A)' = In(A) \ {p} /\ p \in In(A)
    BY <1>3 DEF In
  <2>2. Cardinality(In(A)') = Cardinality(In(A)) - 1
    BY <1>1, <2>1, FS_RemoveElement
  <2>3. One(to, A) = 0 /\ One(worker[p], A) = 1
    BY <1>3 DEF One
  <2> QED
    BY <1>1, <2>2, <2>3
<1>4. CASE (to \in A) <=> (worker[p] \in A)
  <2>1. In(A)' = In(A)
    BY <1>4 DEF In
  <2> QED
    BY <1>1, <1>4, <2>1 DEF One
<1> QED
  BY <1>2, <1>3, <1>4

(***************************************************************************)
(* A worker on its way keeps the books if it changes slots, results and wg *)
(* as its move from one state to the next asks for.                        *)
(***************************************************************************)
LEMMA WorkerKeepsCounts ==
    ASSUME PoolTypes, Launching, Counts,
           NEW p \in Index, NEW from \in LaunchedStates, NEW to \in LaunchedStates,
           WorkerMoves(p, from, to),
           UNCHANGED <<main, first, next, handler, processed>>,
           slots' = slots + One(from, HoldingStates) - One(to, HoldingStates),
           Len(results') =
             Len(results) + One(from, UnsentStates) - One(to, UnsentStates),
           wg' = wg + One(to, PresentStates) - One(from, PresentStates)
    PROVE  Launching' /\ Counts' /\ ExitIsOrderly'
<1>1. /\ worker \in [Index -> WorkerStates] /\ worker[p] = from
      /\ worker' = [worker EXCEPT ![p] = to]
      /\ from # "idle" /\ Alive
  BY DEF PoolTypes, WorkerMoves, LaunchedStates
<1>2. /\ Cardinality(In(HoldingStates)')
           = Cardinality(In(HoldingStates)) + One(to, HoldingStates) - One(from, HoldingStates)
      /\ Cardinality(In(UnsentStates)')
           = Cardinality(In(UnsentStates)) + One(to, UnsentStates) - One(from, UnsentStates)
      /\ Cardinality(In(PresentStates)')
           = Cardinality(In(PresentStates)) + One(to, PresentStates) - One(from, PresentStates)
      /\ Cardinality(In(LaunchedStates)')
           = Cardinality(In(LaunchedStates)) + One(to, LaunchedStates) - One(from, LaunchedStates)
  BY <1>1, CountMoves
<1>3. One(to, LaunchedStates) = 1 /\ One(from, LaunchedStates) = 1
  BY DEF One
<1>4. /\ slots \in Int /\ wg \in Int /\ processed \in Int /\ Len(results) \in Int
      /\ Cardinality(In(HoldingStates)) \in Int /\ Cardinality(In(UnsentStates)) \in Int
      /\ Cardinality(In(PresentStates)) \in Int /\ Cardinality(In(LaunchedStates)) \in Int
      /\ One(from, HoldingStates) \in Int /\ One(to, HoldingStates) \in Int
      /\ One(from, UnsentStates) \in Int /\ One(to, UnsentStates) \in Int
      /\ One(from, PresentStates) \in Int /\ One(to, PresentStates) \in Int
      /\ One(handler, {"load", "receive"}) \in Int
  BY Counted DEF PoolTypes, One
<1>5. NumWorkers' = NumWorkers
  BY DEF NumWorkers, Smaller, TotalKeys
<1>6. Counts'
  <2> DEFINE h == Cardinality(In(HoldingStates))
             u == Cardinality(In(UnsentStates))
             w == Cardinality(In(PresentStates))
             l == Cardinality(In(LaunchedStates))
  <2>0. /\ h' = h + One(to, HoldingStates) - One(from, HoldingStates)
        /\ u' = u + One(to, UnsentStates) - One(from, UnsentStates)
        /\ w' = w + One(to, PresentStates) - One(from, PresentStates)
        /\ l' = l
        /\ h \in Int /\ u \in Int /\ w \in Int /\ l \in Int
    BY <1>2, <1>3, <1>4
  <2>1. /\ handler # "off" => slots + h = NumWorkers
        /\ processed + Len(results) + u = l
        /\ wg = w + One(handler, {"load", "receive"})
    BY DEF Counts
  <2> HIDE DEF h, u, w, l
  <2>2. ASSUME handler # "off" PROVE slots' + h' = NumWorkers
    <3>1. slots' = slots + One(from, HoldingStates) - One(to, HoldingStates)
      OBVIOUS
    <3>2. slots + h = NumWorkers
      BY <2>1, <2>2
    <3>3. h' = h + One(to, HoldingStates) - One(from, HoldingStates)
      BY <2>0
    <3>4. /\ slots \in Int /\ h \in Int
          /\ One(from, HoldingStates) \in Int /\ One(to, HoldingStates) \in Int
      BY <1>4, <2>0
    <3> QED
      BY <3>1, <3>2, <3>3, <3>4
  <2>3. processed + Len(results') + u' = l
    <3>1. Len(results')
            = Len(results) + One(from, UnsentStates) - One(to, UnsentStates)
      OBVIOUS
    <3>2. processed + Len(results) + u = l
      BY <2>1
    <3>3. u' = u + One(to, UnsentStates) - One(from, UnsentStates)
      BY <2>0
    <3>4. /\ processed \in Int /\ Len(results) \in Int /\ u \in Int
          /\ One(from, UnsentStates) \in Int /\ One(to, UnsentStates) \in Int
      BY <1>4, <2>0
    <3> QED
      BY <3>1, <3>2, <3>3, <3>4
  <2>4. wg' = w' + One(handler, {"load", "receive"})
    <3>1. wg' = wg + One(to, PresentStates) - One(from, PresentStates)
      OBVIOUS
    <3>2. wg = w + One(handler, {"load", "receive"})
      BY <2>1
    <3>3. w' = w + One(to, PresentStates) - One(from, PresentStates)
      BY <2>0
    <3>4. /\ wg \in Int /\ w \in Int /\ One(handler, {"load", "receive"}) \in Int
          /\ One(to, PresentStates) \in Int /\ One(from, PresentStates) \in Int
      BY <1>4, <2>0
    <3> QED
      BY <3>1, <3>2, <3>3, <3>4
  <2> QED
    BY <1>5, <2>0, <2>2, <2>3, <2>4 DEF Counts, h, u, w, l
<1>7. handler # "off" /\ p < next
  BY <1>1 DEF Launching
<1>8. Launching'
  BY <1>1, <1>7 DEF Launching
<1>9. ExitIsOrderly'
  BY <1>1 DEF ExitIsOrderly, Alive
<1> QED
  BY <1>6, <1>8, <1>9

(***************************************************************************)
(* What the books have in them leaves slots and wg within their bounds.    *)
(***************************************************************************)
LEMMA PoolInvImpliesTypeOK == PoolInv => TypeOK
<1> SUFFICES ASSUME PoolInv PROVE TypeOK
  OBVIOUS
<1>0. /\ NumKeys \in Nat \ {0} /\ MaxParallelWallets \in Int /\ MaxParallelWallets > 1
      /\ first \in 0..NumKeys /\ slots \in Nat /\ wg \in Int
  BY ApplicationAssumption, ParallelAssumption
  DEF PoolInv, PoolTypes, AppTypeOK, Sequential
<1>1. slots \in 0..MaxParallelWallets
  <2>1. CASE handler = "off"
    BY <1>0, <2>1 DEF PoolInv, Launching
  <2>2. CASE handler # "off"
    <3>1. /\ Cardinality(In(HoldingStates)) \in 0..NumKeys
          /\ slots + Cardinality(In(HoldingStates)) = NumWorkers
      BY <2>2, Counted DEF PoolInv, Counts
    <3>2. NumWorkers \in Int /\ NumWorkers <= MaxParallelWallets
      BY <1>0 DEF NumWorkers, Smaller, TotalKeys
    <3> QED
      BY <1>0, <3>1, <3>2
  <2> QED
    BY <2>1, <2>2
<1>2. wg \in 0..(NumKeys + 1)
  <2>1. /\ Cardinality(In(PresentStates)) \in 0..NumKeys
        /\ wg = Cardinality(In(PresentStates)) + One(handler, {"load", "receive"})
    BY Counted DEF PoolInv, Counts
  <2>2. One(handler, {"load", "receive"}) \in 0..1
    BY DEF One
  <2> QED
    BY <1>0, <2>1, <2>2
<1> QED
  BY <1>1, <1>2 DEF PoolInv, PoolTypes, TypeOK

(***************************************************************************)
(* Every step keeps the types.                                             *)
(***************************************************************************)
LEMMA PoolTypesInductive == PoolInv /\ [Next]_vars => PoolTypes'
<1> SUFFICES ASSUME PoolInv, [Next]_vars PROVE PoolTypes'
  OBVIOUS
<1> USE DEF PoolInv, PoolTypes, AppTypeOK, appVars, poolVars, handlerVars, storageVars
<1>0. /\ NumKeys \in Nat \ {0} /\ Index = 0..(NumKeys - 1)
      /\ MainStates = {"prepare", "run", "loop", "slot", "process", "save",
           "pause", "stopped", "wait", "exited", "crashed"}
      /\ HandlerStates = {"off", "load", "receive", "gone"}
  BY ApplicationAssumption DEF Index, MainStates, HandlerStates
<1>1. CASE Prepare /\ UNCHANGED <<poolVars, handlerVars, wg>>
  <2>1. PICK l \in LastCompleted(cancelled) :
          /\ first' = ResumeFrom(l)
          /\ next' = ResumeFrom(l)
          /\ wallets' \in Orders(l)
          /\ main' = IF ResumeFrom(l) < NumKeys THEN "run" ELSE "wait"
    BY <1>1 DEF Prepare
  <2>2. ResumeFrom(l) \in 0..NumKeys
    BY LastCompletedIsSavedOrNone, ResumeFromBehind
  <2>3. wallets' \in [Index -> Index]
    BY <2>1, OrdersAreLists
  <2> QED
    BY <1>0, <1>1, <2>1, <2>2, <2>3 DEF Prepare
<1>2. CASE StartParallel
  <2>1. NumWorkers \in Nat
    BY <1>0, ApplicationAssumption, ParallelAssumption
    DEF NumWorkers, Smaller, TotalKeys, Sequential
  <2>2. /\ slots' \in Nat /\ wg' \in Int /\ handler' \in HandlerStates
        /\ main' \in MainStates
    BY <1>0, <1>2, <2>1 DEF StartParallel, MainMoves
  <2>3. UNCHANGED <<session, wallets, first, next, cancelled, shutdown, completed,
                    storeOpen, saved, worker, failed, panicking, results, processed,
                    highest, saves>>
    BY <1>2 DEF StartParallel, MainMoves
  <2> QED
    BY <2>2, <2>3
<1>3. CASE LaunchLoop \/ AbandonSlot \/ Exit
  BY <1>0, <1>3 DEF LaunchLoop, AbandonSlot, Exit, MainMoves
<1>4. CASE AcquireSlot
  <2>1. next' \in 0..NumKeys /\ next \in Index
    BY <1>0, <1>4 DEF AcquireSlot, MainMoves, Launching
  <2>2. slots' \in Nat /\ wg' \in Int /\ main' \in MainStates
    BY <1>0, <1>4 DEF AcquireSlot, SlotFree, MainMoves
  <2>4. UNCHANGED <<session, wallets, first, cancelled, shutdown, completed, storeOpen,
                    saved, failed, panicking, results, handler, processed, highest, saves>>
    BY <1>4 DEF AcquireSlot, MainMoves
  <2>3. worker' \in [Index -> WorkerStates]
    BY <1>4, <2>1 DEF AcquireSlot, WorkerStates
  <2> QED
    BY <2>1, <2>2, <2>3, <2>4
<1>5. ASSUME NEW p \in Index, WorkerStep(p) PROVE PoolTypes'
  <2> USE DEF WorkerMoves
  <2>1. CASE WorkerStart(p) \/ ProcessFails(p) \/ ProcessPanics(p) \/ PauseEnds(p)
    <3>1. worker' \in [Index -> WorkerStates]
      BY <2>1
      DEF WorkerStart, ProcessFails, ProcessPanics, PauseEnds, WorkerStates
    <3>2. failed' \in SUBSET Index /\ panicking' \in SUBSET Index
      BY <1>5, <2>1
      DEF WorkerStart, ProcessFails, FailedAfter, ProcessPanics, PauseEnds
    <3>3. UNCHANGED <<appVars, slots, results, handlerVars, wg>>
      BY <2>1 DEF WorkerStart, ProcessFails, ProcessPanics, PauseEnds
    <3> QED
      BY <3>1, <3>2, <3>3
  <2>2. CASE ProcessOk(p)
    <3>1. Address(p) \in Addresses
      BY <1>0, ApplicationAssumption DEF Address, Addresses, Range
    <3>2. worker' \in [Index -> WorkerStates]
      BY <2>2 DEF ProcessOk, WorkerStates
    <3> QED
      BY <1>0, <2>2, <3>1, <3>2 DEF ProcessOk
  <2>3. CASE SendResult(p)
    <3>1. [pos |-> p, err |-> p \in failed] \in Result
      BY DEF Result
    <3>2. results' \in Seq(Result)
      BY <2>3, <3>1 DEF SendResult, Publish
    <3>3. worker' \in [Index -> WorkerStates]
      BY <2>3 DEF SendResult, WorkerStates
    <3> QED
      BY <1>0, <2>3, <3>2, <3>3 DEF SendResult
  <2>4. CASE ReleaseSlot(p)
    <3>1. worker' \in [Index -> WorkerStates] /\ slots' \in Nat
      BY <2>4 DEF ReleaseSlot, Returned, WorkerStates
    <3> QED
      BY <1>0, <2>4, <3>1 DEF ReleaseSlot
  <2>5. CASE WorkerDone(p)
    <3>1. worker' \in [Index -> WorkerStates] /\ wg' \in Int
      BY <2>5 DEF WorkerDone, WorkerStates
    <3> QED
      BY <1>0, <2>5, <3>1 DEF WorkerDone
  <2>6. CASE PanicCrash(p)
    BY <1>0, <2>6 DEF PanicCrash
  <2> QED
    BY <1>5, <2>1, <2>2, <2>3, <2>4, <2>5, <2>6 DEF WorkerStep
<1>6. CASE HandlerLoad
  <2>1. highest' \in Index \cup {NoIndex}
    BY <1>6, LastCompletedIsSavedOrNone DEF HandlerLoad, LoadedIndices
  <2> QED
    BY <1>0, <1>6, <2>1 DEF HandlerLoad, HandlerMoves
<1>7. CASE HandlerReceive
  <2>1. results' \in Seq(Result) /\ Head(results) \in Result
    BY <1>7 DEF HandlerReceive
  <2>2. OriginalIndex(Head(results).pos) \in Index
    BY <2>1, OriginalIndexFirst DEF Result
  <2>3. highest' \in Index \cup {NoIndex} /\ saves' \in SUBSET Index
    BY <1>7, <2>2 DEF HandlerReceive
  <2>4. processed' \in 0..NumKeys
    BY <1>0, <1>7 DEF HandlerReceive, TotalKeys
  <2> QED
    BY <1>0, <1>7, <2>1, <2>3, <2>4 DEF HandlerReceive, HandlerMoves
<1>8. CASE HandlerFinished \/ HandlerCancelled
  <2>1. /\ handler' \in HandlerStates /\ wg' \in Int
        /\ UNCHANGED <<appVars, worker, failed, panicking, slots, results, processed,
                       highest, saves>>
    BY <1>0, <1>8 DEF HandlerFinished, HandlerCancelled, HandlerLeaves, HandlerMoves
  <2> QED
    BY <2>1
<1>9. ASSUME NEW v \in saves, SaveHighest(v) PROVE PoolTypes'
  <2>1. saves' \in SUBSET Index /\ saved' \in Index \cup {NoIndex} /\ storeOpen' = storeOpen
    BY <1>9 DEF SaveHighest, SetState, SetStateFails
  <2>2. UNCHANGED <<session, main, wallets, first, next, cancelled, shutdown, completed,
                    poolVars, handler, processed, highest, wg>>
    BY <1>9 DEF SaveHighest
  <2> QED
    BY <2>1, <2>2
<1>10. CASE ShutdownStep \/ Environment
  <2>1. /\ UNCHANGED <<session, wallets, first, next, completed, saved, poolVars,
                         handlerVars, wg>>
        /\ cancelled' \in BOOLEAN /\ storeOpen' \in BOOLEAN
        /\ shutdown' \in {"armed", "closing", "done"} /\ main' \in MainStates
    BY <1>0, <1>10
    DEF ShutdownStep, Environment, CloseResources, CloseStore, Signal, Killed
  <2> QED
    BY <2>1
<1>11. CASE Restart
  <2>1. FileOrder \in [Index -> Index] /\ worker' \in [Index -> WorkerStates]
    BY <1>11 DEF FileOrder, Restart, WorkerStates
  <2>2. session' \in 1..MaxSessions
    BY <1>11, ApplicationAssumption DEF Restart, Reboot
  <2>3. main' \in MainStates /\ 0 \in 0..NumKeys
    BY <1>0, <1>11 DEF Restart, Reboot
  <2>4. /\ results' \in Seq(Result) /\ handler' \in HandlerStates /\ wg' \in Int
        /\ slots' \in Nat /\ failed' = {} /\ panicking' = {} /\ saves' = {}
        /\ processed' = 0 /\ highest' = NoIndex
    BY <1>0, <1>11 DEF Restart
  <2>5. /\ wallets' = FileOrder /\ first' = 0 /\ next' = 0 /\ shutdown' = "armed"
        /\ cancelled' \in BOOLEAN /\ storeOpen' \in BOOLEAN
        /\ UNCHANGED <<completed, saved>>
    BY <1>11 DEF Restart, Reboot, ReopenStore
  <2> QED
    BY <2>1, <2>2, <2>3, <2>4, <2>5
<1>12. CASE UNCHANGED vars
  BY <1>12 DEF vars
<1> HIDE DEF PoolInv, PoolTypes, AppTypeOK, appVars, poolVars, handlerVars, storageVars
<1> QED
  BY <1>1, <1>2, <1>3, <1>4, <1>5, <1>6, <1>7, <1>8, <1>9, <1>10, <1>11, <1>12
  DEF Next, GoroutineStep, MainStep, HandlerStep

(***************************************************************************)
(* A step that moves neither the workers nor their books keeps them.       *)
(***************************************************************************)
LEMMA BooksKept ==
    ASSUME PoolInv,
           UNCHANGED <<worker, slots, results, handler, processed, first, next, wg>>,
           main' \in {main, "crashed"}
    PROVE  (Launching /\ Counts /\ ExitIsOrderly)'
BY DEF PoolInv, Launching, Counts, ExitIsOrderly, In, NumWorkers, Smaller, TotalKeys, Present

(***************************************************************************)
(* Every step keeps the books.                                             *)
(***************************************************************************)
LEMMA BooksInductive ==
    PoolInv /\ [Next]_vars => (Launching /\ Counts /\ ExitIsOrderly)'
<1> SUFFICES ASSUME PoolInv, [Next]_vars PROVE (Launching /\ Counts /\ ExitIsOrderly)'
  OBVIOUS
<1> USE DEF appVars, poolVars, handlerVars, storageVars
<1>0. /\ NumKeys \in Nat \ {0} /\ Index = 0..(NumKeys - 1)
      /\ worker \in [Index -> WorkerStates] /\ next \in 0..NumKeys /\ slots \in Nat
      /\ wg \in Int /\ processed \in Int /\ Len(results) \in Nat
      /\ results \in Seq(Result) /\ handler \in HandlerStates
      /\ PoolTypes /\ Launching /\ Counts /\ ExitIsOrderly
  <2>1. PoolTypes /\ Launching /\ Counts /\ ExitIsOrderly
    BY DEF PoolInv
  <2>2. /\ worker \in [Index -> WorkerStates] /\ next \in 0..NumKeys /\ slots \in Nat
        /\ wg \in Int /\ processed \in 0..NumKeys /\ results \in Seq(Result)
        /\ handler \in HandlerStates
    BY <2>1 DEF PoolTypes, AppTypeOK
  <2>3. Len(results) \in Nat /\ processed \in Int
    BY <2>2, ApplicationAssumption
  <2> QED
    BY <2>1, <2>2, <2>3, ApplicationAssumption DEF Index
<1>1. CASE Prepare /\ UNCHANGED <<poolVars, handlerVars, wg>>
  <2>1. main = "prepare" /\ main' \in {"run", "wait"} /\ handler = "off" /\ handler' = "off"
    BY <1>0, <1>1 DEF Prepare, Launching
  <2>2. UNCHANGED <<worker, slots, results, processed, wg>>
    BY <1>1
  <2>3. \A p \in Index : worker[p] = "idle"
    BY <1>0, <2>1 DEF Launching
  <2>4. Launching' /\ ExitIsOrderly'
    BY <1>0, <2>1, <2>2, <2>3 DEF Launching, ExitIsOrderly
  <2>5. Counts'
    BY <1>0, <2>1, <2>2 DEF Counts, In
  <2> QED
    BY <2>4, <2>5
<1>2. CASE StartParallel
  <2>1. /\ main = "run" /\ main' = "loop" /\ handler = "off" /\ handler' = "load"
        /\ slots' = NumWorkers /\ wg = 0 /\ wg' = 1
        /\ UNCHANGED <<worker, results, processed, first, next>>
    BY <1>0, <1>2 DEF StartParallel, MainMoves, Launching
  <2>2. \A p \in Index : worker[p] = "idle"
    BY <1>0, <2>1 DEF Launching
  <2>3. /\ In(HoldingStates)' = {} /\ In(PresentStates)' = {}
        /\ UNCHANGED <<In(UnsentStates), In(LaunchedStates)>>
    BY <2>1, <2>2 DEF In, HoldingStates, PresentStates
  <2>4. One(handler', {"load", "receive"}) = 1
    BY <2>1 DEF One
  <2>5. NumWorkers' = NumWorkers /\ NumWorkers \in Int
    BY <1>0, <2>1, ApplicationAssumption
    DEF NumWorkers, Smaller, TotalKeys, PoolTypes, AppTypeOK
  <2>6. Counts'
    BY <1>0, <2>1, <2>3, <2>4, <2>5, FS_EmptySet DEF Counts
  <2>7. Launching' /\ ExitIsOrderly'
    BY <1>0, <2>1, <2>2 DEF Launching, ExitIsOrderly
  <2> QED
    BY <2>6, <2>7
<1>3. CASE LaunchLoop \/ AbandonSlot
  <2>1. /\ main \in {"loop", "slot"} /\ main' \in {"slot", "wait"}
        /\ main' = "slot" => next < NumKeys
        /\ UNCHANGED <<worker, slots, results, handler, processed, first, next, wg>>
    BY <1>0, <1>3 DEF LaunchLoop, AbandonSlot, MainMoves
  <2> QED
    BY <1>0, <2>1
    DEF Launching, Counts, ExitIsOrderly, In, NumWorkers, Smaller, TotalKeys
<1>4. CASE AcquireSlot
  <2>1. /\ main = "slot" /\ main' = "loop" /\ next < NumKeys /\ handler # "off"
        /\ slots > 0 /\ slots' = slots - 1 /\ wg' = wg + 1 /\ next' = next + 1
        /\ worker' = [worker EXCEPT ![next] = "start"]
        /\ UNCHANGED <<results, handler, processed, first>>
    BY <1>0, <1>4 DEF AcquireSlot, SlotFree, MainMoves, Launching
  <2>2. next \in Index
    BY <1>0, <2>1
  <2>3. worker[next] = "idle"
    BY <1>0, <2>2 DEF Launching
  <2>4. /\ Cardinality(In(HoldingStates)') = Cardinality(In(HoldingStates)) + 1
        /\ Cardinality(In(UnsentStates)') = Cardinality(In(UnsentStates)) + 1
        /\ Cardinality(In(PresentStates)') = Cardinality(In(PresentStates)) + 1
        /\ Cardinality(In(LaunchedStates)') = Cardinality(In(LaunchedStates)) + 1
    <3>1. /\ One("start", HoldingStates) = 1 /\ One("idle", HoldingStates) = 0
          /\ One("start", UnsentStates) = 1 /\ One("idle", UnsentStates) = 0
          /\ One("start", PresentStates) = 1 /\ One("idle", PresentStates) = 0
          /\ One("start", LaunchedStates) = 1 /\ One("idle", LaunchedStates) = 0
      BY DEF One, HoldingStates, UnsentStates, PresentStates, LaunchedStates, WorkerStates
    <3>2. /\ Cardinality(In(HoldingStates)) \in Int /\ Cardinality(In(UnsentStates)) \in Int
          /\ Cardinality(In(PresentStates)) \in Int /\ Cardinality(In(LaunchedStates)) \in Int
      BY Counted
    <3>3. /\ Cardinality(In(HoldingStates)') =
               Cardinality(In(HoldingStates)) + One("start", HoldingStates)
                 - One("idle", HoldingStates)
          /\ Cardinality(In(UnsentStates)') =
               Cardinality(In(UnsentStates)) + One("start", UnsentStates)
                 - One("idle", UnsentStates)
          /\ Cardinality(In(PresentStates)') =
               Cardinality(In(PresentStates)) + One("start", PresentStates)
                 - One("idle", PresentStates)
          /\ Cardinality(In(LaunchedStates)') =
               Cardinality(In(LaunchedStates)) + One("start", LaunchedStates)
                 - One("idle", LaunchedStates)
      BY <1>0, <2>1, <2>2, <2>3, CountMoves
    <3> QED
      BY <3>1, <3>2, <3>3
  <2>5. Launching'
    BY <1>0, <2>1, <2>2 DEF Launching
  <2>6. Counts'
    <3>1. /\ Cardinality(In(HoldingStates)) \in Int /\ Cardinality(In(UnsentStates)) \in Int
          /\ Cardinality(In(PresentStates)) \in Int /\ Cardinality(In(LaunchedStates)) \in Int
          /\ One(handler, {"load", "receive"}) \in Int
      BY Counted DEF One
    <3>2. NumWorkers' = NumWorkers
      BY <2>1 DEF NumWorkers, Smaller, TotalKeys
    <3>3. slots' + Cardinality(In(HoldingStates)') = NumWorkers
      BY <1>0, <2>1, <2>4, <3>1 DEF Counts
    <3>4. processed + Len(results) + Cardinality(In(UnsentStates)')
            = Cardinality(In(LaunchedStates)')
      BY <1>0, <2>4, <3>1 DEF Counts
    <3>5. wg' = Cardinality(In(PresentStates)') + One(handler, {"load", "receive"})
      BY <1>0, <2>1, <2>4, <3>1 DEF Counts
    <3> QED
      BY <2>1, <3>2, <3>3, <3>4, <3>5 DEF Counts
  <2>7. ExitIsOrderly'
    BY <2>1 DEF ExitIsOrderly
  <2> QED
    BY <2>5, <2>6, <2>7
<1>5. CASE Exit
  <2>1. /\ main = "wait" /\ main' = "exited" /\ wg = 0
        /\ UNCHANGED <<worker, slots, results, handler, processed, first, next, wg>>
    BY <1>5 DEF Exit, AllDone, MainMoves
  <2>2. Launching' /\ Counts'
    BY <1>0, <2>1 DEF Launching, Counts, In, NumWorkers, Smaller, TotalKeys
  <2>3. /\ Cardinality(In(PresentStates)) \in Nat /\ IsFiniteSet(In(PresentStates))
        /\ One(handler, {"load", "receive"}) \in Nat
        /\ 0 = Cardinality(In(PresentStates)) + One(handler, {"load", "receive"})
    BY <1>0, <2>1, Counted DEF Counts, One
  <2>4. Cardinality(In(PresentStates)) = 0 /\ One(handler, {"load", "receive"}) = 0
    BY <2>3
  <2>5. In(PresentStates) = {}
    BY <2>3, <2>4, FS_EmptySet
  <2>6. handler \in {"off", "gone"}
    BY <1>0, <2>4 DEF One, HandlerStates
  <2>7. Present = {}
    BY <1>0, <2>5 DEF Present, In, PresentStates
  <2>8. ExitIsOrderly'
    BY <2>1, <2>6, <2>7 DEF ExitIsOrderly, Present
  <2> QED
    BY <2>2, <2>8
<1>6. ASSUME NEW p \in Index, WorkerStep(p) PROVE (Launching /\ Counts /\ ExitIsOrderly)'
  <2> USE DEF WorkerMoves
  <2> DEFINE Books(from, to) ==
        /\ WorkerMoves(p, from, to)
        /\ UNCHANGED <<main, first, next, handler, processed>>
        /\ slots' = slots + One(from, HoldingStates) - One(to, HoldingStates)
        /\ Len(results') = Len(results) + One(from, UnsentStates) - One(to, UnsentStates)
        /\ wg' = wg + One(to, PresentStates) - One(from, PresentStates)
  <2>0. \A from, to \in LaunchedStates :
          Books(from, to) => (Launching /\ Counts /\ ExitIsOrderly)'
    BY <1>0, WorkerKeepsCounts
  <2> HIDE DEF Books
  <2>1. {"start", "process", "pause", "send", "release", "leave", "gone", "unwound"}
          \subseteq LaunchedStates
    BY DEF LaunchedStates, WorkerStates
  <2> USE DEF One, HoldingStates, UnsentStates, PresentStates, WorkerStates
  <2>2. CASE WorkerStart(p)
    <3>1. CASE SkipsWallet
      <4>1. Books("start", "send")
        BY <1>0, <2>2, <3>1 DEF WorkerStart, Books
      <4> QED
        BY <2>0, <2>1, <4>1
    <3>2. CASE ~SkipsWallet
      <4>1. Books("start", "process")
        BY <1>0, <2>2, <3>2 DEF WorkerStart, Books
      <4> QED
        BY <2>0, <2>1, <4>1
    <3> QED
      BY <3>1, <3>2
  <2>3. CASE ProcessOk(p)
    <3>1. Books("process", "pause")
      BY <1>0, <2>3 DEF ProcessOk, Books
    <3> QED
      BY <2>0, <2>1, <3>1
  <2>4. CASE ProcessFails(p) \/ ProcessPanics(p)
    <3>1. Books("process", "send")
      BY <1>0, <2>4 DEF ProcessFails, ProcessPanics, Books
    <3> QED
      BY <2>0, <2>1, <3>1
  <2>5. CASE PauseEnds(p)
    <3>1. Books("pause", "send")
      BY <1>0, <2>5 DEF PauseEnds, Books
    <3> QED
      BY <2>0, <2>1, <3>1
  <2>6. CASE SendResult(p)
    <3>1. [pos |-> p, err |-> p \in failed] \in Result
      BY DEF Result
    <3>2. Len(results') = Len(results) + 1
      BY <1>0, <2>6, <3>1 DEF SendResult, Publish
    <3>3. Books("send", "release")
      BY <1>0, <2>6, <3>2 DEF SendResult, Books
    <3> QED
      BY <2>0, <2>1, <3>3
  <2>7. CASE ReleaseSlot(p)
    <3>1. Books("release", "leave")
      BY <1>0, <2>7 DEF ReleaseSlot, Returned, Books
    <3> QED
      BY <2>0, <2>1, <3>1
  <2>8. CASE WorkerDone(p)
    <3>1. CASE p \in panicking
      <4>1. Books("leave", "unwound")
        BY <1>0, <2>8, <3>1 DEF WorkerDone, Books
      <4> QED
        BY <2>0, <2>1, <4>1
    <3>2. CASE p \notin panicking
      <4>1. Books("leave", "gone")
        BY <1>0, <2>8, <3>2 DEF WorkerDone, Books
      <4> QED
        BY <2>0, <2>1, <4>1
    <3> QED
      BY <3>1, <3>2
  <2>9. CASE PanicCrash(p)
    BY <2>9, BooksKept DEF PanicCrash
  <2> QED
    BY <1>6, <2>2, <2>3, <2>4, <2>5, <2>6, <2>7, <2>8, <2>9 DEF WorkerStep
<1>7. CASE HandlerStep
  <2>1. /\ Alive /\ main' = main /\ handler # "off" /\ handler' # "off"
        /\ UNCHANGED <<worker, slots, first, next>>
    BY <1>7
    DEF HandlerStep, HandlerLoad, HandlerReceive, HandlerFinished, HandlerCancelled,
        HandlerLeaves, HandlerMoves
  <2>2. Launching' /\ ExitIsOrderly'
    BY <1>0, <2>1 DEF Launching, ExitIsOrderly, Alive
  <2>3. /\ NumWorkers' = NumWorkers
        /\ UNCHANGED <<In(HoldingStates), In(UnsentStates), In(PresentStates),
                       In(LaunchedStates)>>
    BY <2>1 DEF NumWorkers, Smaller, TotalKeys, In
  <2>4. processed' + Len(results') = processed + Len(results)
    <3>1. CASE HandlerReceive
      <4>1. Len(results') = Len(results) - 1 /\ processed' = processed + 1
        BY <1>0, <3>1 DEF HandlerReceive
      <4> QED
        BY <1>0, <4>1
    <3>2. CASE HandlerLoad \/ HandlerFinished \/ HandlerCancelled
      BY <3>2 DEF HandlerLoad, HandlerFinished, HandlerCancelled, HandlerLeaves
    <3> QED
      BY <1>7, <3>1, <3>2 DEF HandlerStep
  <2>6. wg' = Cardinality(In(PresentStates)) + One(handler', {"load", "receive"})
    BY <1>0, <1>7, Counted
    DEF HandlerStep, HandlerLoad, HandlerReceive, HandlerFinished, HandlerCancelled,
        HandlerLeaves, HandlerMoves, One, Counts
  <2>7. Counts'
    BY <1>0, <2>1, <2>3, <2>4, <2>6 DEF Counts
  <2> QED
    BY <2>2, <2>7
<1>8. ASSUME NEW v \in saves, SaveHighest(v) PROVE (Launching /\ Counts /\ ExitIsOrderly)'
  BY <1>8, BooksKept DEF SaveHighest
<1>9. CASE ShutdownStep \/ Environment
  BY <1>9, BooksKept
  DEF ShutdownStep, Environment, CloseResources, Signal, Killed
<1>10. CASE Restart
  <2>1. /\ main' = "prepare" /\ handler' = "off" /\ slots' = 0 /\ Len(results') = 0
        /\ processed' = 0 /\ wg' = 0 /\ \A p \in Index : worker'[p] = "idle"
    BY <1>10 DEF Restart, Reboot
  <2>2. /\ In(UnsentStates)' = {} /\ In(LaunchedStates)' = {} /\ In(PresentStates)' = {}
    BY <2>1 DEF In, UnsentStates, LaunchedStates, PresentStates
  <2>3. Counts'
    BY <2>1, <2>2, FS_EmptySet DEF Counts, One
  <2> QED
    BY <2>1, <2>3 DEF Launching, ExitIsOrderly
<1>11. CASE UNCHANGED vars
  BY <1>11, BooksKept DEF vars
<1> HIDE DEF appVars, poolVars, handlerVars, storageVars
<1> QED
  BY <1>1, <1>2, <1>3, <1>4, <1>5, <1>6, <1>7, <1>8, <1>9, <1>10, <1>11 DEF Next, GoroutineStep, MainStep

(***************************************************************************)
(* The books are in order before the first step, and after every one.      *)
(***************************************************************************)
LEMMA PoolInvInitially == Init => PoolInv
<1> SUFFICES ASSUME Init PROVE PoolInv
  OBVIOUS
<1> USE DEF Init, AppInit, PoolInit, StorageInit
<1>0. NumKeys \in Nat \ {0} /\ MaxSessions \in Nat \ {0}
  BY ApplicationAssumption
<1>1. AppTypeOK
  <2>1. wallets \in [Index -> Index] /\ session \in 1..MaxSessions /\ main \in MainStates
    BY <1>0 DEF FileOrder, MainStates
  <2>2. cancelled \in BOOLEAN /\ storeOpen \in BOOLEAN
    OBVIOUS
  <2>3. /\ first \in 0..NumKeys /\ next \in 0..NumKeys /\ completed \in SUBSET Addresses
        /\ shutdown \in {"armed", "closing", "done"} /\ saved \in Index \cup {NoIndex}
    BY <1>0
  <2> QED
    BY <2>1, <2>2, <2>3 DEF AppTypeOK
<1>2. PoolTypes
  <2>1. worker \in [Index -> WorkerStates] /\ results \in Seq(Result)
    BY DEF WorkerStates
  <2>2. handler \in HandlerStates /\ slots \in Nat /\ wg \in Int /\ processed \in 0..NumKeys
    BY <1>0 DEF HandlerStates
  <2> QED
    BY <1>1, <2>1, <2>2 DEF PoolTypes
<1>3. Launching /\ ExitIsOrderly
  BY DEF Launching, ExitIsOrderly
<1>4. In(UnsentStates) = {} /\ In(LaunchedStates) = {} /\ In(PresentStates) = {}
  BY DEF In, UnsentStates, LaunchedStates, PresentStates
<1>5. Counts
  BY <1>4, FS_EmptySet DEF Counts, One
<1> QED
  BY <1>2, <1>3, <1>5 DEF PoolInv

LEMMA PoolInvInductive == PoolInv /\ [Next]_vars => PoolInv'
BY PoolTypesInductive, BooksInductive DEF PoolInv

(***************************************************************************)
(* The variables keep their types: no more tokens than workers, no more    *)
(* waited for than there are goroutines.                                   *)
(***************************************************************************)
THEOREM ParallelTypeCorrect == Spec => []TypeOK
BY PoolInvInitially, PoolInvInductive, PoolInvImpliesTypeOK, PTL DEF Spec

(***************************************************************************)
(* No slot is lost or invented, whatever panics or is cancelled.           *)
(***************************************************************************)
THEOREM SlotsAreKept == Spec => []SlotAccounting
<1>1. PoolInv => SlotAccounting
  <2> SUFFICES ASSUME PoolInv PROVE SlotAccounting
    OBVIOUS
  <2>1. In(HoldingStates) = Holding
    BY DEF In, HoldingStates, Holding
  <2> QED
    BY <2>1 DEF PoolInv, Counts, SlotAccounting, Started
<1> QED
  BY <1>1, PoolInvInitially, PoolInvInductive, PTL DEF Spec

(***************************************************************************)
(* Each launched worker's result is in exactly one place.                  *)
(***************************************************************************)
THEOREM ResultsAreKept == Spec => []ResultAccounting
<1>1. PoolInv => ResultAccounting
  <2> SUFFICES ASSUME PoolInv PROVE ResultAccounting
    OBVIOUS
  <2>1. In(UnsentStates) = Unsent
    BY DEF In, UnsentStates, Unsent
  <2>2. In(LaunchedStates) = Launched
    BY DEF In, LaunchedStates, Launched, PoolInv, PoolTypes
  <2> QED
    BY <2>1, <2>2 DEF PoolInv, Counts, ResultAccounting
<1> QED
  BY <1>1, PoolInvInitially, PoolInvInductive, PTL DEF Spec

(***************************************************************************)
(* main leaves wg.Wait only when every worker and the handler have left.   *)
(***************************************************************************)
THEOREM ExitWaitsForAll == Spec => []ExitIsOrderly
<1>1. PoolInv => ExitIsOrderly
  BY DEF PoolInv
<1> QED
  BY <1>1, PoolInvInitially, PoolInvInductive, PTL DEF Spec
=============================================================================
