---------------------------- MODULE SequentialRun ----------------------------
(***************************************************************************)
(* The program with max_parallel_wallets <= 1: the main goroutine works    *)
(* through the wallets itself (app_sequential.go).  One step per point at  *)
(* which the shutdown goroutine, a database error or the end of the        *)
(* process can make a difference; over several starts of the program.      *)
(***************************************************************************)
EXTENDS Application

ASSUME SequentialAssumption == Sequential

VARIABLE last   \* lastCompletedIndex, runSequentially's own reading

vars == <<appVars, last>>

TypeOK == AppTypeOK /\ last \in Index \cup {NoIndex}

Init == AppInit /\ last = NoIndex

(***************************************************************************)
(* runSequentially reads the row a second time, under a context of its own.*)
(***************************************************************************)
SeqLoad ==
    /\ main = "run"
    /\ last' \in LastCompleted(FALSE)
    /\ main' = "loop"
    /\ UNCHANGED <<session, wallets, first, next, cancelled, shutdown,
                   completed, storageVars>>

AlreadyProcessed(p) == ResumeEnabled /\ OriginalIndex(p) <= last

SeqSkip ==
    /\ main = "loop"
    /\ next < NumKeys
    /\ AlreadyProcessed(next)
    /\ next' = next + 1
    /\ UNCHANGED <<session, main, wallets, first, cancelled, shutdown,
                   completed, storageVars, last>>

(***************************************************************************)
(* The check of the context at the head of the loop.                       *)
(***************************************************************************)
\* A bug: the context is not looked at.
BeginsAnyway == TRUE

MayBegin == ~cancelled

SeqBegin ==
    /\ main = "loop"
    /\ next < NumKeys
    /\ ~AlreadyProcessed(next)
    /\ main' = IF MayBegin THEN "process" ELSE "wait"
    /\ UNCHANGED <<session, wallets, first, next, cancelled, shutdown,
                   completed, storageVars, last>>

SeqFinished ==
    /\ main = "loop"
    /\ next = NumKeys
    /\ main' = "wait"
    /\ UNCHANGED <<session, wallets, first, next, cancelled, shutdown,
                   completed, storageVars, last>>

(***************************************************************************)
(* processSingleWalletSequentially.  Process may succeed or fail whether   *)
(* or not the context is done: it also fails on a task's own error, and    *)
(* succeeds on a wallet for which no task is selected.                     *)
(***************************************************************************)
\* A bug: the loop does not go on to the next wallet.
RepeatsWallet == "loop"

AfterSuccess == IF ResumeEnabled THEN "save" ELSE "pause"

SeqProcessOk ==
    /\ main = "process"
    /\ completed' = completed \cup {Address(next)}
    /\ main' = AfterSuccess
    /\ UNCHANGED <<session, wallets, first, next, cancelled, shutdown,
                   storageVars, last>>

\* A bug: a failed wallet does not end the run.
GoesOnAfterFailure == "pause"

AfterFailure == "stopped"

SeqProcessFails ==
    /\ main = "process"
    /\ main' = AfterFailure
    /\ UNCHANGED <<session, wallets, first, next, cancelled, shutdown,
                   completed, storageVars, last>>

(***************************************************************************)
(* A panic in a task reaches main's recover, which calls os.Exit(1).       *)
(***************************************************************************)
SeqProcessPanics ==
    /\ TaskMayPanic
    /\ main = "process"
    /\ main' = "crashed"
    /\ UNCHANGED <<session, wallets, first, next, cancelled, shutdown,
                   completed, storageVars, last>>

\* Two bugs: the index to resume from is recorded, or the index in this run.
RecordsNextIndex(p) == OriginalIndex(p) + 1
RecordsIndexInRun(p) == p - first

RecordedIndex(p) == OriginalIndex(p)

SeqSave ==
    /\ main = "save"
    /\ SetState(RecordedIndex(next)) \/ SetStateFails
    /\ main' = "pause"
    /\ UNCHANGED <<session, wallets, first, next, cancelled, shutdown,
                   completed, last>>

(***************************************************************************)
(* The pause before the next wallet, if there is one: it ends by the timer *)
(* (or is zero, or misconfigured) or by the context.  A draw that panics   *)
(* is this pause with Killed after it.                                     *)
(***************************************************************************)
SeqPauseEnds ==
    /\ main = "pause"
    /\ main' = "loop"
    /\ next' = next + 1
    /\ UNCHANGED <<session, wallets, first, cancelled, shutdown,
                   completed, storageVars, last>>

SeqPauseInterrupted ==
    /\ main = "pause"
    /\ next < NumKeys - 1
    /\ cancelled
    /\ main' = "stopped"
    /\ UNCHANGED <<session, wallets, first, next, cancelled, shutdown,
                   completed, storageVars, last>>

(***************************************************************************)
(* wg.Wait passes at once: nothing was added to the group in this mode.    *)
(***************************************************************************)
Exit ==
    /\ main \in {"wait", "stopped"}
    /\ main' = "exited"
    /\ UNCHANGED <<session, wallets, first, next, cancelled, shutdown,
                   completed, storageVars, last>>

Restart == Reboot /\ last' = NoIndex

SeqProcess == SeqProcessOk \/ SeqProcessFails \/ SeqProcessPanics

MainStep ==
    \/ Prepare /\ UNCHANGED last
    \/ SeqLoad \/ SeqSkip \/ SeqBegin \/ SeqFinished
    \/ SeqProcess \/ SeqSave
    \/ SeqPauseEnds \/ SeqPauseInterrupted
    \/ Exit

Environment == (Signal \/ Killed) /\ UNCHANGED last

ShutdownStep == CloseResources /\ UNCHANGED last

Next ==
    \/ MainStep
    \/ ShutdownStep
    \/ Environment
    \/ Restart
    \/ Terminated /\ UNCHANGED vars

Spec == Init /\ [][Next]_vars

(***************************************************************************)
(* The main goroutine never stays where it can move: a timer fires, the    *)
(* queries of the loop and of its end have ten seconds, and it is assumed  *)
(* that the database answers or refuses prepare, whose reading has no      *)
(* deadline, and that Process returns or panics.  Signals, kills and       *)
(* restarts owe nothing.                                                   *)
(***************************************************************************)
FairSpec == Spec /\ WF_vars(MainStep) /\ WF_vars(ShutdownStep)

-----------------------------------------------------------------------------

(***************************************************************************)
(* config.yml, resume_enabled: "processing will start from the wallet      *)
(* AFTER the last one recorded as fully completed", so a wallet at or      *)
(* before the recorded index is never visited again.  In file order it     *)
(* must therefore have been completed, whatever sequence of crashes,       *)
(* signals, failed reads and failed writes led to the recorded index.      *)
(***************************************************************************)
PrefixCompleted == \A i \in Index : i <= saved => KeyAddress[i] \in completed

(***************************************************************************)
(* With distinct wallets and a database that answers, the checkpoint never *)
(* moves back: not even when the context dies before prepare's read and    *)
(* the run starts again from position 0.                                   *)
(***************************************************************************)
CheckpointNeverRegresses == [][saved' >= saved]_vars

(***************************************************************************)
(* With distinct wallets and a database that answers, at most one wallet   *)
(* is ever completed without being covered by the checkpoint, so a kill or *)
(* a shutdown that closes the store first costs at most that one wallet's  *)
(* tasks being run a second time, over any number of starts.               *)
(***************************************************************************)
AtMostOneUnrecorded ==
    \A a \in completed : \E i \in Index : i <= saved + 1 /\ KeyAddress[i] = a

(***************************************************************************)
(* A run that ends by itself, uncancelled, either visited every wallet or  *)
(* stopped at one that failed: its predecessors in this run are completed. *)
(***************************************************************************)
StopsAtFirstFailure ==
    main \in {"wait", "stopped", "exited"} => \A p \in first..(next - 1) : Address(p) \in completed

(***************************************************************************)
(* The sequential mode is a wallet pool of one that stops at the first     *)
(* failure and may pass over a wallet it takes for processed: wallets in   *)
(* order, none twice in a session, none started after the cancellation.    *)
(***************************************************************************)
AtWork == main \in {"process", "save", "pause"}

PoolStatus ==
    CASE main = "prepare" -> "opening"
      [] main = "exited"  -> "closed"
      [] main = "crashed" -> "dead"
      [] OTHER            -> "open"

Visited(p) == p < next \/ (p = next /\ (AtWork \/ main = "stopped"))

Waiting == IF PoolStatus = "open" THEN {p \in Index : ~Visited(p)} ELSE {}
InWork == IF AtWork THEN {next} ELSE {}
Stopped == main = "stopped"

Pool == INSTANCE WalletPool WITH
    Size <- NumKeys, Limit <- 1, StopOnFailure <- TRUE, MaySkip <- ResumeEnabled,
    status <- PoolStatus, pending <- Waiting, running <- InWork, broken <- Stopped

ImplementsWalletPool == Pool!Spec

(***************************************************************************)
(* Every session ends: once started, the program exits or dies.            *)
(***************************************************************************)
EventuallyEnds == []<>(~Alive)
=============================================================================
