-------------------------- MODULE SequentialProofs --------------------------
(***************************************************************************)
(* What holds of the sequential mode for every keys file, every number of  *)
(* starts and every sequence of signals, kills and database failures.      *)
(***************************************************************************)
EXTENDS SequentialRun, ApplicationProofs, FiniteSetTheorems

(***************************************************************************)
(* TypeOK alone is not inductive: the step that leaves a wallet's pause    *)
(* moves next on.  While a wallet is at work there is one at next.         *)
(***************************************************************************)
TypeInv == TypeOK /\ (AtWork => next \in Index)

(***************************************************************************)
(* Every step keeps it.                                                    *)
(***************************************************************************)
LEMMA TypeInvInductive == TypeInv /\ [Next]_vars => TypeInv'
<1> SUFFICES ASSUME TypeInv, [Next]_vars PROVE TypeInv'
  OBVIOUS
<1> USE DEF TypeInv, TypeOK, AppTypeOK, AtWork, storageVars
<1>0. /\ NumKeys \in Nat \ {0} /\ Index = 0..(NumKeys - 1)
      /\ MainStates = {"prepare", "run", "loop", "slot", "process", "save",
           "pause", "stopped", "wait", "exited", "crashed"}
  BY ApplicationAssumption DEF Index, MainStates
<1>1. CASE Prepare /\ UNCHANGED last
  <2>1. PICK l \in LastCompleted(cancelled) :
          /\ first' = ResumeFrom(l)
          /\ next' = ResumeFrom(l)
          /\ wallets' \in Orders(l)
          /\ main' = IF ResumeFrom(l) < NumKeys THEN "run" ELSE "wait"
    BY <1>1 DEF Prepare
  <2>2. ResumeFrom(l) \in 0..NumKeys
    BY LastCompletedIsSavedOrNone, ResumeFromBehind
  <2>3. wallets' \in [Index -> Index]
    BY <2>1, OrdersAreLists
  <2> QED
    BY <1>0, <1>1, <2>1, <2>2, <2>3 DEF Prepare
<1>2. CASE SeqLoad
  BY <1>0, <1>2, LastCompletedIsSavedOrNone DEF SeqLoad
<1>3. CASE SeqSkip
  BY <1>0, <1>3 DEF SeqSkip
<1>4. CASE SeqBegin
  BY <1>0, <1>4 DEF SeqBegin
<1>5. CASE SeqFinished
  BY <1>0, <1>5 DEF SeqFinished
<1>6. CASE SeqProcessOk
  <2>1. Address(next) \in Addresses
    BY <1>0, <1>6, ApplicationAssumption DEF SeqProcessOk, Address, Addresses, Range
  <2> QED
    BY <1>0, <1>6, <2>1 DEF SeqProcessOk, AfterSuccess
<1>7. CASE SeqProcessFails \/ SeqProcessPanics
  BY <1>0, <1>7 DEF SeqProcessFails, SeqProcessPanics, AfterFailure
<1>8. CASE SeqSave
  <2>1. RecordedIndex(next) \in Index
    BY <1>8, OriginalIndexFirst DEF SeqSave, RecordedIndex
  <2> QED
    BY <1>0, <1>8, <2>1 DEF SeqSave, SetState, SetStateFails
<1>9. CASE SeqPauseEnds
  BY <1>0, <1>9 DEF SeqPauseEnds
<1>10. CASE SeqPauseInterrupted \/ Exit
  BY <1>0, <1>10 DEF SeqPauseInterrupted, Exit
<1>11. CASE Environment \/ ShutdownStep
  BY <1>0, <1>11 DEF Environment, ShutdownStep, Signal, Killed, CloseResources, CloseStore
<1>12. CASE Restart
  <2>1. FileOrder \in [Index -> Index]
    BY DEF FileOrder
  <2>2. session' \in 1..MaxSessions
    BY <1>12, ApplicationAssumption DEF Restart, Reboot
  <2>3. main' \in MainStates /\ ~AtWork'
    BY <1>0, <1>12 DEF Restart, Reboot
  <2>4. 0 \in 0..NumKeys
    BY <1>0
  <2> QED
    BY <1>12, <2>1, <2>2, <2>3, <2>4 DEF Restart, Reboot, ReopenStore
<1>13. CASE UNCHANGED vars
  BY <1>13 DEF vars, appVars
<1> QED
  BY <1>1, <1>2, <1>3, <1>4, <1>5, <1>6, <1>7, <1>8, <1>9, <1>10, <1>11,
     <1>12, <1>13
  DEF Next, MainStep, SeqProcess

(***************************************************************************)
(* The variables keep their types, in every order of the wallets.          *)
(***************************************************************************)
THEOREM SequentialTypeCorrect == Spec => []TypeOK
<1>1. Init => TypeInv
  <2>1. FileOrder \in [Index -> Index] /\ 1 \in 1..MaxSessions /\ 0 \in 0..NumKeys
    BY ApplicationAssumption DEF FileOrder
  <2> QED
    BY <2>1 DEF Init, AppInit, StorageInit, TypeInv, TypeOK, AppTypeOK, MainStates, AtWork
<1>2. TypeInv => TypeOK
  BY DEF TypeInv
<1> QED
  BY <1>1, <1>2, TypeInvInductive, PTL DEF Spec

(***************************************************************************)
(* Why a resumed run may start behind the recorded index.  In file order   *)
(* every wallet up to the recorded index is completed, and so is every one *)
(* before the loop's position, from which the next index is recorded; the  *)
(* wallet at hand joins them only once Process has returned nil for it.    *)
(***************************************************************************)
CompletedUpTo(n) == \A i \in Index : i <= n => KeyAddress[i] \in completed

ResumeInv ==
    /\ TypeInv
    /\ wallets = FileOrder
    /\ CompletedUpTo(saved)
    /\ CompletedUpTo(last)
    /\ CompletedUpTo(next - 1)
    /\ main \in {"save", "pause"} => KeyAddress[next] \in completed

(***************************************************************************)
(* A step that adds to the completed wallets and moves neither the row nor *)
(* the positions keeps the three prefixes.                                 *)
(***************************************************************************)
LEMMA PrefixesKept ==
    ASSUME ResumeInv, completed \subseteq completed',
           saved' \in {saved, NoIndex}, last' \in {last, saved, NoIndex}, next' = next
    PROVE  /\ CompletedUpTo(saved)'
           /\ CompletedUpTo(last)'
           /\ CompletedUpTo(next - 1)'
BY ApplicationAssumption DEF ResumeInv, CompletedUpTo, NoIndex, Index

(***************************************************************************)
(* In file order every step keeps the invariant: the row and the reading of *)
(* it are never ahead of the loop, which passes over completed wallets only. *)
(***************************************************************************)
LEMMA ResumeInvInductive ==
    ASSUME ~RandomOrder
    PROVE  ResumeInv /\ [Next]_vars => ResumeInv'
<1> SUFFICES ASSUME ResumeInv, [Next]_vars PROVE ResumeInv'
  OBVIOUS
<1>0. TypeInv'
  BY TypeInvInductive DEF ResumeInv
<1> DEFINE Prefixes == CompletedUpTo(saved) /\ CompletedUpTo(last) /\ CompletedUpTo(next - 1)
           AtHand == main \in {"save", "pause"} => KeyAddress[next] \in completed
<1> SUFFICES (wallets = FileOrder /\ Prefixes /\ AtHand)'
  BY <1>0 DEF ResumeInv
<1> USE DEF storageVars
<1>1. CASE Prepare /\ UNCHANGED last
  <2>1. PICK l \in LastCompleted(cancelled) :
          /\ next' = ResumeFrom(l)
          /\ wallets' \in Orders(l)
    BY <1>1 DEF Prepare
  <2>2. l = saved \/ l = NoIndex
    BY LastCompletedIsSavedOrNone, <1>0 DEF ResumeInv, TypeInv, TypeOK, AppTypeOK
  <2>3. wallets' = FileOrder
    BY <2>1, OrdersAreLists DEF ResumeInv, TypeInv, TypeOK, AppTypeOK
  <2>4. \A i \in Index : i <= next' - 1 => i <= saved
    <3>1. l \in Index \cup {NoIndex}
      BY <2>2 DEF ResumeInv, TypeInv, TypeOK, AppTypeOK
    <3>2. \A i \in Index : i <= next' - 1 => i <= l
      BY <2>1, <3>1, ResumeFromBehind
    <3>3. \A i \in Index : ~(i <= NoIndex)
      BY ApplicationAssumption DEF Index, NoIndex
    <3> QED
      BY <2>2, <3>2, <3>3
  <2>5. Prefixes'
    BY <1>1, <2>4 DEF Prepare, ResumeInv, CompletedUpTo
  <2>6. main' \in {"run", "wait"}
    BY <1>1 DEF Prepare
  <2> QED
    BY <2>3, <2>5, <2>6
<1>2. CASE SeqLoad
  <2>1. last' = saved \/ last' = NoIndex
    BY <1>2, LastCompletedIsSavedOrNone DEF SeqLoad
  <2> QED
    BY <1>2, <2>1, PrefixesKept DEF SeqLoad, ResumeInv
<1>3. CASE SeqSkip
  <2>1. next \in Index /\ OriginalIndex(next) <= last
    BY <1>3, ApplicationAssumption
    DEF SeqSkip, AlreadyProcessed, ResumeInv, TypeInv, TypeOK, AppTypeOK, Index
  <2>2. OriginalIndex(next) \in Index /\ Address(OriginalIndex(next)) = Address(next)
    BY <2>1, OriginalIndexFirst DEF ResumeInv, TypeInv, TypeOK, AppTypeOK
  <2>3. KeyAddress[next] \in completed
    BY <2>1, <2>2 DEF ResumeInv, CompletedUpTo, Address, FileOrder
  <2>4. \A i \in Index : i <= next' - 1 => i <= next - 1 \/ i = next
    BY <1>3, <2>1, ApplicationAssumption DEF SeqSkip, Index
  <2>5. Prefixes'
    BY <1>3, <2>3, <2>4 DEF SeqSkip, ResumeInv, CompletedUpTo
  <2> QED
    BY <1>3, <2>5 DEF SeqSkip, ResumeInv
<1>4. CASE SeqBegin \/ SeqFinished
  BY <1>4, PrefixesKept DEF SeqBegin, SeqFinished, ResumeInv
<1>5. CASE SeqProcessOk
  <2>1. KeyAddress[next] \in completed'
    BY <1>5 DEF SeqProcessOk, Address, FileOrder, ResumeInv, TypeInv, AtWork
  <2> QED
    BY <1>5, <2>1, PrefixesKept DEF SeqProcessOk, ResumeInv
<1>6. CASE SeqProcessFails \/ SeqProcessPanics
  BY <1>6, PrefixesKept DEF SeqProcessFails, SeqProcessPanics, AfterFailure, ResumeInv
<1>7. CASE SeqSave
  <2>1. next \in Index
    BY <1>7 DEF SeqSave, ResumeInv, TypeInv, AtWork
  <2>2. OriginalIndex(next) \in Index /\ OriginalIndex(next) <= next
    BY <2>1, OriginalIndexFirst DEF ResumeInv, TypeInv, TypeOK, AppTypeOK
  <2>3. saved' \in {saved, OriginalIndex(next)}
    BY <1>7 DEF SeqSave, SetState, SetStateFails, RecordedIndex
  <2>4. CompletedUpTo(next)
    BY <1>7, <2>1, ApplicationAssumption DEF SeqSave, ResumeInv, CompletedUpTo, Index
  <2>5. CompletedUpTo(OriginalIndex(next))
    BY <2>1, <2>2, <2>4, ApplicationAssumption DEF CompletedUpTo, Index
  <2> QED
    BY <1>7, <2>3, <2>4, <2>5 DEF SeqSave, ResumeInv, CompletedUpTo
<1>8. CASE SeqPauseEnds
  <2>1. next \in Index /\ KeyAddress[next] \in completed
    BY <1>8 DEF SeqPauseEnds, ResumeInv, TypeInv, AtWork
  <2>2. \A i \in Index : i <= next' - 1 => i <= next - 1 \/ i = next
    BY <1>8, <2>1, ApplicationAssumption DEF SeqPauseEnds, Index
  <2> QED
    BY <1>8, <2>1, <2>2 DEF SeqPauseEnds, ResumeInv, CompletedUpTo
<1>9. CASE SeqPauseInterrupted \/ Exit
  BY <1>9, PrefixesKept DEF SeqPauseInterrupted, Exit, ResumeInv
<1>10. CASE Environment \/ ShutdownStep
  BY <1>10, PrefixesKept
  DEF Environment, ShutdownStep, Signal, Killed, CloseResources, CloseStore, ResumeInv
<1>11. CASE Restart
  <2>1. next' = 0 /\ \A i \in Index : ~(i <= 0 - 1)
    BY <1>11, ApplicationAssumption DEF Restart, Reboot, Index
  <2> QED
    BY <1>11, <2>1, ApplicationAssumption
    DEF Restart, Reboot, ReopenStore, ResumeInv, CompletedUpTo, NoIndex, Index
<1>12. CASE UNCHANGED vars
  BY <1>12, PrefixesKept DEF vars, appVars, ResumeInv
<1> QED
  BY <1>1, <1>2, <1>3, <1>4, <1>5, <1>6, <1>7, <1>8, <1>9, <1>10, <1>11, <1>12
  DEF Next, MainStep, SeqProcess

(***************************************************************************)
(* On the first start nothing is recorded and nothing is behind the loop.  *)
(***************************************************************************)
LEMMA ResumeInvInitially == Init => ResumeInv
<1>1. FileOrder \in [Index -> Index] /\ 1 \in 1..MaxSessions /\ 0 \in 0..NumKeys
  BY ApplicationAssumption DEF FileOrder
<1>2. \A i \in Index : ~(i <= 0 - 1) /\ ~(i <= NoIndex)
  BY ApplicationAssumption DEF Index, NoIndex
<1> QED
  BY <1>1, <1>2
  DEF Init, AppInit, StorageInit, ResumeInv, TypeInv, TypeOK, AppTypeOK,
      MainStates, AtWork, CompletedUpTo

(***************************************************************************)
(* Resuming loses no wallet: in file order, every wallet at or before the  *)
(* recorded index was completed, for every keys file (repeated keys        *)
(* included), every number of starts, any kills, signals, panics and any   *)
(* failed reads and writes of the row.                                     *)
(***************************************************************************)
THEOREM ResumeLosesNoWallet == ASSUME ~RandomOrder PROVE Spec => []PrefixCompleted
<1>1. ResumeInv => PrefixCompleted
  BY DEF ResumeInv, CompletedUpTo, PrefixCompleted
<1> QED
  BY <1>1, ResumeInvInitially, ResumeInvInductive, PTL DEF Spec

(***************************************************************************)
(* A session's wallets before its position are completed: when it stops,   *)
(* it stops at the first one that failed or was not begun.                 *)
(***************************************************************************)
THEOREM SessionStopsAtFirstFailure ==
    ASSUME ~RandomOrder PROVE Spec => []StopsAtFirstFailure
<1>1. ResumeInv => StopsAtFirstFailure
  BY ApplicationAssumption
  DEF ResumeInv, CompletedUpTo, StopsAtFirstFailure, TypeInv, TypeOK, AppTypeOK,
      Address, FileOrder, Index
<1> QED
  BY <1>1, ResumeInvInitially, ResumeInvInductive, PTL DEF Spec

(***************************************************************************)
(* The loop never falls behind the position it started from.               *)
(***************************************************************************)
LEMMA FirstIsBehindNext == TypeInv /\ first <= next /\ [Next]_vars => (first <= next)'
<1> SUFFICES ASSUME TypeInv, first <= next, [Next]_vars PROVE (first <= next)'
  OBVIOUS
<1>0. first \in Int /\ next \in Int
  BY ApplicationAssumption DEF TypeInv, TypeOK, AppTypeOK
<1>1. CASE Prepare
  <2>1. PICK l \in LastCompleted(cancelled) : first' = ResumeFrom(l) /\ next' = ResumeFrom(l)
    BY <1>1 DEF Prepare
  <2>2. ResumeFrom(l) \in 0..NumKeys
    BY LastCompletedIsSavedOrNone, ResumeFromBehind DEF TypeInv, TypeOK, AppTypeOK
  <2> QED
    BY <2>1, <2>2, ApplicationAssumption
<1>2. CASE SeqSkip \/ SeqPauseEnds
  BY <1>0, <1>2 DEF SeqSkip, SeqPauseEnds
<1>3. CASE Restart
  BY <1>3 DEF Restart, Reboot
<1>4. CASE UNCHANGED <<first, next>>
  BY <1>4
<1>5. CASE \/ SeqLoad \/ SeqBegin \/ SeqFinished \/ SeqProcess \/ SeqSave \/ SeqPauseInterrupted
           \/ Exit \/ Environment \/ ShutdownStep \/ UNCHANGED vars
  BY <1>4, <1>5
  DEF SeqLoad, SeqBegin, SeqFinished, SeqProcess, SeqProcessOk, SeqProcessFails,
      SeqProcessPanics, SeqSave, SeqPauseInterrupted, Exit, Environment, ShutdownStep, Signal,
      Killed, CloseResources, vars, appVars
<1> QED
  BY <1>1, <1>2, <1>3, <1>5 DEF Next, MainStep

(***************************************************************************)
(* In this mode and in file order the message of app_prepare.go is right:  *)
(* when prepare finds no wallet behind the recorded index, every wallet is *)
(* completed.                                                              *)
(***************************************************************************)
THEOREM NothingLeftMeansAllDone ==
    ASSUME ~RandomOrder PROVE Spec => []AllProcessedAsLogged
<1>1. Init => first <= next
  BY DEF Init, AppInit
<1>2. ResumeInv /\ first <= next => AllProcessedAsLogged
  <2> SUFFICES ASSUME ResumeInv, first <= next, first = NumKeys, NEW a \in Addresses
               PROVE  a \in completed
    BY DEF AllProcessedAsLogged
  <2>1. PICK i \in Index : a = KeyAddress[i]
    BY ApplicationAssumption DEF Addresses, Range, Index
  <2>2. i <= next - 1
    BY ApplicationAssumption DEF ResumeInv, TypeInv, TypeOK, AppTypeOK, Index
  <2> QED
    BY <2>1, <2>2 DEF ResumeInv, CompletedUpTo
<1>3. ResumeInv => TypeInv
  BY DEF ResumeInv
<1> QED
  BY <1>1, <1>2, <1>3, FirstIsBehindNext, ResumeInvInitially, ResumeInvInductive, PTL DEF Spec

-----------------------------------------------------------------------------

(***************************************************************************)
(* With distinct wallets and a database that answers, the wallet at hand   *)
(* is the one behind the recorded index: the loop leaves the checkpoint    *)
(* behind only once the context is done, and then begins no wallet.        *)
(***************************************************************************)
Reliable ==
    /\ ResumeEnabled /\ Durable /\ ~ReadMayFail /\ ~WriteMayFail
    /\ ~RandomOrder
    /\ \A i, j \in Index : KeyAddress[i] = KeyAddress[j] => i = j

CheckpointInv ==
    /\ ResumeInv
    /\ shutdown # "armed" => cancelled
    /\ storeOpen \/ cancelled
    /\ last <= saved
    /\ main \in {"process", "save"} => next = saved + 1
    /\ main \in {"run", "loop"} /\ ~cancelled => next = saved + 1
    /\ main = "pause" /\ ~cancelled => next = saved
    /\ AtMostOneUnrecorded

(***************************************************************************)
(* A position is its own original index.                                   *)
(***************************************************************************)
LEMMA DistinctIndices ==
    ASSUME Reliable, ResumeInv, NEW p \in Index
    PROVE  OriginalIndex(p) = p
<1>1. OriginalIndex(p) \in Index /\ Address(OriginalIndex(p)) = Address(p)
  BY OriginalIndexFirst DEF ResumeInv, TypeInv, TypeOK, AppTypeOK
<1>2. \A i \in Index : Address(i) = KeyAddress[i]
  BY DEF Address, ResumeInv, FileOrder
<1> QED
  BY <1>1, <1>2 DEF Reliable

(***************************************************************************)
(* A database that answers gives an uncancelled reader the row.            *)
(***************************************************************************)
LEMMA ReadingIsExact ==
    ASSUME Reliable, NEW ctxDone \in BOOLEAN, NEW l \in LastCompleted(ctxDone)
    PROVE  storeOpen /\ ~ctxDone => l = saved
BY DEF Reliable, LastCompleted, GetState

(***************************************************************************)
(* Where the row and the completed wallets stay as they are, so does the   *)
(* bound on the unrecorded ones.                                           *)
(***************************************************************************)
LEMMA UnrecordedKept ==
    ASSUME AtMostOneUnrecorded, UNCHANGED <<saved, completed>>
    PROVE  AtMostOneUnrecorded'
BY DEF AtMostOneUnrecorded

(***************************************************************************)
(* Every step keeps the loop and the checkpoint together, and none moves   *)
(* the checkpoint back.                                                    *)
(***************************************************************************)
LEMMA CheckpointInvInductive ==
    ASSUME Reliable
    PROVE  CheckpointInv /\ [Next]_vars => CheckpointInv' /\ saved' >= saved
<1> SUFFICES ASSUME CheckpointInv, [Next]_vars
             PROVE  CheckpointInv' /\ saved' >= saved
  OBVIOUS
<1>0. /\ ResumeInv'
      /\ NumKeys \in Nat \ {0} /\ Index = 0..(NumKeys - 1)
      /\ saved \in Index \cup {-1} /\ last \in Index \cup {-1}
      /\ next \in 0..NumKeys /\ cancelled \in BOOLEAN
      /\ AtWork => next \in Index
  BY ResumeInvInductive, ApplicationAssumption
  DEF CheckpointInv, Reliable, ResumeInv, TypeInv, TypeOK, AppTypeOK, Index, NoIndex
<1> USE DEF storageVars
<1>1. CASE Prepare /\ UNCHANGED last
  <2>1. PICK l \in LastCompleted(cancelled) :
          /\ next' = ResumeFrom(l)
          /\ main' = IF ResumeFrom(l) < NumKeys THEN "run" ELSE "wait"
    BY <1>1 DEF Prepare
  <2>2. ~cancelled => next' = saved + 1
    <3>1. ~cancelled => l = saved
      BY <1>0, ReadingIsExact DEF CheckpointInv
    <3> QED
      BY <1>0, <2>1, <3>1 DEF ResumeFrom
  <2>3. main' \in {"run", "wait"}
    BY <2>1
  <2> QED
    BY <1>0, <1>1, <2>2, <2>3, UnrecordedKept DEF Prepare, CheckpointInv
<1>2. CASE SeqLoad
  <2>1. last' = saved \/ last' = -1
    BY <1>2, LastCompletedIsSavedOrNone DEF SeqLoad, NoIndex
  <2> QED
    BY <1>0, <1>2, <2>1, UnrecordedKept DEF SeqLoad, CheckpointInv
<1>3. CASE SeqSkip
  <2>1. next \in Index /\ next <= last
    BY <1>0, <1>3, DistinctIndices DEF SeqSkip, AlreadyProcessed, CheckpointInv
  <2>2. cancelled
    BY <1>0, <1>3, <2>1 DEF SeqSkip, CheckpointInv
  <2> QED
    BY <1>0, <1>3, <2>2, UnrecordedKept DEF SeqSkip, CheckpointInv
<1>4. CASE SeqBegin \/ SeqFinished
  BY <1>0, <1>4, UnrecordedKept DEF SeqBegin, MayBegin, SeqFinished, CheckpointInv
<1>5. CASE SeqProcessOk
  <2>1. next \in Index /\ next = saved + 1
    BY <1>0, <1>5 DEF SeqProcessOk, CheckpointInv, AtWork
  <2>2. Address(next) = KeyAddress[next]
    BY <2>1 DEF Address, CheckpointInv, ResumeInv, FileOrder
  <2>3. AtMostOneUnrecorded'
    <3>1. ASSUME NEW a \in completed'
          PROVE  \E i \in Index : i <= saved + 1 /\ KeyAddress[i] = a
      <4>1. a \in completed \/ a = KeyAddress[next]
        BY <1>5, <2>2 DEF SeqProcessOk
      <4> QED
        BY <1>0, <2>1, <4>1 DEF CheckpointInv, AtMostOneUnrecorded
    <3> QED
      BY <1>5, <3>1 DEF SeqProcessOk, AtMostOneUnrecorded
  <2>4. main' = "save"
    BY <1>5 DEF SeqProcessOk, AfterSuccess, Reliable
  <2> QED
    BY <1>0, <1>5, <2>1, <2>3, <2>4 DEF SeqProcessOk, CheckpointInv
<1>6. CASE SeqProcessFails \/ SeqProcessPanics
  BY <1>0, <1>6, UnrecordedKept
  DEF SeqProcessFails, SeqProcessPanics, AfterFailure, CheckpointInv
<1>7. CASE SeqSave
  <2>1. next \in Index /\ next = saved + 1
    BY <1>0, <1>7 DEF SeqSave, CheckpointInv, AtWork
  <2>2. saved' = IF storeOpen THEN next ELSE saved
    BY <1>7, <2>1, DistinctIndices
    DEF SeqSave, SetState, SetStateFails, RecordedIndex, Reliable, CheckpointInv
  <2>3. saved' >= saved /\ saved' \in Int
    BY <1>0, <2>1, <2>2
  <2>4. AtMostOneUnrecorded'
    <3>1. \A i \in Index : i <= saved + 1 => i <= saved' + 1
      <4>1. \A s, t, i \in Int : s <= t /\ i <= s + 1 => i <= t + 1
        OBVIOUS
      <4>2. saved \in Int /\ saved' \in Int /\ saved <= saved' /\ Index \subseteq Int
        BY <1>0, <2>3
      <4> QED
        BY <4>1, <4>2
    <3>2. UNCHANGED completed
      BY <1>7 DEF SeqSave
    <3> QED
      BY <3>1, <3>2 DEF CheckpointInv, AtMostOneUnrecorded
  <2>5. UNCHANGED <<next, cancelled, shutdown, storeOpen, last>> /\ main' = "pause"
    BY <1>7 DEF SeqSave, SetState, SetStateFails
  <2> QED
    BY <1>0, <2>1, <2>2, <2>3, <2>4, <2>5 DEF CheckpointInv
<1>8. CASE SeqPauseEnds
  BY <1>0, <1>8, UnrecordedKept DEF SeqPauseEnds, CheckpointInv
<1>9. CASE SeqPauseInterrupted \/ Exit
  BY <1>0, <1>9, UnrecordedKept DEF SeqPauseInterrupted, Exit, CheckpointInv
<1>10. CASE Environment \/ ShutdownStep
  BY <1>0, <1>10, UnrecordedKept
  DEF Environment, ShutdownStep, Signal, Killed, CloseResources, CloseStore, CheckpointInv
<1>11. CASE Restart
  BY <1>0, <1>11, UnrecordedKept DEF Restart, Reboot, ReopenStore, CheckpointInv, NoIndex
<1>12. CASE UNCHANGED vars
  BY <1>0, <1>12, UnrecordedKept DEF vars, appVars, CheckpointInv
<1> QED
  BY <1>1, <1>2, <1>3, <1>4, <1>5, <1>6, <1>7, <1>8, <1>9, <1>10, <1>11, <1>12
  DEF Next, MainStep, SeqProcess

LEMMA CheckpointInvInitially == Init => CheckpointInv
BY ResumeInvInitially
DEF Init, AppInit, StorageInit, CheckpointInv, AtMostOneUnrecorded, NoIndex

(***************************************************************************)
(* With distinct wallets and a database that answers, a kill or a shutdown *)
(* costs at most one wallet's tasks, for every number of wallets and of    *)
(* starts.                                                                 *)
(***************************************************************************)
THEOREM AtMostOneIsRepeated == ASSUME Reliable PROVE Spec => []AtMostOneUnrecorded
<1>1. CheckpointInv => AtMostOneUnrecorded
  BY DEF CheckpointInv
<1> QED
  BY <1>1, CheckpointInvInitially, CheckpointInvInductive, PTL DEF Spec

(***************************************************************************)
(* Under the same assumptions the checkpoint never moves back.             *)
(***************************************************************************)
THEOREM CheckpointIsMonotone == ASSUME Reliable PROVE Spec => CheckpointNeverRegresses
<1>1. CheckpointInv /\ [Next]_vars => [saved' >= saved]_vars
  BY CheckpointInvInductive
<1> QED
  BY <1>1, CheckpointInvInitially, CheckpointInvInductive, PTL
  DEF Spec, CheckpointNeverRegresses

(***************************************************************************)
(* How the mode looks as a wallet pool, at each place the main goroutine   *)
(* may be; and that a run which goes to wait.Wait of its own accord has    *)
(* come to the end of its list.                                            *)
(***************************************************************************)
Onward(n) == {p \in Index : p >= n}

PoolSeen ==
    /\ main = "prepare" => PoolStatus = "opening"
    /\ main = "exited" => PoolStatus = "closed"
    /\ main = "crashed" => PoolStatus = "dead"
    /\ Alive /\ main # "prepare" => PoolStatus = "open"
    /\ main \in {"prepare", "exited", "crashed"} => Waiting = {} /\ InWork = {}
    /\ main \in {"run", "loop", "wait"} => Waiting = Onward(next) /\ InWork = {}
    /\ AtWork => Waiting = Onward(next + 1) /\ InWork = {next}
    /\ main = "stopped" => Waiting = Onward(next + 1) /\ InWork = {}

EndInv == TypeInv /\ (main = "wait" => cancelled \/ next = NumKeys)

LEMMA PoolIsSeen == TypeInv => PoolSeen
<1> SUFFICES ASSUME TypeInv PROVE PoolSeen
  OBVIOUS
<1>1. /\ main = "prepare" => PoolStatus = "opening"
      /\ main = "exited" => PoolStatus = "closed"
      /\ main = "crashed" => PoolStatus = "dead"
      /\ main \notin {"prepare", "exited", "crashed"} => PoolStatus = "open"
  BY ZenonT(30) DEF PoolStatus
<1>2. next \in Int /\ Index \subseteq Int /\ main \in MainStates
  BY ApplicationAssumption DEF TypeInv, TypeOK, AppTypeOK, Index
<1>3. CASE main \in {"prepare", "exited", "crashed"}
  BY <1>1, <1>2, <1>3 DEF PoolSeen, Waiting, InWork, AtWork, Alive
<1>4. CASE main \in {"run", "loop", "wait"}
  <2>1. Waiting = {p \in Index : ~Visited(p)} /\ InWork = {}
    BY <1>1, <1>4 DEF Waiting, InWork, AtWork
  <2>2. \A p \in Index : Visited(p) <=> ~(p >= next)
    BY <1>2, <1>4 DEF Visited, AtWork
  <2> QED
    BY <1>1, <1>4, <2>1, <2>2 DEF PoolSeen, AtWork, Alive, Onward
<1>5. CASE AtWork \/ main = "stopped"
  <2>1. main \in {"process", "save", "pause", "stopped"}
    BY <1>5 DEF AtWork
  <2>2. Waiting = {p \in Index : ~Visited(p)}
    BY <1>1, <2>1 DEF Waiting
  <2>3. \A p \in Index : Visited(p) <=> ~(p >= next + 1)
    BY <1>2, <1>5 DEF Visited
  <2> QED
    BY <1>1, <2>1, <2>2, <2>3 DEF PoolSeen, InWork, AtWork, Alive, Onward
<1>6. CASE main = "slot"
  BY <1>1, <1>6 DEF PoolSeen, AtWork, Alive
<1> QED
  BY <1>2, <1>3, <1>4, <1>5, <1>6 DEF MainStates, AtWork

LEMMA PoolIsSeenNext == TypeInv' => PoolSeen'
BY PoolIsSeen, PTL

(***************************************************************************)
(* Every step keeps the end of an uncancelled run at the end of its list.  *)
(***************************************************************************)
LEMMA EndInvInductive == EndInv /\ [Next]_vars => EndInv'
<1> SUFFICES ASSUME EndInv, [Next]_vars PROVE (main = "wait" => cancelled \/ next = NumKeys)'
  BY TypeInvInductive DEF EndInv
<1>1. CASE Prepare
  <2>1. PICK l \in LastCompleted(cancelled) :
          /\ next' = ResumeFrom(l)
          /\ main' = IF ResumeFrom(l) < NumKeys THEN "run" ELSE "wait"
    BY <1>1 DEF Prepare
  <2> QED
    BY <2>1, ApplicationAssumption DEF ResumeFrom
<1>2. CASE SeqBegin \/ SeqFinished
  BY <1>2 DEF SeqBegin, SeqFinished, MayBegin
<1>3. CASE Environment \/ ShutdownStep \/ UNCHANGED vars
  BY <1>3
  DEF Environment, ShutdownStep, Signal, Killed, CloseResources, vars, appVars, EndInv
<1>4. CASE \/ SeqLoad \/ SeqSkip \/ SeqProcess \/ SeqSave
           \/ SeqPauseEnds \/ SeqPauseInterrupted \/ Exit \/ Restart
  BY <1>4
  DEF SeqLoad, SeqSkip, SeqProcess, SeqProcessOk, SeqProcessFails, SeqProcessPanics, SeqSave,
      SeqPauseEnds, SeqPauseInterrupted, Exit, Restart, Reboot, AfterSuccess, AfterFailure,
      EndInv
<1> QED
  BY <1>1, <1>2, <1>3, <1>4 DEF Next, MainStep

(***************************************************************************)
(* The cardinality that WalletPool speaks of is the one of FiniteSets.     *)
(***************************************************************************)
LEMMA PoolCounts == \A S : Pool!Cardinality(S) = Cardinality(S)
BY DEF Pool!Cardinality, Cardinality

(***************************************************************************)
(* What the refinement is checked against, case by case: each step of the  *)
(* mode is one of the pool's, or leaves the pool as it is.                 *)
(***************************************************************************)
LEMMA SequentialStepsAreAllowed ==
    ASSUME EndInv, TypeInv', [Next]_vars
    PROVE  [Pool!Next]_(Pool!poolState)
<1> DEFINE Stutters == UNCHANGED <<PoolStatus, Waiting, InWork, cancelled, Stopped>>
<1>s. ASSUME Stutters PROVE [Pool!Next]_(Pool!poolState)
  BY <1>s DEF Pool!poolState
<1>0. /\ TypeInv /\ PoolSeen /\ PoolSeen'
      /\ NumKeys \in Nat \ {0} /\ Index = 0..(NumKeys - 1) /\ next \in 0..NumKeys
      /\ Pool!Wallet = Index
  BY PoolIsSeen, PoolIsSeenNext, ApplicationAssumption
  DEF EndInv, TypeInv, TypeOK, AppTypeOK, Index, Pool!Wallet
<1>1. CASE Prepare
  <2>1. /\ main = "prepare" /\ main' \in {"run", "wait"} /\ next' \in 0..NumKeys
        /\ UNCHANGED cancelled
    BY <1>1 DEF Prepare, TypeInv, TypeOK, AppTypeOK
  <2>2. /\ PoolStatus = "opening" /\ PoolStatus' = "open"
        /\ InWork = {} /\ InWork' = {} /\ Stopped = FALSE /\ Stopped' = FALSE
    BY <1>0, <2>1 DEF PoolSeen, Stopped, Alive
  <2>3. PICK from \in 0..NumKeys : next' = from
    BY <2>1
  <2>4. Waiting' = {w \in Index : w >= from}
    BY <1>0, <2>1, <2>3 DEF PoolSeen, Onward
  <2>5. Pool!Open
    BY <1>0, <2>1, <2>2, <2>4 DEF Pool!Open
  <2> QED
    BY <2>5 DEF Pool!Next
<1>2. CASE SeqLoad \/ SeqFinished
  <2>1. /\ main \in {"run", "loop"} /\ main' \in {"loop", "wait"}
        /\ UNCHANGED <<next, cancelled>>
    BY <1>2 DEF SeqLoad, SeqFinished
  <2>2. PICK n : next = n /\ next' = n
    BY <2>1
  <2>3. Waiting = Onward(n) /\ Waiting' = Onward(n)
    BY <1>0, <2>1, <2>2 DEF PoolSeen, Onward
  <2>4. Stutters
    BY <1>0, <2>1, <2>3 DEF PoolSeen, Stopped, Alive
  <2> QED
    BY <1>s, <2>4
<1>3. CASE SeqSkip
  <2>1. /\ main = "loop" /\ main' = "loop" /\ next \in Index /\ next' = next + 1
        /\ ResumeEnabled /\ UNCHANGED cancelled
    BY <1>0, <1>3 DEF SeqSkip, AlreadyProcessed
  <2>2. PICK n \in Index : next = n /\ next' = n + 1
    BY <2>1
  <2>3. Waiting = Onward(n) /\ Waiting' = Onward(n + 1)
    BY <1>0, <2>1, <2>2 DEF PoolSeen, Onward
  <2>4. n \in Waiting /\ Waiting' = Waiting \ {n}
    BY <1>0, <2>3 DEF Onward
  <2>5. Pool!Drop(n)
    BY <1>0, <2>1, <2>4 DEF PoolSeen, Pool!Drop, Stopped, Alive
  <2> QED
    BY <1>0, <2>5 DEF Pool!Next
<1>4. CASE SeqBegin
  <2>1. PICK n \in Index : next = n /\ next' = n
    BY <1>0, <1>4 DEF SeqBegin
  <2>2. main = "loop" /\ Waiting = Onward(n) /\ UNCHANGED cancelled
    BY <1>0, <1>4, <2>1 DEF SeqBegin, PoolSeen, Onward
  <2>3. CASE cancelled
    <3>1. main' = "wait"
      BY <1>4, <2>3 DEF SeqBegin, MayBegin
    <3>2. Waiting' = Onward(n)
      BY <1>0, <2>1, <3>1 DEF PoolSeen, Onward
    <3>3. Stutters
      BY <1>0, <2>2, <3>1, <3>2 DEF PoolSeen, Stopped, Alive
    <3> QED
      BY <1>s, <3>3
  <2>4. CASE ~cancelled
    <3>1. main' = "process"
      BY <1>4, <2>4 DEF SeqBegin, MayBegin
    <3>2. Waiting' = Onward(n + 1) /\ InWork' = {n}
      BY <1>0, <2>1, <3>1 DEF PoolSeen, Onward, AtWork
    <3>3. n \in Waiting /\ Waiting' = Waiting \ {n}
      BY <1>0, <2>2, <3>2 DEF Onward
    <3>4. InWork = {} /\ Cardinality(InWork) = 0
      BY <1>0, <2>2, FS_EmptySet DEF PoolSeen
    <3>5. Pool!Overtaken(n) = {}
      BY <1>0, <2>2 DEF Pool!Overtaken, Onward
    <3>6. Cardinality(Pool!Overtaken(n)) = 0
      BY <3>5, FS_EmptySet
    <3>7. InWork' = InWork \cup {n}
      BY <3>2, <3>4
    <3>8. PoolStatus = "open" /\ PoolStatus' = "open" /\ ~Stopped /\ Stopped' = Stopped
      BY <1>0, <2>2, <3>1 DEF PoolSeen, Stopped, Alive
    <3>9. Cardinality(InWork) < 1 /\ Cardinality(Pool!Overtaken(n)) < 1
      BY <3>4, <3>6
    <3>10. Pool!Start(n)
      BY <2>2, <2>4, <3>3, <3>7, <3>8, <3>9, PoolCounts DEF Pool!Start
    <3> QED
      BY <1>0, <3>10 DEF Pool!Next
  <2> QED
    BY <2>3, <2>4
<1>5. CASE SeqProcessOk \/ SeqSave
  <2>1. PICK n \in Index : next = n /\ next' = n
    BY <1>0, <1>5 DEF SeqProcessOk, SeqSave, TypeInv, AtWork
  <2>2. /\ main \in {"process", "save"} /\ main' \in {"save", "pause"}
        /\ UNCHANGED cancelled
    BY <1>5 DEF SeqProcessOk, SeqSave, AfterSuccess
  <2>3. /\ Waiting = Onward(n + 1) /\ Waiting' = Onward(n + 1)
        /\ InWork = {n} /\ InWork' = {n}
    BY <1>0, <2>1, <2>2 DEF PoolSeen, AtWork, Onward
  <2>4. Stutters
    BY <1>0, <2>2, <2>3 DEF PoolSeen, Stopped, Alive
  <2> QED
    BY <1>s, <2>4
<1>6. CASE SeqProcessFails \/ SeqPauseInterrupted
  <2>1. PICK n \in Index : next = n /\ next' = n
    BY <1>0, <1>6 DEF SeqProcessFails, SeqPauseInterrupted, TypeInv, AtWork
  <2>2. main \in {"process", "pause"} /\ main' = "stopped" /\ UNCHANGED cancelled
    BY <1>6 DEF SeqProcessFails, SeqPauseInterrupted, AfterFailure
  <2>3. Waiting = Onward(n + 1) /\ Waiting' = Onward(n + 1) /\ InWork = {n} /\ InWork' = {}
    BY <1>0, <2>1, <2>2 DEF PoolSeen, AtWork, Onward
  <2>4. InWork' = InWork \ {n} /\ n \in InWork /\ Stopped' = TRUE
    BY <2>2, <2>3 DEF Stopped
  <2>5. Pool!Finish(n)
    BY <1>0, <2>2, <2>3, <2>4 DEF PoolSeen, Pool!Finish, Alive
  <2> QED
    BY <1>0, <2>5 DEF Pool!Next
<1>7. CASE SeqPauseEnds
  <2>1. /\ main = "pause" /\ main' = "loop" /\ UNCHANGED cancelled
        /\ next \in Index /\ next' = next + 1
    BY <1>0, <1>7 DEF SeqPauseEnds, TypeInv, AtWork
  <2>2. PICK n \in Index : next = n /\ next' = n + 1
    BY <2>1
  <2>3. Waiting = Onward(n + 1) /\ Waiting' = Onward(n + 1) /\ InWork = {n} /\ InWork' = {}
    BY <1>0, <2>1, <2>2 DEF PoolSeen, AtWork, Onward
  <2>4. InWork' = InWork \ {n} /\ n \in InWork /\ Stopped = FALSE /\ Stopped' = FALSE
    BY <2>1, <2>3 DEF Stopped
  <2>5. Pool!Finish(n)
    BY <1>0, <2>1, <2>3, <2>4 DEF PoolSeen, Pool!Finish, Alive
  <2> QED
    BY <1>0, <2>5 DEF Pool!Next
<1>8. CASE SeqProcessPanics \/ Killed
  <2>1. Alive /\ main' = "crashed" /\ UNCHANGED cancelled
    BY <1>8 DEF SeqProcessPanics, Killed, Alive
  <2>2. PoolStatus \in {"opening", "open"} /\ PoolStatus' = "dead"
    BY <1>0, <2>1 DEF PoolSeen
  <2>3. Waiting' = {} /\ InWork' = {} /\ Stopped' = FALSE
    BY <1>0, <2>1 DEF PoolSeen, Stopped
  <2>4. Pool!Die
    BY <2>1, <2>2, <2>3 DEF Pool!Die, Pool!Ends
  <2> QED
    BY <2>4 DEF Pool!Next
<1>9. CASE Exit
  <2>1. main \in {"wait", "stopped"} /\ main' = "exited" /\ UNCHANGED cancelled
    BY <1>9 DEF Exit
  <2>2. /\ PoolStatus = "open" /\ PoolStatus' = "closed"
        /\ InWork = {} /\ Waiting' = {} /\ InWork' = {} /\ Stopped' = FALSE
    BY <1>0, <2>1 DEF PoolSeen, Stopped, Alive
  <2>3. Waiting = {} \/ cancelled \/ Stopped
    BY <1>0, <2>1 DEF EndInv, PoolSeen, Stopped, Onward
  <2>4. Pool!Close
    BY <2>1, <2>2, <2>3 DEF Pool!Close, Pool!Ends
  <2> QED
    BY <2>4 DEF Pool!Next
<1>10. CASE Restart
  <2>1. main \in {"exited", "crashed"} /\ main' = "prepare" /\ cancelled' = FALSE
    BY <1>10 DEF Restart, Reboot, Alive
  <2>2. /\ PoolStatus \in {"closed", "dead"} /\ PoolStatus' = "opening"
        /\ UNCHANGED <<Waiting, InWork, Stopped>>
    BY <1>0, <2>1 DEF PoolSeen, Stopped
  <2>3. Pool!Reopen
    BY <2>1, <2>2 DEF Pool!Reopen
  <2> QED
    BY <2>3 DEF Pool!Next
<1>11. CASE Signal
  <2>1. Alive /\ cancelled' = TRUE /\ UNCHANGED <<main, next>>
    BY <1>11 DEF Signal
  <2>2. PoolStatus \in {"opening", "open"}
    BY <1>0, <2>1 DEF PoolSeen
  <2>3. UNCHANGED <<PoolStatus, Waiting, InWork, Stopped>>
    BY <2>1 DEF PoolStatus, Waiting, InWork, Stopped, Visited, AtWork
  <2>4. Pool!Cancel
    BY <2>1, <2>2, <2>3 DEF Pool!Cancel
  <2> QED
    BY <2>4 DEF Pool!Next
<1>12. CASE CloseResources \/ UNCHANGED vars
  <2>1. UNCHANGED <<main, next, cancelled>>
    BY <1>12 DEF CloseResources, vars, appVars
  <2>2. Stutters
    BY <2>1 DEF PoolStatus, Waiting, InWork, Stopped, Visited, AtWork
  <2> QED
    BY <1>s, <2>2
<1> QED
  BY <1>1, <1>2, <1>3, <1>4, <1>5, <1>6, <1>7, <1>8, <1>9, <1>10, <1>11, <1>12
  DEF Next, MainStep, SeqProcess, Environment, ShutdownStep

(***************************************************************************)
(* The sequential mode keeps the promise of WalletPool, with a limit of    *)
(* one, for every number of wallets and of starts.                         *)
(***************************************************************************)
THEOREM SequentialKeepsThePromise == Spec => ImplementsWalletPool
<1>1. Init => EndInv /\ TypeInv
  <2>1. FileOrder \in [Index -> Index] /\ 1 \in 1..MaxSessions /\ 0 \in 0..NumKeys
    BY ApplicationAssumption DEF FileOrder
  <2> QED
    BY <2>1 DEF Init, AppInit, StorageInit, EndInv, TypeInv, TypeOK, AppTypeOK, MainStates, AtWork
<1>2. Init => Pool!Init
  <2> SUFFICES ASSUME Init PROVE Pool!Init
    OBVIOUS
  <2>1. main = "prepare" /\ cancelled = FALSE
    BY DEF Init, AppInit
  <2>2. PoolStatus = "opening" /\ Waiting = {} /\ InWork = {} /\ Stopped = FALSE
    BY <1>1, <2>1, PoolIsSeen DEF PoolSeen, Stopped
  <2> QED
    BY <2>1, <2>2 DEF Pool!Init
<1>3. EndInv => TypeInv
  BY DEF EndInv
<1>4. EndInv /\ TypeInv' /\ [Next]_vars => [Pool!Next]_(Pool!poolState)
  BY SequentialStepsAreAllowed
<1> QED
  BY <1>1, <1>2, <1>3, <1>4, EndInvInductive, PTL
  DEF Spec, ImplementsWalletPool, Pool!Spec
=============================================================================
