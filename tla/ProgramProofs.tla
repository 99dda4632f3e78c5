---------------------------- MODULE ProgramProofs ----------------------------
(***************************************************************************)
(* The program with its startup: every start is a session of the           *)
(* sequential mode, which hands down what was proved of it, and works on   *)
(* the keys of the file.                                                   *)
(***************************************************************************)
EXTENDS Program, SequentialProofs

(***************************************************************************)
(* The startup moves the main goroutine only to refuse the start, which to *)
(* the sequential mode is a kill.                                          *)
(***************************************************************************)
LEMMA BootIsKillOrStutter == Boots => [Next]_vars
<1> SUFFICES ASSUME Boots PROVE [Next]_vars
  OBVIOUS
<1>1. /\ main = "prepare"
      /\ UNCHANGED <<session, wallets, first, next, cancelled, shutdown,
                     completed, storageVars, last>>
  BY DEF Boots, BootStep
<1>2. main' \in {main, "crashed"}
  BY DEF Boots, BootStep, LoadConfig, OpenStorage, CreatePool, Ping, CreateTables, ReadKey,
         KeysRead, RegisterTasks, Refused, MovesOn, Fatal, FatalEnds
<1>3. CASE main' = main
  BY <1>1, <1>3 DEF vars, appVars, storageVars
<1>4. CASE main' = "crashed"
  <2>1. Killed
    BY <1>1, <1>4 DEF Killed, Alive
  <2> QED
    BY <1>1, <2>1 DEF Next, Environment
<1> QED
  BY <1>2, <1>3, <1>4

LEMMA ProgramStepsAreSessionSteps == [ProgramNext]_progVars => [Next]_vars
<1> SUFFICES ASSUME [ProgramNext]_progVars PROVE [Next]_vars
  OBVIOUS
<1>1. CASE Boots
  BY <1>1, BootIsKillOrStutter
<1>2. CASE Works \/ ShutsDown
  BY <1>2 DEF Works, ShutsDown, Next
<1>3. CASE Listen /\ UNCHANGED last
  BY <1>3 DEF Listen, vars
<1>4. CASE Signalled \/ Dies
  BY <1>4 DEF Signalled, Dies, Next, Environment
<1>5. CASE StartsAgain
  BY <1>5 DEF StartsAgain, Next
<1>6. CASE UNCHANGED progVars
  BY <1>6 DEF progVars
<1> QED
  BY <1>1, <1>2, <1>3, <1>4, <1>5, <1>6 DEF ProgramNext

(***************************************************************************)
(* main.go: every start of the program, refused ones included, is to what  *)
(* follows a session of the sequential mode.                               *)
(***************************************************************************)
THEOREM StartsAreSessionsOfTheMode == ProgramSpec => StartsAreSessions
<1>1. ProgramInit => Init
  BY DEF ProgramInit
<1> QED
  BY <1>1, ProgramStepsAreSessionSteps, PTL DEF ProgramSpec, StartsAreSessions, Spec

(***************************************************************************)
(* With distinct wallets in file order and a database that answers once it *)
(* is up, neither refused starts nor kills in the middle of one cost more  *)
(* than one wallet's tasks.                                                *)
(***************************************************************************)
THEOREM StartsRepeatAtMostOne == ASSUME Reliable PROVE ProgramSpec => []AtMostOneUnrecorded
  BY StartsAreSessionsOfTheMode, AtMostOneIsRepeated, PTL DEF StartsAreSessions

(***************************************************************************)
(* Nor does a start move the checkpoint back.                              *)
(***************************************************************************)
THEOREM StartsKeepCheckpoint == ASSUME Reliable PROVE ProgramSpec => CheckpointNeverRegresses
  BY StartsAreSessionsOfTheMode, CheckpointIsMonotone, PTL DEF StartsAreSessions

(***************************************************************************)
(* In file order the recorded index covers completed wallets only, however *)
(* many starts are refused, killed or signalled in between.                *)
(***************************************************************************)
THEOREM StartsLoseNoWallet == ASSUME ~RandomOrder PROVE ProgramSpec => []PrefixCompleted
  BY StartsAreSessionsOfTheMode, ResumeLosesNoWallet, PTL DEF StartsAreSessions

(***************************************************************************)
(* And with its startup the program still keeps the promise of WalletPool. *)
(***************************************************************************)
THEOREM StartsKeepThePromise == ProgramSpec => ImplementsWalletPool
  BY StartsAreSessionsOfTheMode, SequentialKeepsThePromise, PTL DEF StartsAreSessions

-----------------------------------------------------------------------------

P32 == INSTANCE RandomRangeProofs WITH MaxInt <- MaxInt32, Second <- 1, Minute <- 60

(***************************************************************************)
(* The lines of the keys, and where the scanner is among them: the keys    *)
(* loaded are those of the lines before it.                                *)
(***************************************************************************)
Line == CHOOSE lineOf \in [1..NumKeys -> 1..Len(KeysFile)] : Numbers(lineOf)

KeysInv ==
    /\ Len(loaded) \in 0..NumKeys
    /\ \A i \in 1..NumKeys : i <= Len(loaded) <=> Line[i] < line
    /\ \A i \in 1..Len(loaded) : loaded[i] = KeyAddress[i - 1]

(***************************************************************************)
(* What each stage of the startup has behind it.  A pool size is that of a *)
(* positive setting, and a configured pool has what the setting makes.     *)
(***************************************************************************)
StageInv ==
    /\ boot \notin {"up", "down"} => main \in {"prepare", "crashed"}
    /\ boot = "down" => main = "crashed"
    /\ boot \in {"config", "storage"} => poolSize = Unset
    /\ poolSize # Unset => asked \in Int /\ asked > 0 /\ poolSize = Int32!Wrap(asked)
    /\ PoolConfigured => poolSize = MaxConns
    /\ boot \in {"config", "storage", "pool", "ping", "schema"} => line = 1 /\ loaded = <<>>
    /\ boot \in {"tasks", "up"} => line = Len(KeysFile) + 1

BootInv == BootTypeOK /\ StageInv /\ KeysInv

LEMMA LineNumbers == Line \in [1..NumKeys -> 1..Len(KeysFile)] /\ Numbers(Line)
  BY ProgramAssumption DEF Line

LEMMA FileHasLines ==
    /\ Len(KeysFile) \in Nat /\ NumKeys \in Nat \ {0}
    /\ \A l \in 1..Len(KeysFile) : KeysFile[l] \in Addresses \cup {Blank, Malformed}
  BY StartupAssumption, ApplicationAssumption

(***************************************************************************)
(* An int32 of an int is an int.                                           *)
(***************************************************************************)
LEMMA NarrowedIsInt == ASSUME NEW n \in Int PROVE Int32!Wrap(n) \in Int
<1>1. MaxInt32 \in Nat \ {0} /\ Int32!MinInt \in Int
  BY StartupAssumption DEF Int32!MinInt
<1>2. n - Int32!MinInt \in Int /\ 2 * (MaxInt32 + 1) \in Nat \ {0}
  BY <1>1
<1>3. (n - Int32!MinInt) % (2 * (MaxInt32 + 1)) \in Int
  BY <1>2
<1> QED
  BY <1>1, <1>3 DEF Int32!Wrap

(***************************************************************************)
(* The next line of the file adds its key, if it has one.                  *)
(***************************************************************************)
LEMMA ReadKeyKeepsKeys == BootInv /\ ReadKey => KeysInv'
<1> SUFFICES ASSUME BootInv, ReadKey PROVE KeysInv'
  OBVIOUS
<1> DEFINE n == Len(loaded)
<1>0. /\ Line \in [1..NumKeys -> 1..Len(KeysFile)] /\ Numbers(Line)
      /\ Len(KeysFile) \in Nat /\ NumKeys \in Nat
      /\ line \in 1..Len(KeysFile) /\ line' = line + 1
      /\ n \in 0..NumKeys /\ loaded \in Seq(Addresses)
  BY LineNumbers, FileHasLines DEF BootInv, BootTypeOK, KeysInv, ReadKey
<1>1. \A i \in 1..NumKeys : Line[i] \in Int
  BY <1>0
<1>2. CASE IsKey(KeysFile[line])
  <2>1. loaded' = Append(loaded, KeysFile[line]) /\ KeysFile[line] \in Addresses
    BY <1>0, <1>2, FileHasLines DEF ReadKey, IsKey
  <2>2. PICK k \in 1..NumKeys : Line[k] = line
    BY <1>0, <2>1 DEF Numbers
  <2>3. k = n + 1
    <3>1. ~(k <= n)
      BY <1>0, <2>2 DEF BootInv, KeysInv
    <3>2. ASSUME n + 1 < k PROVE FALSE
      <4>1. n + 1 \in 1..NumKeys
        BY <1>0, <3>2
      <4>2. Line[n + 1] < line
        BY <1>0, <2>2, <3>2, <4>1 DEF Numbers
      <4> QED
        BY <1>0, <4>1, <4>2 DEF BootInv, KeysInv
    <3> QED
      BY <1>0, <3>1, <3>2
  <2>4. Len(loaded') = n + 1
    BY <1>0, <2>1
  <2>5. ASSUME NEW i \in 1..NumKeys PROVE i <= n + 1 <=> Line[i] < line + 1
    <3>1. CASE i <= n
      BY <1>0, <1>1, <3>1 DEF BootInv, KeysInv
    <3>2. CASE i = n + 1
      BY <1>0, <2>2, <2>3, <3>2
    <3>3. CASE i > n + 1
      <4>1. Line[k] < Line[i]
        BY <1>0, <2>3, <3>3 DEF Numbers
      <4> QED
        BY <1>0, <1>1, <2>2, <3>3, <4>1
    <3>4. i \in Int /\ n \in Int
      BY <1>0
    <3> HIDE DEF n
    <3> QED
      BY <3>1, <3>2, <3>3, <3>4
  <2>6. ASSUME NEW i \in 1..(n + 1) PROVE loaded'[i] = KeyAddress[i - 1]
    <3>1. CASE i = n + 1
      BY <1>0, <2>1, <2>2, <2>3, <3>1 DEF Numbers
    <3>2. CASE i # n + 1
      <4>1. i \in 1..n
        BY <1>0, <3>2
      <4>2. loaded'[i] = loaded[i]
        BY <1>0, <2>1, <4>1
      <4> QED
        BY <4>1, <4>2 DEF BootInv, KeysInv
    <3> QED
      BY <3>1, <3>2
  <2>7. n + 1 \in 0..NumKeys
    BY <1>0, <2>3
  <2> HIDE DEF n
  <2> QED
    BY <1>0, <2>4, <2>5, <2>6, <2>7 DEF KeysInv
<1>3. CASE ~IsKey(KeysFile[line])
  <2>1. loaded' = loaded
    BY <1>3 DEF ReadKey
  <2>2. \A i \in 1..NumKeys : Line[i] # line
    <3> SUFFICES ASSUME NEW i \in 1..NumKeys, Line[i] = line PROVE FALSE
      OBVIOUS
    <3>1. KeysFile[line] = KeyAddress[i - 1]
      BY <1>0 DEF Numbers
    <3>2. i - 1 \in DOMAIN KeyAddress
      BY <1>0, ApplicationAssumption
    <3>3. KeysFile[line] \in Addresses
      BY <3>1, <3>2 DEF Addresses, Range
    <3> QED
      BY <1>3, <3>3, StartupAssumption DEF IsKey
  <2>3. \A i \in 1..NumKeys : Line[i] < line + 1 <=> Line[i] < line
    BY <1>0, <1>1, <2>2
  <2> QED
    BY <1>0, <2>1, <2>3 DEF BootInv, KeysInv
<1> QED
  BY <1>2, <1>3

LEMMA BootInvInitially == ProgramInit => BootInv
<1> SUFFICES ASSUME ProgramInit PROVE BootInv
  OBVIOUS
<1>0. BootInit /\ main = "prepare"
  BY DEF ProgramInit, Init, AppInit
<1>1. BootTypeOK
  <2>1. line \in 1..(Len(KeysFile) + 1)
    BY <1>0, FileHasLines DEF BootInit
  <2>2. loaded \in Seq(Addresses)
    BY <1>0 DEF BootInit
  <2>3. boot \in BootStates /\ listening \in BOOLEAN
    BY <1>0 DEF BootInit, BootStates
  <2> QED
    BY <1>0, <2>1, <2>2, <2>3 DEF BootInit, BootTypeOK
<1>2. StageInv
  BY <1>0 DEF StageInv, BootInit, PoolConfigured
<1>3. KeysInv
  <2>1. Len(loaded) = 0 /\ line = 1
    BY <1>0 DEF BootInit
  <2>2. \A i \in 1..NumKeys : Line[i] \in 1..Len(KeysFile)
    BY LineNumbers
  <2> QED
    BY <2>1, <2>2, FileHasLines DEF KeysInv
<1> QED
  BY <1>1, <1>2, <1>3 DEF BootInv

(***************************************************************************)
(* MaxConns is the driver's default, or what is left of a positive number. *)
(***************************************************************************)
LEMMA MaxConnsOfANumber ==
    ASSUME BootTypeOK
    PROVE  /\ MaxConns \in Int \cup {Unset}
           /\ MaxConns # Unset => asked \in Int /\ asked > 0 /\ MaxConns = Int32!Wrap(asked)
<1>1. CASE asked \in {Unset, Junk}
  BY <1>1 DEF MaxConns
<1>2. CASE asked \notin {Unset, Junk}
  <2>1. asked \in Int
    BY <1>2, StartupAssumption DEF BootTypeOK
  <2>2. Int32!Wrap(asked) \in Int
    BY <2>1, NarrowedIsInt
  <2> QED
    BY <1>2, <2>1, <2>2 DEF MaxConns, Positive
<1> QED
  BY <1>1, <1>2

(***************************************************************************)
(* Each step of the startup preserves its invariant.                       *)
(***************************************************************************)
LEMMA BootStepKeepsBootInv == BootInv /\ Boots => BootInv'
<1> SUFFICES ASSUME BootInv, Boots PROVE BootInv'
  OBVIOUS
<1>0. BootTypeOK /\ StageInv /\ KeysInv /\ main = "prepare"
  BY DEF BootInv, Boots, BootStep
<1>1. CASE ReadKey
  <2>1. KeysInv'
    BY <1>1, ReadKeyKeepsKeys
  <2>2. BootTypeOK'
    BY <1>0, <1>1, FileHasLines DEF ReadKey, MovesOn, BootTypeOK, BootStates, settings, IsKey
  <2>3. StageInv'
    BY <1>0, <1>1 DEF ReadKey, MovesOn, StageInv, settings, BootTypeOK, PoolConfigured, MaxConns
  <2> QED
    BY <2>1, <2>2, <2>3 DEF BootInv
<1>2. CASE ~ReadKey
  <2>1. UNCHANGED <<line, loaded>>
    BY <1>2 DEF Boots, BootStep, LoadConfig, OpenStorage, CreatePool, Ping, CreateTables,
       KeysRead, RegisterTasks, Refused
  <2>2. KeysInv'
    BY <1>0, <2>1 DEF KeysInv
  <2>3. CASE LoadConfig
    <3>1. BootTypeOK'
      BY <1>0, <2>1, <2>3 DEF LoadConfig, MovesOn, BootTypeOK, BootStates
    <3>2. StageInv'
      BY <1>0, <2>1, <2>3 DEF LoadConfig, MovesOn, StageInv, PoolConfigured
    <3> QED
      BY <2>2, <3>1, <3>2 DEF BootInv
  <2>4. CASE OpenStorage
    <3>0. UNCHANGED <<dbType, asked, listening, main>> /\ boot = "storage"
      BY <2>4 DEF OpenStorage, MovesOn
    <3>1. CASE poolSize' = MaxConns /\ boot' = "pool"
      <4>1. BootTypeOK'
        BY <1>0, <2>1, <3>0, <3>1, MaxConnsOfANumber DEF BootTypeOK, BootStates
      <4>2. StageInv'
        BY <1>0, <2>1, <3>0, <3>1, MaxConnsOfANumber DEF StageInv, PoolConfigured, MaxConns
      <4> QED
        BY <2>2, <4>1, <4>2 DEF BootInv
    <3>2. CASE poolSize' = poolSize /\ boot' \in {"ping", "keys"} /\ dbType # "postgres"
      <4>1. BootTypeOK'
        BY <1>0, <2>1, <3>0, <3>2 DEF BootTypeOK, BootStates
      <4>2. StageInv'
        BY <1>0, <2>1, <3>0, <3>2 DEF StageInv, PoolConfigured
      <4> QED
        BY <2>2, <4>1, <4>2 DEF BootInv
    <3> QED
      BY <2>4, <3>1, <3>2 DEF OpenStorage, MovesOn
  <2>5. CASE CreatePool \/ Ping \/ CreateTables \/ RegisterTasks
    <3>1. BootTypeOK'
      BY <1>0, <2>1, <2>5
      DEF CreatePool, Ping, CreateTables, RegisterTasks, MovesOn, BootTypeOK, BootStates, settings
    <3>2. StageInv'
      BY <1>0, <2>1, <2>5
      DEF CreatePool, Ping, CreateTables, RegisterTasks, MovesOn, StageInv, settings,
          PoolConfigured, MaxConns
    <3> QED
      BY <2>2, <3>1, <3>2 DEF BootInv
  <2>6. CASE KeysRead
    <3>0. line = Len(KeysFile) + 1
      BY <1>0, <2>6, FileHasLines DEF KeysRead, BootTypeOK
    <3>1. BootTypeOK'
      BY <1>0, <2>1, <2>6 DEF KeysRead, MovesOn, Fatal, BootTypeOK, BootStates, settings
    <3>2. StageInv'
      BY <1>0, <2>1, <2>6, <3>0 DEF KeysRead, MovesOn, Fatal, FatalEnds, StageInv, settings,
          PoolConfigured, MaxConns
    <3> QED
      BY <2>2, <3>1, <3>2 DEF BootInv
  <2>7. CASE Refused
    <3>1. BootTypeOK'
      BY <1>0, <2>1, <2>7 DEF Refused, Fatal, BootTypeOK, BootStates, settings
    <3>2. StageInv'
      BY <1>0, <2>1, <2>7 DEF Refused, Fatal, FatalEnds, StageInv, settings, PoolConfigured
    <3> QED
      BY <2>2, <3>1, <3>2 DEF BootInv
  <2> QED
    BY <1>2, <2>3, <2>4, <2>5, <2>6, <2>7 DEF Boots, BootStep
<1> QED
  BY <1>1, <1>2

(***************************************************************************)
(* What follows the startup leaves what it loaded alone, until the next    *)
(* start loads it again.                                                   *)
(***************************************************************************)
LEMMA BootInvInductive == BootInv /\ [ProgramNext]_progVars => BootInv'
<1> SUFFICES ASSUME BootInv, [ProgramNext]_progVars PROVE BootInv'
  OBVIOUS
<1>1. CASE Boots
  BY <1>1, BootStepKeepsBootInv
<1>2. CASE StartsAgain
  <2>1. BootInit' /\ main' = "prepare"
    BY <1>2 DEF StartsAgain, Restart, Reboot, BootReset, BootInit
  <2>2. BootTypeOK'
    <3>1. line' \in 1..(Len(KeysFile) + 1)
      BY <2>1, FileHasLines DEF BootInit
    <3>2. loaded' \in Seq(Addresses)
      BY <2>1 DEF BootInit
    <3>3. boot' \in BootStates /\ listening' \in BOOLEAN
      BY <2>1 DEF BootInit, BootStates
    <3> QED
      BY <2>1, <3>1, <3>2, <3>3 DEF BootInit, BootTypeOK
  <2>3. StageInv'
    BY <2>1 DEF BootInit, StageInv, PoolConfigured
  <2>4. KeysInv'
    <3>1. Len(loaded') = 0 /\ line' = 1
      BY <2>1 DEF BootInit
    <3>2. \A i \in 1..NumKeys : Line[i] \in 1..Len(KeysFile)
      BY LineNumbers
    <3> QED
      BY <3>1, <3>2, FileHasLines DEF KeysInv
  <2> QED
    BY <2>2, <2>3, <2>4 DEF BootInv
<1>3. CASE ~Boots /\ ~StartsAgain
  <2>1. UNCHANGED <<boot, dbType, asked, poolSize, line, loaded>> /\ listening' \in {listening, TRUE}
    BY <1>3 DEF ProgramNext, progVars, bootVars, settings, Works, ShutsDown, Listen, Signalled, Dies
  <2>2. \/ boot = "up"
        \/ main' = main
        \/ Alive /\ main' = "crashed"
    BY <1>3 DEF ProgramNext, progVars, Works, ShutsDown, ShutdownStep, CloseResources,
       Signalled, Signal, Dies, Killed, Listen, appVars, vars
  <2>3. boot = "down" => main' = main
    BY <2>2 DEF BootInv, StageInv, Alive
  <2>4. BootTypeOK'
    BY <2>1 DEF BootInv, BootTypeOK
  <2>5. StageInv'
    BY <2>1, <2>2, <2>3 DEF BootInv, StageInv, PoolConfigured, MaxConns
  <2>6. KeysInv'
    BY <2>1 DEF BootInv, KeysInv
  <2> QED
    BY <2>4, <2>5, <2>6 DEF BootInv
<1> QED
  BY <1>1, <1>2, <1>3

LEMMA BootInvHolds == ProgramSpec => []BootInv
  BY BootInvInitially, BootInvInductive, PTL DEF ProgramSpec

(***************************************************************************)
(* What the startup loads stays what it was declared to be.                *)
(***************************************************************************)
THEOREM ProgramTypeCorrect == ProgramSpec => []ProgramTypeOK
<1>1. BootInv => BootTypeOK
  BY DEF BootInv
<1> QED
  BY <1>1, StartsAreSessionsOfTheMode, SequentialTypeCorrect, BootInvHolds, PTL
  DEF StartsAreSessions, ProgramTypeOK

(***************************************************************************)
(* keyloader.go: the run works on every valid key of the file, in its      *)
(* order, whatever stands between them.                                    *)
(***************************************************************************)
THEOREM RunsOnTheKeysOfTheFile == ProgramSpec => []WorksOnTheKeysOfTheFile
<1>1. BootInv => WorksOnTheKeysOfTheFile
  <2> SUFFICES ASSUME BootInv, main # "prepare", boot # "down", Alive
               PROVE  loaded = [i \in 1..NumKeys |-> KeyAddress[i - 1]]
    BY DEF WorksOnTheKeysOfTheFile
  <2>1. line = Len(KeysFile) + 1
    BY DEF BootInv, StageInv, Alive
  <2>2. \A i \in 1..NumKeys : Line[i] < line
    BY <2>1, LineNumbers, FileHasLines
  <2>3. Len(loaded) \in 0..NumKeys /\ NumKeys \in 1..NumKeys /\ loaded \in Seq(Addresses)
    BY FileHasLines DEF BootInv, KeysInv, BootTypeOK
  <2>4. Len(loaded) = NumKeys
    BY <2>2, <2>3, FileHasLines DEF BootInv, KeysInv
  <2>5. \A i \in 1..NumKeys : loaded[i] = KeyAddress[i - 1]
    BY <2>4 DEF BootInv, KeysInv
  <2> QED
    BY <2>3, <2>4, <2>5
<1> QED
  BY <1>1, BootInvHolds, PTL

(***************************************************************************)
(* database.go: the configured pool has the size the operator asks for if  *)
(* that is a number from one to the greatest int32, and the driver's       *)
(* default if nothing above zero is asked for; a start is refused only for *)
(* a number above the greatest int32.                                      *)
(***************************************************************************)
THEOREM PoolHasTheSizeAskedFor == ProgramSpec => []PoolSizeHonoured
<1>1. BootInv => PoolSizeHonoured
  <2> SUFFICES ASSUME BootInv PROVE PoolSizeHonoured
    OBVIOUS
  <2>0. MaxInt32 \in Nat \ {0} /\ 1 \in Nat \ {0} /\ 60 \in Nat \ {0}
    BY StartupAssumption
  <2>1. ASSUME asked \in 1..MaxInt32 PROVE Int32!Wrap(asked) = asked
    <3>1. asked \in P32!MachineInt
      BY <2>0, <2>1 DEF P32!MachineInt, P32!MinInt
    <3>2. P32!Wrap(asked) = asked
      BY <2>0, <3>1, P32!WrapFits DEF P32!RandomRangeAssumption
    <3> QED
      BY <3>2 DEF P32!Wrap, P32!MinInt, Int32!Wrap, Int32!MinInt
  <2>2. ASSUME PoolConfigured, asked \in 1..MaxInt32 PROVE poolSize = asked
    <3>1. asked \notin {Unset, Junk} /\ Positive(asked)
      BY <2>0, <2>2, StartupAssumption DEF Positive
    <3>2. poolSize = MaxConns
      BY <2>2 DEF BootInv, StageInv
    <3> QED
      BY <2>1, <2>2, <3>1, <3>2 DEF MaxConns
  <2>3. ASSUME PoolConfigured, asked \notin Nat \ {0} PROVE poolSize = Unset
    <3>1. asked \notin {Unset, Junk} => asked \in Int /\ ~Positive(asked)
      BY <2>3, StartupAssumption DEF BootInv, BootTypeOK, Positive
    <3>2. poolSize = MaxConns
      BY <2>3 DEF BootInv, StageInv
    <3> QED
      BY <3>1, <3>2 DEF MaxConns
  <2>4. ASSUME PoolRefused PROVE asked > MaxInt32
    <3>1. asked \in Int /\ asked > 0 /\ poolSize = Int32!Wrap(asked) /\ poolSize < 1
      BY <2>4 DEF BootInv, StageInv, PoolRefused
    <3>2. asked \notin 1..MaxInt32
      BY <2>1, <3>1
    <3> QED
      BY <2>0, <3>1, <3>2
  <2> QED
    BY <2>2, <2>3, <2>4 DEF PoolSizeHonoured
<1> QED
  BY <1>1, BootInvHolds, PTL
=============================================================================
