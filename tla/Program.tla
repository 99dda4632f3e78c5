------------------------------- MODULE Program -------------------------------
(***************************************************************************)
(* The whole program in the sequential mode: every start loads what it     *)
(* needs (Startup), or ends there, and only then works through the wallets *)
(* (SequentialRun).                                                        *)
(***************************************************************************)
EXTENDS SequentialRun, Startup

(***************************************************************************)
(* The entries of SequentialRun are the keys in the lines of the file,     *)
(* numbered as they come.                                                  *)
(***************************************************************************)
Numbers(lineOf) ==
    /\ \A i, j \in 1..NumKeys : i < j => lineOf[i] < lineOf[j]
    /\ \A i \in 1..NumKeys : KeysFile[lineOf[i]] = KeyAddress[i - 1]
    /\ \A l \in 1..Len(KeysFile) :
         KeysFile[l] \in Addresses => \E i \in 1..NumKeys : lineOf[i] = l

ASSUME ProgramAssumption ==
    \E lineOf \in [1..NumKeys -> 1..Len(KeysFile)] : Numbers(lineOf)

progVars == <<vars, bootVars>>

ProgramTypeOK == TypeOK /\ BootTypeOK

ProgramInit == Init /\ BootInit

Boots == BootStep /\ UNCHANGED last

Works == boot = "up" /\ MainStep /\ UNCHANGED bootVars

ShutsDown == ShutdownStep /\ UNCHANGED bootVars

Signalled == listening /\ Signal /\ UNCHANGED <<last, bootVars>>

Dies == Killed /\ UNCHANGED <<last, bootVars>>

StartsAgain == Restart /\ BootReset

ProgramNext ==
    \/ Boots \/ Works \/ ShutsDown
    \/ Listen /\ UNCHANGED last
    \/ Signalled \/ Dies
    \/ StartsAgain
    \/ Terminated /\ UNCHANGED progVars

ProgramSpec == ProgramInit /\ [][ProgramNext]_progVars

(***************************************************************************)
(* Files are read, and the database answers or refuses, in finite time.    *)
(* Of the database that is an assumption: neither the ping of the startup  *)
(* nor the reading of the saved index in prepare has a deadline of its     *)
(* own, and the stores add none.  That Process returns or panics is        *)
(* another; Processor says what it rests on.                               *)
(***************************************************************************)
FairProgramSpec ==
    /\ ProgramSpec
    /\ WF_progVars(Boots) /\ WF_progVars(Works) /\ WF_progVars(ShutsDown)

-----------------------------------------------------------------------------

(***************************************************************************)
(* A start that is refused is, to what follows, a session killed before it *)
(* touched anything: what SequentialRun was shown to do over any number of *)
(* starts holds of the program with its startup.                           *)
(***************************************************************************)
StartsAreSessions == Spec

(***************************************************************************)
(* The wallets the run works on are the valid keys of the file, all of     *)
(* them, in its order, however many lines between them are none: the       *)
(* position of a key is what the checkpoint records.                       *)
(***************************************************************************)
WorksOnTheKeysOfTheFile ==
    main # "prepare" /\ boot # "down" =>
        \/ ~Alive
        \/ loaded = [i \in 1..NumKeys |-> KeyAddress[i - 1]]

(***************************************************************************)
(* database.go: once it is configured, the pool has the size asked for,    *)
(* whenever that is a number from one to the greatest int32; nothing set,  *)
(* no number, zero or less leave the driver's default (Unset); and only a  *)
(* number above the greatest int32 keeps the program from starting.        *)
(***************************************************************************)
PoolConfigured == dbType = "postgres" /\ boot \notin {"config", "storage", "down"}

PoolSizeHonoured ==
    /\ PoolConfigured /\ asked \in 1..MaxInt32 => poolSize = asked
    /\ PoolConfigured /\ asked \notin Nat \ {0} => poolSize = Unset
    /\ PoolRefused => asked > MaxInt32
=============================================================================
