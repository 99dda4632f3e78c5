------------------------------- MODULE Startup -------------------------------
(***************************************************************************)
(* main before Run: configuration, database, keys and tasks are loaded in  *)
(* this order, and whatever fails ends the program with exit status 1.     *)
(* While it lasts the main goroutine has not reached prepare: main stays   *)
(* at "prepare" until the program is up.                                   *)
(***************************************************************************)
EXTENDS Application, Sequences

CONSTANTS
    KeysFile,       \* its lines: an address for a valid key, or
    Blank,          \*   an empty line or a comment,
    Malformed,      \*   anything else
    DBTypes,        \* database.type, DB_TYPE: "postgres", "sqlite", "none"
    PoolSettings,   \* pool_max_conns, DB_POOL_MAX_CONNS: a number, or
    Unset,          \*   nothing,
    Junk,           \*   something Atoi refuses
    MaxInt32        \* the greatest int32

ASSUME StartupAssumption ==
    /\ KeysFile \in Seq(Addresses \cup {Blank, Malformed})
    /\ {Blank, Malformed} \cap Addresses = {}
    /\ DBTypes \subseteq IF Durable THEN {"postgres", "sqlite"} ELSE {"none"}
    /\ PoolSettings \subseteq Int \cup {Unset, Junk}
    /\ Unset \notin Int /\ Junk \notin Int
    /\ MaxInt32 \in Nat \ {0}

Int32 == INSTANCE RandomRange WITH MaxInt <- MaxInt32, Second <- 1, Minute <- 60

VARIABLES
    boot,       \* what is loaded next; "up" before Run, "down" after Fatal
    dbType,     \* cfg.Database.Type, as the file or the environment has it
    asked,      \* cfg.Database.PoolMaxConns, likewise
    poolSize,   \* MaxConns of the pool, Unset for the driver's default
    line,       \* line of the keys file the scanner has reached
    loaded,     \* addresses of the keys loaded so far
    listening   \* gracefulShutdown has called signal.Notify

settings == <<dbType, asked, poolSize>>
bootVars == <<boot, settings, line, loaded, listening>>

BootStates == {"config", "storage", "pool", "ping", "schema", "keys", "tasks",
               "up", "down"}

BootTypeOK ==
    /\ boot \in BootStates
    /\ dbType \in DBTypes \cup {Unset}
    /\ asked \in PoolSettings \cup {Unset}
    /\ poolSize \in Int \cup {Unset}
    /\ line \in 1..(Len(KeysFile) + 1)
    /\ loaded \in Seq(Addresses)
    /\ listening \in BOOLEAN

BootInit ==
    /\ boot = "config"
    /\ dbType = Unset /\ asked = Unset /\ poolSize = Unset
    /\ line = 1 /\ loaded = <<>>
    /\ listening = FALSE

BootReset ==
    /\ boot' = "config"
    /\ dbType' = Unset /\ asked' = Unset /\ poolSize' = Unset
    /\ line' = 1 /\ loaded' = <<>>
    /\ listening' = FALSE

(***************************************************************************)
(* log.Fatal is os.Exit(1): no deferred call runs, nothing is closed.      *)
(***************************************************************************)
\* A bug: main returns after the message.
FatalReturns == "exited"

FatalEnds == "crashed"

Fatal == boot' = "down" /\ main' = FatalEnds

MovesOn(from, to) == boot = from /\ boot' = to /\ UNCHANGED main

(***************************************************************************)
(* LoadConfig: a variable of the environment, when not empty, replaces the *)
(* file's setting.                                                         *)
(***************************************************************************)
LoadConfig ==
    /\ MovesOn("config", "storage")
    /\ dbType' \in DBTypes
    /\ asked' \in PoolSettings
    /\ UNCHANGED <<poolSize, line, loaded, listening>>

(***************************************************************************)
(* setupPostgresConnection: a setting that is no number, or not above      *)
(* zero, leaves the driver's default; any other is narrowed to an int32.   *)
(***************************************************************************)
\* A bug: zero is taken for a size.
NotNegative(n) == n >= 0

Positive(n) == n > 0

MaxConns ==
    IF asked \in {Unset, Junk} THEN Unset
    ELSE IF Positive(asked) THEN Int32!Wrap(asked) ELSE Unset

(***************************************************************************)
(* NewStorage.  The noop store needs no connection.                        *)
(***************************************************************************)
OpenStorage ==
    /\ \/ dbType = "postgres" /\ MovesOn("storage", "pool") /\ poolSize' = MaxConns
       \/ dbType = "sqlite" /\ MovesOn("storage", "ping") /\ UNCHANGED poolSize
       \/ dbType = "none" /\ MovesOn("storage", "keys") /\ UNCHANGED poolSize
    /\ UNCHANGED <<dbType, asked, line, loaded, listening>>

PoolRefused == boot = "pool" /\ poolSize # Unset /\ poolSize < 1

CreatePool ==
    /\ ~PoolRefused
    /\ MovesOn("pool", "ping")
    /\ UNCHANGED <<settings, line, loaded, listening>>

Ping == MovesOn("ping", "schema") /\ UNCHANGED <<settings, line, loaded, listening>>

CreateTables == MovesOn("schema", "keys") /\ UNCHANGED <<settings, line, loaded, listening>>

(***************************************************************************)
(* What can go wrong outside the program: the file is missing, unreadable  *)
(* or malformed; the database's type is unknown, its connection string     *)
(* missing or wrong, its directory cannot be made; it does not answer, or  *)
(* refuses the tables; the keys cannot be read.  A task entered twice      *)
(* panics, which main's recover makes a Fatal too.                         *)
(***************************************************************************)
MayFail == {"config", "storage", "ping", "schema", "keys", "tasks"}

Refused ==
    /\ boot \in MayFail \/ PoolRefused
    /\ Fatal
    /\ UNCHANGED <<settings, line, loaded, listening>>

(***************************************************************************)
(* LoadKeys, line by line: what is not a key is passed over, with or       *)
(* without a warning; a file without any is an error.                      *)
(***************************************************************************)
\* A bug: what cannot be parsed is kept.
KeepsMalformed(l) == l # Blank

IsKey(l) == l \notin {Blank, Malformed}

ReadKey ==
    /\ MovesOn("keys", "keys")
    /\ line <= Len(KeysFile)
    /\ line' = line + 1
    /\ loaded' = IF IsKey(KeysFile[line]) THEN Append(loaded, KeysFile[line]) ELSE loaded
    /\ UNCHANGED <<settings, listening>>

KeysRead ==
    /\ line > Len(KeysFile)
    /\ boot = "keys"
    /\ IF loaded = <<>> THEN Fatal ELSE MovesOn("keys", "tasks")
    /\ UNCHANGED <<settings, line, loaded, listening>>

RegisterTasks == MovesOn("tasks", "up") /\ UNCHANGED <<settings, line, loaded, listening>>

BootStep ==
    /\ main = "prepare"
    /\ \/ LoadConfig \/ OpenStorage \/ CreatePool \/ Ping \/ CreateTables
       \/ ReadKey \/ KeysRead \/ RegisterTasks \/ Refused
    /\ UNCHANGED <<session, wallets, first, next, cancelled, shutdown,
                   completed, storageVars>>

(***************************************************************************)
(* The shutdown goroutine is started before Run, but signal.Notify is only *)
(* called when it gets to run: until then a signal kills the program.      *)
(***************************************************************************)
Listen ==
    /\ boot = "up"
    /\ Alive
    /\ ~listening
    /\ listening' = TRUE
    /\ UNCHANGED <<appVars, boot, settings, line, loaded>>
=============================================================================
