----------------------------- MODULE Application -----------------------------
(***************************************************************************)
(* What main.go and internal/app share between the parallel and the        *)
(* sequential mode: the wallet list, the choice of where to resume, the    *)
(* shutdown goroutine, and the end and restart of the process.             *)
(*                                                                         *)
(* Key entries are numbered by their line in the keys file; a position is  *)
(* an index into a.wallets, which rand.Shuffle permutes in place.          *)
(***************************************************************************)
EXTENDS Storage, FiniteSets, FiniteSetsExt, Functions

CONSTANTS
    NumKeys,            \* entries LoadKeys returned (at least one)
    KeyAddress,         \* the address of each entry; entries may repeat
    RandomOrder,        \* wallets.process_order = random
    MaxParallelWallets, \* concurrency.max_parallel_wallets, any integer
    ResumeEnabled,      \* state.resume_enabled
    TaskMayPanic,       \* whether some task of the configuration may panic
    MaxSessions         \* bound: how many times the program is started

ASSUME ApplicationAssumption ==
    /\ NumKeys \in Nat \ {0}
    /\ DOMAIN KeyAddress = 0..(NumKeys - 1)
    /\ RandomOrder \in BOOLEAN
    /\ MaxParallelWallets \in Int
    /\ ResumeEnabled \in BOOLEAN
    /\ TaskMayPanic \in BOOLEAN
    /\ MaxSessions \in Nat \ {0}

VARIABLES
    session,    \* the number of this start of the program
    main,       \* where the main goroutine is
    wallets,    \* a.wallets: position -> key entry
    first,      \* keysToProcess is a.wallets[first:]
    next,       \* position the loop over keysToProcess has reached
    cancelled,  \* ctx.Done() is closed
    shutdown,   \* the gracefulShutdown goroutine: armed, closing, done
    completed   \* history: addresses whose Process returned nil, ever

appVars == <<session, main, wallets, first, next, cancelled, shutdown,
             completed, storeOpen, saved>>

Index == 0..(NumKeys - 1)
Addresses == Range(KeyAddress)

MainStates == {"prepare", "run", "loop", "slot", "process", "save", "pause",
               "stopped", "wait", "exited", "crashed"}

Alive == main \notin {"exited", "crashed"}
Sequential == MaxParallelWallets <= 1

FileOrder == [p \in Index |-> p]
Address(p) == KeyAddress[wallets[p]]

(***************************************************************************)
(* findOriginalIndex: the first position of a.wallets with p's address.    *)
(* It searches the list as shuffled, so it is an index into that list.     *)
(***************************************************************************)
OriginalIndex(p) == Min({q \in Index : Address(q) = Address(p)})

AppTypeOK ==
    /\ session \in 1..MaxSessions
    /\ main \in MainStates
    /\ wallets \in [Index -> Index]
    /\ first \in 0..NumKeys
    /\ next \in 0..NumKeys
    /\ cancelled \in BOOLEAN
    /\ shutdown \in {"armed", "closing", "done"}
    /\ completed \in SUBSET Addresses
    /\ storeOpen \in BOOLEAN
    /\ saved \in Index \cup {NoIndex}

AppInit ==
    /\ StorageInit
    /\ session = 1
    /\ main = "prepare"
    /\ wallets = FileOrder
    /\ first = 0
    /\ next = 0
    /\ cancelled = FALSE
    /\ shutdown = "armed"
    /\ completed = {}

(***************************************************************************)
(* What a caller of GetState makes of the row, -1 when resume is off.      *)
(***************************************************************************)
LastCompleted(ctxDone) == IF ResumeEnabled THEN GetState(ctxDone) ELSE {NoIndex}

(***************************************************************************)
(* prepareWalletsToProcess.  ResumeFrom is startIndex, clipped to the end  *)
(* of the list when every wallet is behind it; Shuffles is shouldShuffle   *)
(* after the resume branch; rand.Shuffle reorders a.wallets itself.        *)
(***************************************************************************)
ResumeFrom(last) == IF last + 1 < NumKeys THEN last + 1 ELSE NumKeys

Shuffles(last) == RandomOrder /\ last < 0

\* A bug: a shuffle that overwrites instead of swapping.
OverwritingOrders(last) ==
    IF Shuffles(last)
    THEN {[wallets EXCEPT ![i] = wallets[j]] : i, j \in Index}
    ELSE {wallets}

Orders(last) ==
    IF Shuffles(last) THEN {o \in [Index -> Index] : IsInjective(o)} ELSE {wallets}

Prepare ==
    /\ main = "prepare"
    /\ \E last \in LastCompleted(cancelled) :
         /\ first' = ResumeFrom(last)
         /\ next' = ResumeFrom(last)
         /\ wallets' \in Orders(last)
         /\ main' = IF ResumeFrom(last) < NumKeys THEN "run" ELSE "wait"
    /\ UNCHANGED <<session, cancelled, shutdown, completed, storageVars>>

(***************************************************************************)
(* gracefulShutdown: the first SIGINT or SIGTERM cancels the context and   *)
(* the goroutine then closes the store, whatever still uses it.  Further   *)
(* signals stay in the channel unread.                                     *)
(***************************************************************************)
Signal ==
    /\ Alive
    /\ shutdown = "armed"
    /\ cancelled' = TRUE
    /\ shutdown' = "closing"
    /\ UNCHANGED <<session, main, wallets, first, next, completed, storageVars>>

CloseResources ==
    /\ Alive
    /\ shutdown = "closing"
    /\ CloseStore
    /\ shutdown' = "done"
    /\ UNCHANGED <<session, main, wallets, first, next, cancelled, completed>>

(***************************************************************************)
(* The process ends without a word: SIGKILL, power loss, or a signal that  *)
(* arrives before signal.Notify.                                           *)
(***************************************************************************)
Killed ==
    /\ Alive
    /\ main' = "crashed"
    /\ UNCHANGED <<session, wallets, first, next, cancelled, shutdown,
                   completed, storageVars>>

(***************************************************************************)
(* The program is started again on the same keys file and the same store.  *)
(***************************************************************************)
Reboot ==
    /\ ~Alive
    /\ session < MaxSessions
    /\ session' = session + 1
    /\ main' = "prepare"
    /\ wallets' = FileOrder
    /\ first' = 0
    /\ next' = 0
    /\ cancelled' = FALSE
    /\ shutdown' = "armed"
    /\ ReopenStore
    /\ UNCHANGED completed

Terminated == ~Alive /\ session = MaxSessions

-----------------------------------------------------------------------------

(***************************************************************************)
(* app_prepare.go, when the row points at the last wallet: "all wallets    *)
(* were already processed in the previous session".                        *)
(***************************************************************************)
AllProcessedAsLogged == first = NumKeys => Addresses \subseteq completed
=============================================================================
