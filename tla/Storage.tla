------------------------------- MODULE Storage -------------------------------
(***************************************************************************)
(* The state store: the one row of application_state the program uses,     *)
(* "last_completed_wallet_index", behind the StateStorage interface.  The  *)
(* PostgreSQL and SQLite stores are one durable store here, the noop store *)
(* is Durable = FALSE.  The index is written with strconv.Itoa and read    *)
(* with strconv.Atoi, which agree on every value the program writes.       *)
(***************************************************************************)
EXTENDS Integers

CONSTANTS
    Durable,        \* TRUE for postgres and sqlite, FALSE for the noop store
    ReadMayFail,    \* whether a query for the row may fail on an open store
    WriteMayFail    \* whether a write of the row may fail on an open store

ASSUME StorageAssumption ==
    /\ Durable \in BOOLEAN
    /\ ReadMayFail \in BOOLEAN
    /\ WriteMayFail \in BOOLEAN

VARIABLES
    storeOpen,  \* FALSE once Close ran (the pool refuses every later query)
    saved       \* the row's value, NoIndex while the row does not exist

storageVars == <<storeOpen, saved>>

NoIndex == -1

StorageInit == storeOpen = TRUE /\ saved = NoIndex

(***************************************************************************)
(* The values GetState may hand to its caller.  Every caller takes a       *)
(* missing row, a failed query and a dead context for "no state".          *)
(***************************************************************************)
GetState(ctxDone) ==
    (IF Durable /\ storeOpen /\ ~ctxDone THEN {saved} ELSE {NoIndex})
        \cup (IF ReadMayFail THEN {NoIndex} ELSE {})

(***************************************************************************)
(* SetState(v) upserts the row.  On a closed store, or on the noop store,  *)
(* nothing is written; no caller does more with the error than log it.     *)
(* SetStateFails is an attempt whose write never reaches the row: a query  *)
(* that reports an error after committing behaves like SetState.           *)
(***************************************************************************)
SetState(v) ==
    /\ saved' = IF Durable /\ storeOpen THEN v ELSE saved
    /\ UNCHANGED storeOpen

SetStateFails == WriteMayFail /\ UNCHANGED storageVars

(***************************************************************************)
(* Close closes the pool; the row survives it.                             *)
(***************************************************************************)
CloseStore == storeOpen' = FALSE /\ UNCHANGED saved

(***************************************************************************)
(* A new process opens the store again and finds the row it left.          *)
(***************************************************************************)
ReopenStore == storeOpen' = TRUE /\ UNCHANGED saved
=============================================================================
