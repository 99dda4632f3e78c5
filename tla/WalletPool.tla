----------------------------- MODULE WalletPool -----------------------------
(***************************************************************************)
(* What both modes promise about one start of the program after another:   *)
(* a session opens with a suffix of the wallet list, processes each of its *)
(* wallets at most once and at most Limit at a time, starts none after the *)
(* cancellation, lets at most Limit - 1 waiting wallets be overtaken, and  *)
(* closes only when nothing is being processed and nothing is left to do   *)
(* (unless it was cancelled or, in a pool that stops on the first failure, *)
(* a wallet failed).                                                       *)
(***************************************************************************)
EXTENDS Integers, FiniteSets

CONSTANTS
    Size,           \* wallets in the keys file
    Limit,          \* wallets processed at the same time
    StopOnFailure,  \* whether the first failure ends the session
    MaySkip         \* whether a wallet may be passed over

VARIABLES status, pending, running, cancelled, broken

poolState == <<status, pending, running, cancelled, broken>>

Wallet == 0..(Size - 1)

Init ==
    /\ status = "opening"
    /\ pending = {}
    /\ running = {}
    /\ cancelled = FALSE
    /\ broken = FALSE

Open ==
    /\ status = "opening"
    /\ status' = "open"
    /\ \E from \in 0..Size : pending' = {w \in Wallet : w >= from}
    /\ UNCHANGED <<running, cancelled, broken>>

Overtaken(w) == {v \in pending : v < w}

Start(w) ==
    /\ status = "open"
    /\ ~cancelled /\ ~broken
    /\ w \in pending
    /\ Cardinality(running) < Limit
    /\ Cardinality(Overtaken(w)) < Limit
    /\ pending' = pending \ {w}
    /\ running' = running \cup {w}
    /\ UNCHANGED <<status, cancelled, broken>>

Finish(w) ==
    /\ w \in running
    /\ running' = running \ {w}
    /\ broken' \in {broken, StopOnFailure}
    /\ UNCHANGED <<status, pending, cancelled>>

Drop(w) ==
    /\ status = "open"
    /\ cancelled \/ MaySkip
    /\ w \in pending
    /\ pending' = pending \ {w}
    /\ UNCHANGED <<status, running, cancelled, broken>>

Cancel ==
    /\ status \in {"opening", "open"}
    /\ cancelled' = TRUE
    /\ UNCHANGED <<status, pending, running, broken>>

Ends(as) ==
    /\ status' = as
    /\ pending' = {}
    /\ running' = {}
    /\ broken' = FALSE
    /\ UNCHANGED cancelled

Close ==
    /\ status = "open"
    /\ running = {}
    /\ pending = {} \/ cancelled \/ broken
    /\ Ends("closed")

Die == status \in {"opening", "open"} /\ Ends("dead")

Reopen ==
    /\ status \in {"closed", "dead"}
    /\ status' = "opening"
    /\ cancelled' = FALSE
    /\ UNCHANGED <<pending, running, broken>>

Next ==
    \/ Open \/ Cancel \/ Close \/ Die \/ Reopen
    \/ \E w \in Wallet : Start(w) \/ Finish(w) \/ Drop(w)

Spec == Init /\ [][Next]_poolState
=============================================================================
