----------------------------- MODULE WalletTasks -----------------------------
(***************************************************************************)
(* What Process promises of one wallet, whatever its tasks do: they are    *)
(* begun one at a time, none after the cancellation; the wallet counts as  *)
(* completed only when all of them are over and none failed, as failed     *)
(* only when all of them are over; it is interrupted in the course of a    *)
(* task, or else by the cancellation.  It may panic while its tasks are    *)
(* selected or worked on, and does nothing after that.                     *)
(***************************************************************************)
EXTENDS Integers

CONSTANT Limit      \* the most tasks a wallet may get, a natural number

VARIABLES verdict, left, busy, failed, cancelled

taskState == <<verdict, left, busy, failed, cancelled>>

Init ==
    /\ verdict = "selecting"
    /\ left = 0
    /\ busy = FALSE
    /\ failed = FALSE
    /\ cancelled = FALSE

Ends(as) ==
    /\ verdict' = as
    /\ left' = 0
    /\ busy' = FALSE
    /\ failed' = FALSE
    /\ UNCHANGED cancelled

Select ==
    /\ verdict = "selecting"
    /\ \/ Ends("completed")
       \/ /\ left' \in 1..Limit
          /\ verdict' = "working"
          /\ UNCHANGED <<busy, failed, cancelled>>

Begin ==
    /\ verdict = "working"
    /\ ~busy /\ ~cancelled
    /\ left > 0
    /\ left' = left - 1
    /\ busy' = TRUE
    /\ UNCHANGED <<verdict, failed, cancelled>>

End ==
    /\ busy
    /\ busy' = FALSE
    /\ failed' \in {failed, TRUE}
    /\ UNCHANGED <<verdict, left, cancelled>>

AllOver == verdict = "working" /\ ~busy /\ left = 0

Complete == AllOver /\ ~failed /\ Ends("completed")

Fail == AllOver /\ failed /\ Ends("failed")

Interrupt == verdict = "working" /\ (busy \/ cancelled) /\ Ends("interrupted")

Panic == verdict \in {"selecting", "working"} /\ Ends("panicked")

Cancel == cancelled' = TRUE /\ UNCHANGED <<verdict, left, busy, failed>>

Next == Select \/ Begin \/ End \/ Complete \/ Fail \/ Interrupt \/ Panic \/ Cancel

Spec == Init /\ [][Next]_taskState
=============================================================================
