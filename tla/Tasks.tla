-------------------------------- MODULE Tasks --------------------------------
(***************************************************************************)
(* runner.Run of the tasks: log_balance asks for a balance, dummy_task     *)
(* sleeps.  A third kind stands for the tasks the template is made for,    *)
(* which wait for the receipt of a transaction.                            *)
(***************************************************************************)
EXTENDS EvmClient

CONSTANT TaskKinds  \* the kinds of task the configuration enables

ASSUME TasksAssumption == TaskKinds \subseteq {"log_balance", "dummy_task", "receipt"}

VARIABLE kind   \* the current task's, "none" outside one

NeedsClient(k) == k \in {"log_balance", "receipt"}

TasksTypeOK == kind \in TaskKinds \cup {"none"}

(***************************************************************************)
(* On the network "any" a task is handed a nil client: the first call of   *)
(* its methods panics.                                                     *)
(***************************************************************************)
FirstStep ==
    CASE kind = "dummy_task"  -> "sleep"
      [] kind = "log_balance" -> "call"
      [] kind = "receipt"    -> "poll"

Run ==
    /\ step = "run"
    /\ step' = IF NeedsClient(kind) /\ ~client THEN "panicked" ELSE FirstStep
    /\ UNCHANGED <<clientVars, err, cancelled, kind>>

(***************************************************************************)
(* dummy_task: time.Sleep, which does not look at the context.             *)
(***************************************************************************)
Sleep ==
    /\ step = "sleep"
    /\ Returns("nil")
    /\ UNCHANGED <<clientVars, cancelled, kind>>

TaskStep == Run \/ Sleep \/ (ClientStep /\ UNCHANGED kind)
=============================================================================
