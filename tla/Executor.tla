------------------------------ MODULE Executor ------------------------------
(***************************************************************************)
(* ExecuteTaskWithRetries: the attempts at one task, with the pauses       *)
(* between them.                                                           *)
(***************************************************************************)
EXTENDS Tasks, RandomRange

(***************************************************************************)
(* Values of cfg.Delay: a record of the attempts and of the ranges         *)
(* betweenRetries, afterError and betweenActions.                          *)
(***************************************************************************)
CONSTANT Delays

DelayFields == {"betweenRetries", "afterError", "betweenActions"}

ASSUME ExecutorAssumption ==
    \A d \in Delays : d.attempts \in Int
                      /\ \A f \in DelayFields : {d[f].min, d[f].max} \subseteq MachineInt

VARIABLES
    delay,      \* cfg.Delay, the same all along
    attempt     \* number of the current attempt

execVars == <<delay, attempt>>

MaxAttempts == IF delay.attempts <= 0 THEN 1 ELSE delay.attempts

ExecTypeOK ==
    /\ delay \in Delays
    /\ attempt \in 0..MaxAttempts

(***************************************************************************)
(* A pause of a random length: the draw may panic, or its unit may be      *)
(* unknown, which passes over the pause.  A pause of no length is one too. *)
(***************************************************************************)
Pause(range, pause, otherwise) ==
    step' = CASE DurationPanics(range)                        -> "panicked"
              [] ~DurationPanics(range) /\ UnitKnown(range)   -> pause
              [] ~DurationPanics(range) /\ ~UnitKnown(range)  -> otherwise

\* A bug: one attempt too many.
MayRetryOnceMore == attempt <= MaxAttempts

MayRetry == attempt < MaxAttempts

Succeeds ==
    /\ step = "ran"
    /\ err = "nil"
    /\ step' = "close"
    /\ UNCHANGED attempt

(***************************************************************************)
(* Between attempts: the next one is made at once if the pause cannot be   *)
(* computed, without a look at the context.                                *)
(***************************************************************************)
Retries ==
    /\ step = "ran"
    /\ err # "nil"
    /\ MayRetry
    /\ Pause(delay.betweenRetries, "retryPause", "run")
    /\ attempt' = IF step' = "run" THEN attempt + 1 ELSE attempt

(***************************************************************************)
(* After the last: the pause is asked for if one of its bounds is.         *)
(***************************************************************************)
GivesUp ==
    /\ step = "ran"
    /\ err # "nil"
    /\ ~MayRetry
    /\ IF delay.afterError.min > 0 \/ delay.afterError.max > 0
       THEN Pause(delay.afterError, "errorPause", "close")
       ELSE step' = "close"
    /\ UNCHANGED attempt

(***************************************************************************)
(* The pause before the next attempt: the timer may win even when the      *)
(* context is done too.                                                    *)
(***************************************************************************)
RetryPauseEnds ==
    /\ step = "retryPause"
    /\ step' = "run"
    /\ attempt' = attempt + 1

(***************************************************************************)
(* The context ends the pauses; the error returned is still the task's.    *)
(***************************************************************************)
RetryPauseInterrupted ==
    /\ step = "retryPause"
    /\ cancelled
    /\ step' = "close"
    /\ UNCHANGED attempt

ErrorPauseEnds ==
    /\ step = "errorPause"
    /\ step' = "close"
    /\ UNCHANGED attempt

Attempt ==
    \/ Succeeds \/ Retries \/ GivesUp
    \/ RetryPauseEnds \/ RetryPauseInterrupted \/ ErrorPauseEnds

ExecutorStep ==
    /\ UNCHANGED delay
    /\ \/ Attempt /\ UNCHANGED <<clientVars, err, cancelled, kind>>
       \/ TaskStep /\ UNCHANGED attempt
=============================================================================
