------------------------------ MODULE EvmClient ------------------------------
(***************************************************************************)
(* The EVM client a task works with: NewClient, Close, a call, and the     *)
(* polling of WaitForReceipt.  It runs in the goroutine of one wallet,     *)
(* whose control point is step; Tasks, Executor and Processor are the      *)
(* callers, one above the other.                                           *)
(***************************************************************************)
EXTENDS Integers

(***************************************************************************)
(* How the URLs of a network behave: a live one answers, a dead one        *)
(* refuses the connection or the request, a silent one never answers.      *)
(***************************************************************************)
CONSTANT Nodes

ASSUME ClientAssumption == Nodes # {} /\ Nodes \subseteq {"live", "silent", "dead"}

VARIABLES
    step,       \* control point of the wallet's goroutine
    node,       \* the URL NewClient has drawn, "none" outside it
    client,     \* the task's client is not nil
    open,       \* RPC connections open
    err,        \* what the last call returned
    cancelled   \* ctx.Done() is closed

clientVars == <<node, client, open>>

(***************************************************************************)
(* What errors.Is tells apart: context.Canceled, DeadlineExceeded and the  *)
(* rest.  A deadline is always that of a single call (five seconds for the *)
(* chain id, thirty for a balance): the program's context has none.        *)
(***************************************************************************)
Errors == {"nil", "failure", "canceled", "deadline"}

IsContextError(e) == e \in {"canceled", "deadline"}

ClientTypeOK ==
    /\ node \in Nodes \cup {"none"}
    /\ client \in BOOLEAN
    /\ open \in 0..1
    /\ err \in Errors
    /\ cancelled \in BOOLEAN

Canceled == IF cancelled THEN {"canceled"} ELSE {}

(***************************************************************************)
(* NewClient: one URL, drawn at random, is dialled and asked for its chain *)
(* id; the connection is closed again when it does not answer.  The chain  *)
(* id is given five seconds; the dial has the caller's context only and,   *)
(* while that is not done, may last for ever: no step ends it then.        *)
(***************************************************************************)
Dial ==
    /\ step = "dial"
    /\ node' \in Nodes
    /\ open' = open + 1
    /\ step' = "chainId"
    /\ UNCHANGED <<client, err, cancelled>>

DialFails ==
    /\ step = "dial"
    /\ err' \in Canceled \cup (IF "dead" \in Nodes THEN {"failure"} ELSE {})
    /\ step' = "notPrepared"
    /\ UNCHANGED <<clientVars, cancelled>>

ChainId ==
    /\ step = "chainId"
    /\ node = "live"
    /\ client' = TRUE
    /\ node' = "none"
    /\ step' = "run"
    /\ UNCHANGED <<open, err, cancelled>>

\* A bug: the connection is left open.
LeavesOpen == open

Hangup == open - 1

ChainIdError(n) ==
    CASE n = "live"   -> {}
      [] n = "silent" -> {"deadline"}
      [] n = "dead"   -> {"failure"}

ChainIdFails ==
    /\ step = "chainId"
    /\ err' \in Canceled \cup ChainIdError(node)
    /\ open' = Hangup
    /\ node' = "none"
    /\ step' = "notPrepared"
    /\ UNCHANGED <<client, cancelled>>

CloseClient == IF client THEN open - 1 ELSE open

(***************************************************************************)
(* What a caller finds when a call of the client is over.                  *)
(***************************************************************************)
Returns(e) == step' = "ran" /\ err' = e

(***************************************************************************)
(* One request, as for a balance or a nonce: refused at once under a done  *)
(* context, else sent and answered, or ended by the node, by the context,  *)
(* or by the deadline its caller gave it.                                  *)
(***************************************************************************)
Call ==
    /\ step = "call"
    /\ IF cancelled THEN Returns("canceled") ELSE step' = "answer" /\ UNCHANGED err
    /\ UNCHANGED <<clientVars, cancelled>>

Answer ==
    /\ step = "answer"
    /\ \E e \in {"nil", "failure", "deadline"} \cup Canceled : Returns(e)
    /\ UNCHANGED <<clientVars, cancelled>>

(***************************************************************************)
(* WaitForReceipt: polls while the transaction is unknown.  Of a context   *)
(* that is done and a timer that has fired select takes either; the next   *)
(* request then finds the context done.  A request runs under the caller's *)
(* context, which has no deadline: a node that has gone silent leaves the  *)
(* wallet at "receipt" until the context is done.                          *)
(***************************************************************************)
\* A bug: the receipt is asked for under a context of its own.
RequestsAnyway == TRUE

MayRequest == ~cancelled

Poll ==
    /\ step = "poll"
    /\ IF MayRequest THEN step' = "receipt" /\ UNCHANGED err ELSE Returns("canceled")
    /\ UNCHANGED <<clientVars, cancelled>>

Receipt ==
    /\ step = "receipt"
    /\ \E e \in {"nil", "failure"} \cup Canceled : Returns(e)
    /\ UNCHANGED <<clientVars, cancelled>>

ReceiptNotFound ==
    /\ step = "receipt"
    /\ step' = "pollPause"
    /\ UNCHANGED <<clientVars, err, cancelled>>

PollPauseEnds ==
    /\ step = "pollPause"
    /\ step' = "poll"
    /\ UNCHANGED <<clientVars, err, cancelled>>

PollPauseInterrupted ==
    /\ step = "pollPause"
    /\ cancelled
    /\ Returns("canceled")
    /\ UNCHANGED <<clientVars, cancelled>>

ClientStep ==
    \/ Dial \/ DialFails \/ ChainId \/ ChainIdFails
    \/ Call \/ Answer
    \/ Poll \/ Receipt \/ ReceiptNotFound \/ PollPauseEnds \/ PollPauseInterrupted
=============================================================================
