----------------------------- MODULE RandomRange -----------------------------
(***************************************************************************)
(* RandomIntInRange and RandomDuration: a value between two configured     *)
(* bounds, in the machine's integers; and the number of tasks SelectTasks  *)
(* draws with them.  Operators only: a random choice is a set of outcomes, *)
(* and a panic is a condition on the bounds.                               *)
(***************************************************************************)
EXTENDS Integers

CONSTANTS
    MaxInt,     \* the greatest int: 2^63 - 1 on a 64-bit machine
    Second,     \* time.Second and time.Minute, in units of a Duration
    Minute

ASSUME RandomRangeAssumption ==
    /\ MaxInt \in Nat \ {0}
    /\ Second \in Nat \ {0}
    /\ Minute \in Nat \ {0}

MinInt == -MaxInt - 1
MachineInt == MinInt..MaxInt

(***************************************************************************)
(* Two's complement: what an int holds of a sum or a product.              *)
(***************************************************************************)
Wrap(n) == ((n - MinInt) % (2 * (MaxInt + 1))) + MinInt

(***************************************************************************)
(* Bounds given the wrong way round are swapped.                           *)
(***************************************************************************)
\* A bug: they are not.
AsGiven(min, max) == <<min, max>>

Swapped(min, max) == IF min > max THEN <<max, min>> ELSE <<min, max>>

Low(min, max) == Swapped(min, max)[1]
High(min, max) == Swapped(min, max)[2]

(***************************************************************************)
(* The argument of rand.Intn, which panics unless it is positive.  Equal   *)
(* bounds are returned before it is called.                                *)
(***************************************************************************)
Span(min, max) == Wrap(High(min, max) - Low(min, max) + 1)

DrawPanics(min, max) == min # max /\ Span(min, max) <= 0

Drawn(min, max) ==
    IF min = max THEN {min}
    ELSE {Wrap(n + Low(min, max)) : n \in 0..(Span(min, max) - 1)}

(***************************************************************************)
(* RandomDuration of a range [min, max, unit]: the value is drawn first,   *)
(* so that even a range of an unknown unit can panic; no unit is seconds.  *)
(***************************************************************************)
Units == {"seconds", "minutes", ""}

UnitKnown(range) == range.unit \in Units
DurationPanics(range) == DrawPanics(range.min, range.max)

UnitLength(unit) == IF unit = "minutes" THEN Minute ELSE Second

Durations(range) ==
    {Wrap(n * UnitLength(range.unit)) : n \in Drawn(range.min, range.max)}

(***************************************************************************)
(* SelectTasks, the bounds of actions_per_account: negative ones count as  *)
(* 0, a minimum above the maximum replaces it.                             *)
(***************************************************************************)
\* A bug: negative bounds are taken as they are.
AsConfigured(n) == n

NotBelowZero(n) == IF n < 0 THEN 0 ELSE n

\* A bug: max wins over a greater min.
UpToMax(min, max) == IF min > max THEN <<max, max>> ELSE <<min, max>>

AtLeastMin(min, max) == IF min > max THEN <<min, min>> ELSE <<min, max>>

Corrected(min, max) == AtLeastMin(NotBelowZero(min), NotBelowZero(max))

LeastCount(min, max) == Corrected(min, max)[1]
MostCount(min, max) == Corrected(min, max)[2]

(***************************************************************************)
(* How many tasks are drawn; the draw panics where the bounds are too far  *)
(* apart.                                                                  *)
(***************************************************************************)
CountPanics(min, max) == DrawPanics(LeastCount(min, max), MostCount(min, max))

Counts(min, max) == Drawn(LeastCount(min, max), MostCount(min, max))
=============================================================================
