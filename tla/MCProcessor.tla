----------------------------- MODULE MCProcessor -----------------------------
(***************************************************************************)
(* Delays for the runs of Processor, with four-bit integers: every pause   *)
(* as usual but one, which is none, has its bounds swapped and may wrap to *)
(* below zero, has an unknown unit, or bounds too far apart.  And values   *)
(* of cfg.Actions: with room for three tasks, bounds that may ask for one  *)
(* too many, ask for too many in any case, or are too far apart, which     *)
(* does not matter beside an explicit sequence.                            *)
(***************************************************************************)
EXTENDS Processor

Range4(min, max, unit) == [min |-> min, max |-> max, unit |-> unit]

Usual == Range4(1, 2, "seconds")

Unusual == {Range4(0, 0, ""), Range4(2, 0, "minutes"), Range4(1, 1, "hours"),
            Range4(-7, 7, "seconds")}

Attempts(n) == [attempts |-> n, betweenRetries |-> Usual,
                afterError |-> Usual, betweenActions |-> Usual]

OneUnusual ==
    {Attempts(0), Attempts(2)} \cup
    {[Attempts(2) EXCEPT ![f] = r] : f \in DelayFields, r \in Unusual}

UsualOnly == {Attempts(0)}

Drawing(min, max) == [explicit |-> FALSE, min |-> min, max |-> max]

Explicit == {[explicit |-> TRUE, min |-> 0, max |-> 7]}

AnyRequest == {Drawing(-1, 4), Drawing(5, 2), Drawing(0, 7)} \cup Explicit
=============================================================================
