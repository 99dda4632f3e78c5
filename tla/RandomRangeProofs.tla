-------------------------- MODULE RandomRangeProofs --------------------------
(***************************************************************************)
(* What RandomIntInRange and RandomDuration return, for every size of int. *)
(***************************************************************************)
EXTENDS RandomRange, TLAPS

(***************************************************************************)
(* An int holds what fits into it, and is off by 2 * (MaxInt + 1) for what *)
(* is too large by no more than that.                                      *)
(***************************************************************************)
LEMMA Remainder ==
    ASSUME NEW m \in Nat \ {0}, NEW n \in 0..(m - 1)
    PROVE  n % m = n /\ (n + m) % m = n
  OBVIOUS

LEMMA WrapFits ==
    ASSUME NEW n \in MachineInt
    PROVE  Wrap(n) = n
<1> DEFINE m == 2 * (MaxInt + 1)
<1>1. m \in Nat \ {0} /\ n - MinInt \in 0..(m - 1)
  BY RandomRangeAssumption DEF MachineInt, MinInt
<1>2. (n - MinInt) % m = n - MinInt
  BY <1>1, Remainder
<1> QED  BY <1>2, RandomRangeAssumption DEF Wrap, MachineInt, MinInt

LEMMA WrapOverflows ==
    ASSUME NEW n \in Int, MaxInt < n, n <= 2 * MaxInt + 2
    PROVE  Wrap(n) = n - 2 * (MaxInt + 1)
<1> DEFINE m == 2 * (MaxInt + 1)
           k == n - m - MinInt
<1>1. m \in Nat \ {0} /\ k \in 0..(m - 1) /\ n - MinInt = k + m
  BY RandomRangeAssumption DEF MinInt
<1>2. (n - MinInt) % m = k
  BY <1>1, Remainder
<1> QED  BY <1>2, RandomRangeAssumption DEF Wrap, MinInt

(***************************************************************************)
(* random.go, RandomIntInRange: whichever way round the bounds are given,  *)
(* rand.Intn panics exactly when they are MaxInt or more apart.            *)
(***************************************************************************)
THEOREM PanicsExactlyOnOverflow ==
    ASSUME NEW min \in MachineInt, NEW max \in MachineInt
    PROVE  DrawPanics(min, max) <=> min - max >= MaxInt \/ max - min >= MaxInt
<1> DEFINE low  == Low(min, max)
           high == High(min, max)
           span == high - low + 1
<1>1. /\ low \in MachineInt /\ high \in MachineInt
      /\ low = IF min > max THEN max ELSE min
      /\ high = IF min > max THEN min ELSE max
  BY RandomRangeAssumption DEF Low, High, Swapped, MachineInt, MinInt
<1>2. span \in Int /\ 1 <= span /\ span <= 2 * MaxInt + 2 /\ Span(min, max) = Wrap(span)
  BY <1>1, RandomRangeAssumption DEF Span, MachineInt, MinInt
<1>3. (min - max >= MaxInt \/ max - min >= MaxInt) <=> span > MaxInt
  BY <1>1, RandomRangeAssumption DEF MachineInt, MinInt
<1>4. CASE span > MaxInt
  <2>1. Span(min, max) = span - 2 * (MaxInt + 1)
    BY <1>2, <1>4, WrapOverflows
  <2>2. min # max
    BY <1>1, <1>4, RandomRangeAssumption DEF MachineInt, MinInt
  <2> QED  BY <2>1, <2>2, <1>2, <1>3, <1>4, RandomRangeAssumption DEF DrawPanics
<1>5. CASE span <= MaxInt
  <2>1. span \in MachineInt
    BY <1>2, <1>5, RandomRangeAssumption DEF MachineInt, MinInt
  <2>2. Span(min, max) = span
    BY <1>2, <2>1, WrapFits
  <2> QED  BY <2>2, <1>2, <1>3, <1>5, RandomRangeAssumption DEF DrawPanics
<1> QED  BY <1>2, <1>4, <1>5, RandomRangeAssumption

(***************************************************************************)
(* random.go, RandomIntInRange: a draw that does not panic is never        *)
(* outside the bounds, and both bounds can be drawn.                       *)
(***************************************************************************)
THEOREM DrawnWithinBounds ==
    ASSUME NEW min \in MachineInt, NEW max \in MachineInt, ~DrawPanics(min, max)
    PROVE  /\ Drawn(min, max) = Low(min, max)..High(min, max)
           /\ min \in Drawn(min, max) /\ max \in Drawn(min, max)
<1> DEFINE low  == Low(min, max)
           high == High(min, max)
           span == high - low + 1
<1>1. /\ low \in MachineInt /\ high \in MachineInt /\ low <= high
      /\ low = IF min > max THEN max ELSE min
      /\ high = IF min > max THEN min ELSE max
  BY RandomRangeAssumption DEF Low, High, Swapped, MachineInt, MinInt
<1>2. Drawn(min, max) = low..high
  <2>1. CASE min = max
    BY <2>1, <1>1, RandomRangeAssumption DEF Drawn, MachineInt, MinInt
  <2>2. CASE min # max
    <3>1. high - low < MaxInt
      BY PanicsExactlyOnOverflow, <1>1, RandomRangeAssumption DEF MachineInt, MinInt
    <3>2. span \in MachineInt
      BY <3>1, <1>1, RandomRangeAssumption DEF MachineInt, MinInt
    <3>3. Span(min, max) = span
      BY <3>2, WrapFits DEF Span
    <3>4. ASSUME NEW n \in 0..(span - 1)
          PROVE  Wrap(n + low) = n + low
      <4>1. n + low \in MachineInt
        BY <1>1, RandomRangeAssumption DEF MachineInt, MinInt
      <4> QED  BY <4>1, WrapFits
    <3>5. Drawn(min, max) = {Wrap(n + low) : n \in 0..(span - 1)}
      BY <2>2, <3>3 DEF Drawn
    <3>6. Drawn(min, max) \subseteq low..high
      BY <3>4, <3>5, <1>1, RandomRangeAssumption DEF MachineInt, MinInt
    <3>7. ASSUME NEW v \in low..high
          PROVE  v \in Drawn(min, max)
      <4>1. v - low \in 0..(span - 1) /\ (v - low) + low = v
        BY <1>1, RandomRangeAssumption DEF MachineInt, MinInt
      <4> QED  BY <4>1, <3>4, <3>5
    <3> QED  BY <3>6, <3>7
  <2> QED  BY <2>1, <2>2
<1>3. min \in low..high /\ max \in low..high
  BY <1>1, RandomRangeAssumption DEF MachineInt, MinInt
<1> QED  BY <1>2, <1>3

(***************************************************************************)
(* random.go, RandomDuration: as long as the greatest duration a range     *)
(* asks for fits into a Duration, no draw from it is negative, nor longer  *)
(* than that.                                                              *)
(***************************************************************************)
THEOREM DurationWithinBounds ==
    ASSUME NEW min \in Nat, NEW max \in MachineInt, min <= max,
           NEW unit, max * UnitLength(unit) <= MaxInt,
           ~DrawPanics(min, max),
           NEW d \in Durations([min |-> min, max |-> max, unit |-> unit])
    PROVE  min * UnitLength(unit) <= d /\ d <= max * UnitLength(unit)
<1> DEFINE length == UnitLength(unit)
<1>1. length \in Nat \ {0}
  BY RandomRangeAssumption DEF UnitLength
<1>2. min \in MachineInt
  BY RandomRangeAssumption DEF MachineInt, MinInt
<1>3. Drawn(min, max) = min..max
  BY <1>2, DrawnWithinBounds, RandomRangeAssumption
     DEF Low, High, Swapped, MachineInt, MinInt
<1>4. PICK n \in min..max : d = Wrap(n * length)
  BY <1>3 DEF Durations
<1> HIDE DEF length
<1>5. n \in Nat /\ max \in Nat /\ min <= n /\ n <= max
  BY <1>4, RandomRangeAssumption DEF MachineInt, MinInt
<1>6. min * length <= n * length /\ n * length <= max * length
  BY <1>1, <1>5
<1>7. n * length \in Nat
  BY <1>1, <1>5
<1>8. n * length <= MaxInt
  BY <1>1, <1>5, <1>6, <1>7, RandomRangeAssumption DEF length
<1>9. n * length \in MachineInt
  BY <1>7, <1>8, RandomRangeAssumption DEF MachineInt, MinInt
<1>10. d = n * length
  BY <1>4, <1>9, WrapFits
<1> QED  BY <1>6, <1>10 DEF length

(***************************************************************************)
(* selector.go: the bounds of the number of tasks are not negative and in  *)
(* order; where they differ from what was configured, the minimum, or      *)
(* zero, has replaced it.                                                  *)
(***************************************************************************)
LEMMA CountBounds ==
    ASSUME NEW min \in MachineInt, NEW max \in MachineInt
    PROVE  /\ LeastCount(min, max) \in 0..MaxInt /\ MostCount(min, max) \in 0..MaxInt
           /\ LeastCount(min, max) >= min /\ LeastCount(min, max) \in {min, 0}
           /\ MostCount(min, max) >= LeastCount(min, max)
           /\ MostCount(min, max) \in {max, LeastCount(min, max), 0}
           /\ MostCount(min, max) <= max \/ MostCount(min, max) = LeastCount(min, max)
<1>1. /\ min \in Int /\ max \in Int /\ min <= MaxInt /\ max <= MaxInt
      /\ 0 <= MaxInt /\ MaxInt \in Int
  BY RandomRangeAssumption DEF MachineInt, MinInt
<1>2. /\ LeastCount(min, max) = NotBelowZero(min)
      /\ MostCount(min, max) = IF NotBelowZero(min) > NotBelowZero(max)
                               THEN NotBelowZero(min) ELSE NotBelowZero(max)
  BY DEF LeastCount, MostCount, Corrected, AtLeastMin
<1>3. /\ NotBelowZero(min) = IF min < 0 THEN 0 ELSE min
      /\ NotBelowZero(max) = IF max < 0 THEN 0 ELSE max
  BY DEF NotBelowZero
<1> QED
  BY <1>1, <1>2, <1>3

(***************************************************************************)
(* A draw from them gives any number between them, or panics, and then the *)
(* greater of the configured bounds is the greatest int.                   *)
(***************************************************************************)
LEMMA CountDrawn ==
    ASSUME NEW min \in MachineInt, NEW max \in MachineInt
    PROVE  /\ CountPanics(min, max) => MostCount(min, max) = MaxInt
           /\ ~CountPanics(min, max) =>
                Counts(min, max) = LeastCount(min, max)..MostCount(min, max)
<1> DEFINE least == LeastCount(min, max)
           most  == MostCount(min, max)
<1>1. least \in 0..MaxInt /\ most \in 0..MaxInt /\ least <= most
  BY CountBounds, RandomRangeAssumption
<1>2. least \in MachineInt /\ most \in MachineInt
  BY <1>1, RandomRangeAssumption DEF MachineInt, MinInt
<1>3. CountPanics(min, max) => least - most >= MaxInt \/ most - least >= MaxInt
  BY <1>2, PanicsExactlyOnOverflow DEF CountPanics
<1>4. CountPanics(min, max) => most = MaxInt
  BY <1>1, <1>3, RandomRangeAssumption
<1>5. Low(least, most) = least /\ High(least, most) = most
  BY <1>1 DEF Low, High, Swapped
<1>6. ~CountPanics(min, max) => Counts(min, max) = least..most
  BY <1>2, <1>5, DrawnWithinBounds DEF CountPanics, Counts
<1> QED
  BY <1>4, <1>6

(***************************************************************************)
(* Only a bound that asks for more than there is room for makes the draw   *)
(* panic, or give more than there is room for.                             *)
(***************************************************************************)
LEMMA TooManyAreAskedFor ==
    ASSUME NEW min \in MachineInt, NEW max \in MachineInt, NEW room \in 0..(MaxInt - 1),
           \/ CountPanics(min, max)
           \/ ~CountPanics(min, max) /\ \E n \in Counts(min, max) : n > room
    PROVE  min > room \/ max > room
<1>1. MostCount(min, max) > room
  <2>1. MostCount(min, max) \in 0..MaxInt /\ LeastCount(min, max) \in 0..MaxInt
    BY CountBounds
  <2> QED
    BY <2>1, CountDrawn, RandomRangeAssumption
<1>2. MostCount(min, max) \in {min, max, 0}
  BY CountBounds
<1> QED
  BY <1>1, <1>2
=============================================================================
