--------------------------- MODULE SelectionProofs ---------------------------
(***************************************************************************)
(* What a wallet's list of tasks is, for every configuration: the stable   *)
(* sort, the number of tasks, and the panics on the way.                   *)
(***************************************************************************)
EXTENDS TaskSelection, FiniteSetTheorems, TLAPS

(***************************************************************************)
(* A non-empty set of positions has a greatest element.                    *)
(***************************************************************************)
LEMMA GreatestPosition ==
    ASSUME NEW n \in Nat, NEW S \in SUBSET (1..n), S # {}
    PROVE  Max(S) \in S /\ \A x \in S : x <= Max(S)
<1> DEFINE R == {ss \in Nat \X Nat : ss[1] < ss[2]}
           T == {n - x : x \in S}
<1>1. IsWellFoundedOn(R, Nat)
  BY NatLessThanWellFounded DEF OpToRel
<1>2. T \subseteq Nat /\ T # {}
  <2>1. \A x \in S : x \in Int /\ 1 <= x /\ x <= n
    OBVIOUS
  <2>2. \A x \in S : n - x \in Nat
    BY <2>1
  <2> QED
    BY <2>2
<1>3. \E t \in T : \A u \in T : ~(<<u, t>> \in R)
  <2> HIDE DEF R, T
  <2> QED
    BY <1>1, <1>2, WFMin
<1>4. \E x \in S : \A y \in S : x >= y
  <2>1. PICK t \in T : \A u \in T : ~(<<u, t>> \in R)
    BY <1>3
  <2>2. PICK x \in S : t = n - x
    OBVIOUS
  <2>3. \A y \in S : n - y \in T /\ n - x \in T
    BY <2>2
  <2>4. ASSUME NEW y \in S PROVE x >= y
    <3>1. n - y \in Nat /\ n - x \in Nat
      BY <1>2, <2>3
    <3>2. ~(n - y < n - x)
      BY <2>1, <2>2, <2>3, <3>1
    <3>3. x \in Int /\ y \in Int
      OBVIOUS
    <3> QED
      BY <3>2, <3>3
  <2> QED
    BY <2>4
<1> QED
  <2>1. PICK x \in S : \A y \in S : x >= y
    BY <1>4
  <2>2. Max(S) \in S /\ \A y \in S : Max(S) >= y
    BY <2>1 DEF Max
  <2>3. S \subseteq Int
    OBVIOUS
  <2>4. ASSUME NEW y \in S PROVE y <= Max(S)
    <3>1. Max(S) \in Int /\ y \in Int /\ Max(S) >= y
      BY <2>2, <2>3
    <3> QED
      BY <3>1
  <2> QED
    BY <2>2, <2>4

(***************************************************************************)
(* So many positions has a list.                                           *)
(***************************************************************************)
LEMMA Interval ==
    ASSUME NEW n \in Nat
    PROVE  IsFiniteSet(1..n) /\ Cardinality(1..n) = n
<1>1. 1 \in Int /\ n \in Int
  OBVIOUS
<1>2. IsFiniteSet(1..n) /\ Cardinality(1..n) = IF 1 > n THEN 0 ELSE n - 1 + 1
  BY <1>1, FS_Interval
<1> QED
  BY <1>2

(***************************************************************************)
(* sort.SliceStable: the list it leaves has the same length and no other   *)
(* entries, and is ordered by the key.                                     *)
(***************************************************************************)
LEMMA StableSort ==
    ASSUME tasks \in Seq(Entry), NEW s \in Seq(Entries)
    PROVE  /\ StablySorted(s) \in Seq(Entries)
           /\ Len(StablySorted(s)) = Len(s)
           /\ \A r \in 1..Len(s) : \E p \in 1..Len(s) : StablySorted(s)[r] = s[p]
           /\ \A m, n \in 1..Len(s) :
                m < n => SortKey(StablySorted(s)[m]) <= SortKey(StablySorted(s)[n])
<1> DEFINE N == Len(s)
           P == 1..N
           before(q, p) == \/ SortKey(s[q]) < SortKey(s[p])
                           \/ SortKey(s[q]) = SortKey(s[p]) /\ q <= p
           upTo(p) == {q \in P : before(q, p)}
           rank(p) == Cardinality(upTo(p))
           place == [p \in P |-> rank(p)]
           at(r) == CHOOSE p \in P : rank(p) = r
<1>1. N \in Nat /\ P \subseteq Int /\ IsFiniteSet(P) /\ Cardinality(P) = N
  <2>1. N \in Nat
    OBVIOUS
  <2>2. P \subseteq Int
    OBVIOUS
  <2> QED
    BY <2>1, <2>2, Interval
<1>2. \A p \in P : s[p] \in Entries
  OBVIOUS
<1>3. \A i \in Entries : SortKey(i) \in Int
  <2> SUFFICES ASSUME NEW i \in Entries PROVE SortKey(i) \in Int
    OBVIOUS
  <2> DEFINE S == {j \in Entries : Name(j) = Name(i)}
  <2>1. Len(tasks) \in Nat /\ S \in SUBSET (1..Len(tasks)) /\ S # {}
    BY DEF Entries
  <2>2. Max(S) \in S
    BY <2>1, GreatestPosition
  <2> QED
    BY <2>1, <2>2 DEF SortKey
<1>4. \A p \in P : SortKey(s[p]) \in Int
  BY <1>2, <1>3
<1>5. \A p, q \in P : before(q, p) \/ before(p, q)
  BY <1>1, <1>4
<1>6. \A p, q \in P : before(q, p) /\ before(p, q) => p = q
  BY <1>1, <1>4
<1>7. \A o, p, q \in P : before(o, p) /\ before(p, q) => before(o, q)
  BY <1>1, <1>4
<1>8. \A p \in P : before(p, p)
  BY <1>5
<1> HIDE DEF before
<1>9. \A p \in P : IsFiniteSet(upTo(p)) /\ rank(p) \in 1..N
  <2> SUFFICES ASSUME NEW p \in P PROVE IsFiniteSet(upTo(p)) /\ rank(p) \in 1..N
    OBVIOUS
  <2>1. upTo(p) \in SUBSET P /\ upTo(p) # {}
    BY <1>8
  <2>2. IsFiniteSet(upTo(p)) /\ Cardinality(upTo(p)) <= Cardinality(P)
    BY <1>1, <2>1, FS_Subset
  <2>3. Cardinality(upTo(p)) \in Nat /\ Cardinality(upTo(p)) # 0
    BY <2>1, <2>2, FS_CardinalityType, FS_EmptySet
  <2> QED
    BY <1>1, <2>2, <2>3
<1>10. \A p, q \in P : before(p, q) => rank(p) <= rank(q)
  <2> SUFFICES ASSUME NEW p \in P, NEW q \in P, before(p, q) PROVE rank(p) <= rank(q)
    OBVIOUS
  <2>1. upTo(p) \in SUBSET upTo(q)
    BY <1>7
  <2> QED
    BY <1>9, <2>1, FS_Subset
<1>11. \A p, q \in P : rank(p) = rank(q) => p = q
  <2>1. ASSUME NEW p \in P, NEW q \in P, rank(p) = rank(q), before(p, q) PROVE p = q
    <3>1. upTo(p) \in SUBSET upTo(q)
      BY <1>7, <2>1
    <3>2. upTo(p) = upTo(q)
      BY <1>9, <2>1, <3>1, FS_Subset
    <3>3. before(q, p)
      BY <1>8, <3>2
    <3> QED
      BY <1>6, <2>1, <3>3
  <2> QED
    BY <1>5, <2>1
<1> HIDE DEF rank
<1>12. \A r \in P : \E p \in P : rank(p) = r
  <2>1. place \in Injection(P, P)
    BY <1>9, <1>11 DEF Injection, IsInjective
  <2>2. place \in Surjection(P, P)
    BY <1>1, <2>1, FS_Injection
  <2> QED
    BY <2>2 DEF Surjection
<1>13. \A r \in P : at(r) \in P /\ rank(at(r)) = r
  BY <1>12
<1>14. StablySorted(s) = [r \in P |-> s[at(r)]]
  BY DEF StablySorted, rank, before
<1> HIDE DEF at
<1>15. \A r \in P : StablySorted(s)[r] = s[at(r)]
  BY <1>14
<1>16. StablySorted(s) \in Seq(Entries) /\ Len(StablySorted(s)) = Len(s)
  BY <1>1, <1>2, <1>13, <1>14
<1>17. ASSUME NEW m \in P, NEW n \in P, m < n
       PROVE  SortKey(StablySorted(s)[m]) <= SortKey(StablySorted(s)[n])
  <2>1. ~before(at(n), at(m))
    BY <1>1, <1>10, <1>13, <1>17
  <2>2. before(at(m), at(n))
    BY <1>5, <1>13, <2>1
  <2>3. SortKey(s[at(m)]) \in Int /\ SortKey(s[at(n)]) \in Int
    BY <1>4, <1>13
  <2>4. SortKey(s[at(m)]) < SortKey(s[at(n)]) \/ SortKey(s[at(m)]) = SortKey(s[at(n)])
    BY <2>2 DEF before
  <2>5. SortKey(s[at(m)]) <= SortKey(s[at(n)])
    BY <2>3, <2>4
  <2> QED
    BY <1>15, <2>5
<1> QED
  BY <1>13, <1>15, <1>16, <1>17

-----------------------------------------------------------------------------

RR == INSTANCE RandomRangeProofs WITH Second <- 1, Minute <- 60

(***************************************************************************)
(* The bounds of the draw, as SelectTasks corrects them.                   *)
(***************************************************************************)
Fewest == LeastCount(least, most)
Largest == MostCount(least, most)

(***************************************************************************)
(* They are machine integers in order; where they differ from what was     *)
(* configured, the minimum, or zero, has replaced it.                      *)
(***************************************************************************)
LEMMA CorrectedBounds ==
    ASSUME least \in ActionBounds, most \in ActionBounds
    PROVE  /\ Fewest \in 0..MaxInt /\ Largest \in 0..MaxInt /\ Fewest <= Largest
           /\ Fewest >= least
           /\ Largest <= most \/ (Largest = Fewest /\ Fewest \in {least, 0})
           /\ Largest <= least \/ Largest <= most \/ Largest = 0
<1>1. least \in RR!MachineInt /\ most \in RR!MachineInt
  BY TaskSelectionAssumption DEF RR!MachineInt, RR!MinInt
<1>2. Fewest = RR!LeastCount(least, most) /\ Largest = RR!MostCount(least, most)
  BY DEF Fewest, Largest, LeastCount, RR!LeastCount, MostCount, RR!MostCount, Corrected,
         RR!Corrected, AtLeastMin, RR!AtLeastMin, NotBelowZero, RR!NotBelowZero
<1>3. least \in Int /\ most \in Int /\ MaxInt \in Nat \ {0}
  BY TaskSelectionAssumption
<1> QED
  BY <1>1, <1>2, <1>3, RR!CountBounds

(***************************************************************************)
(* A draw from them gives a number between them, or panics, and then the   *)
(* greater is beyond what memory holds.                                    *)
(***************************************************************************)
LEMMA DrawnCount ==
    ASSUME least \in ActionBounds, most \in ActionBounds
    PROVE  /\ CountPanics(least, most) => Largest > MaxSlice
           /\ ~CountPanics(least, most) => Counts(least, most) = Fewest..Largest
<1>1. least \in RR!MachineInt /\ most \in RR!MachineInt
  BY TaskSelectionAssumption DEF RR!MachineInt, RR!MinInt
<1>2. Fewest = RR!LeastCount(least, most) /\ Largest = RR!MostCount(least, most)
  BY DEF Fewest, Largest, LeastCount, RR!LeastCount, MostCount, RR!MostCount, Corrected,
         RR!Corrected, AtLeastMin, RR!AtLeastMin, NotBelowZero, RR!NotBelowZero
<1>3. /\ CountPanics(least, most) <=> RR!CountPanics(least, most)
      /\ Counts(least, most) = RR!Counts(least, most)
  <2>1. DrawPanics(Fewest, Largest) <=> RR!DrawPanics(Fewest, Largest)
    BY DEF DrawPanics, RR!DrawPanics, Span, RR!Span, Wrap, RR!Wrap, MinInt, RR!MinInt,
           High, RR!High, Low, RR!Low, Swapped, RR!Swapped
  <2>2. Drawn(Fewest, Largest) = RR!Drawn(Fewest, Largest)
    BY DEF Drawn, RR!Drawn, Span, RR!Span, Wrap, RR!Wrap, MinInt, RR!MinInt,
           High, RR!High, Low, RR!Low, Swapped, RR!Swapped
  <2> QED
    BY <1>2, <2>1, <2>2 DEF CountPanics, RR!CountPanics, Counts, RR!Counts, Fewest, Largest
<1>4. MaxInt \in Nat \ {0} /\ MaxSlice < MaxInt
  BY TaskSelectionAssumption
<1> QED
  BY <1>1, <1>2, <1>3, <1>4, RR!CountDrawn

-----------------------------------------------------------------------------

(***************************************************************************)
(* The registry holds the names of the registrable entries passed so far,  *)
(* and until it is complete no others.                                     *)
(***************************************************************************)
Passed == IF phase = "register" THEN entry - 1 ELSE Len(tasks)

RegistryInv ==
    /\ phase = "register" => entry \in 1..(Len(tasks) + 1)
    /\ phase # "panicked" =>
         \A i \in Entries : i <= Passed /\ Registers(i) => Name(i) \in registered
    /\ phase = "register" =>
         \A n \in registered : \E i \in Entries : i < entry /\ Registers(i) /\ Name(i) = n

(***************************************************************************)
(* The list under construction: enabled entries, no more than were drawn.  *)
(***************************************************************************)
EnabledOnly == \A n \in 1..Len(selected) : Enabled(selected[n])

CountInv ==
    /\ phase \in {"register", "select"} => selected = <<>>
    /\ phase \in {"select", "draw", "order"} => explicit = <<>>
    /\ phase = "explicit" => explicit # <<>>
    /\ phase = "draw" => wanted \in Fewest..Largest /\ Len(selected) <= wanted
    /\ phase = "order" => Len(selected) \in Fewest..Largest
    /\ Selected /\ explicit = <<>> /\ Available # {} => Len(selected) \in Fewest..Largest

OrderInv ==
    Selected /\ SequentialTasks /\ explicit = <<>> =>
        \A m, n \in 1..Len(selected) : m < n => SortKey(selected[m]) <= SortKey(selected[n])

(***************************************************************************)
(* All of it; PanicHasACause needs the registry's part.                    *)
(***************************************************************************)
SelectionInv ==
    TypeOK /\ RegistryInv /\ EnabledOnly /\ CountInv /\ OrderInv /\ PanicHasACause

LEMMA SelectionInvInitially == Init => SelectionInv
<1> SUFFICES ASSUME Init PROVE SelectionInv
  OBVIOUS
<1>1. tasks \in Seq(Entry) /\ explicit \in Seq(Names)
  BY DEF Init, AtMost
<1>2. TypeOK
  BY <1>1 DEF Init, TypeOK
<1>3. RegistryInv
  BY <1>1 DEF Init, RegistryInv, Passed, Entries
<1>4. EnabledOnly /\ CountInv /\ OrderInv /\ PanicHasACause
  BY DEF Init, EnabledOnly, CountInv, OrderInv, PanicHasACause, Selected
<1> QED
  BY <1>2, <1>3, <1>4 DEF SelectionInv

(***************************************************************************)
(* Most steps leave the configuration alone, and with it all that is       *)
(* defined from it.                                                        *)
(***************************************************************************)
LEMMA ConfigKept ==
    ASSUME UNCHANGED Config
    PROVE  /\ Entries' = Entries /\ Fewest' = Fewest /\ Largest' = Largest
           /\ Available' = Available
           /\ \A i : Enabled(i)' = Enabled(i) /\ Registers(i)' = Registers(i)
                     /\ Name(i)' = Name(i) /\ SortKey(i)' = SortKey(i)
  BY DEF Config, Entries, Fewest, Largest, Available, Enabled, Registers, Name, SortKey

(***************************************************************************)
(* An enabled entry is its name; appending one keeps the list of enabled   *)
(* entries one.                                                            *)
(***************************************************************************)
LEMMA EnabledEntry ==
    ASSUME tasks \in Seq(Entry), NEW i \in Entries, Enabled(i)
    PROVE  tasks[i] = <<Name(i), TRUE>>
<1>1. tasks[i] \in Names \X BOOLEAN
  BY DEF Entries, Entry
<1>2. PICK n \in Names, b \in BOOLEAN : tasks[i] = <<n, b>>
  BY <1>1
<1>3. Name(i) = n /\ b = TRUE
  BY <1>2 DEF Name, Enabled
<1> QED
  BY <1>2, <1>3

LEMMA EnabledAppended ==
    ASSUME selected \in Seq(Entries), EnabledOnly, UNCHANGED Config,
           NEW i \in Entries, Enabled(i), selected' = Append(selected, i)
    PROVE  /\ selected' \in Seq(Entries)
           /\ Len(selected') = Len(selected) + 1
           /\ EnabledOnly'
<1>1. selected' \in Seq(Entries) /\ Len(selected') = Len(selected) + 1 /\ Len(selected) \in Nat
  OBVIOUS
<1>2. ASSUME NEW n \in 1..Len(selected') PROVE Enabled(selected'[n])
  <2>1. selected'[n] = IF n = Len(selected) + 1 THEN i ELSE selected[n]
    BY <1>1
  <2>2. n # Len(selected) + 1 => n \in 1..Len(selected)
    BY <1>1
  <2> QED
    BY <2>1, <2>2 DEF EnabledOnly
<1> QED
  BY <1>1, <1>2, ConfigKept DEF EnabledOnly

LEMMA SelectionInvInductive == SelectionInv /\ [Next]_vars => SelectionInv'
<1> SUFFICES ASSUME SelectionInv, [Next]_vars PROVE SelectionInv'
  OBVIOUS
<1> USE DEF SelectionInv
<1>0. Len(tasks) \in Nat /\ entry \in Nat /\ Len(selected) \in Nat /\ wanted \in Nat
  BY DEF TypeOK
<1>1. CASE Register
  <2>0. UNCHANGED Config /\ entry \in Entries /\ phase = "register" /\ selected' = selected
    BY <1>1 DEF Register
  <2>1. TypeOK'
    BY <1>1, ConfigKept DEF Register, TypeOK, Config, Entries, Registers, Name
  <2>2. RegistryInv'
    <3>1. phase' = "register" => entry' \in 1..(Len(tasks') + 1)
      BY <1>0, <1>1, <2>0 DEF Register, Entries, Config
    <3>2. ASSUME phase' # "panicked", NEW i \in Entries, i <= Passed', Registers(i)
          PROVE  Name(i) \in registered'
      <4>1. i <= entry
        BY <1>0, <1>1, <2>0, <3>2 DEF Register, Passed, Registers
      <4>2. CASE i = entry
        BY <1>1, <3>2, <4>2 DEF Register
      <4>3. CASE i # entry
        <5>1. i <= Passed
          BY <1>0, <2>0, <4>1, <4>3 DEF Passed, Entries
        <5> QED
          BY <1>1, <2>0, <3>2, <5>1 DEF Register, RegistryInv
      <4> QED
        BY <4>2, <4>3
    <3>3. ASSUME NEW n \in registered'
          PROVE  \E i \in Entries : i < entry' /\ Registers(i) /\ Name(i) = n
      <4>1. CASE n \in registered
        BY <1>0, <1>1, <2>0, <4>1 DEF Register, RegistryInv, Entries
      <4>2. CASE n \notin registered
        BY <1>0, <1>1, <2>0, <3>3, <4>2 DEF Register
      <4> QED
        BY <4>1, <4>2
    <3> QED
      BY <2>0, <3>1, <3>2, <3>3, ConfigKept DEF RegistryInv
  <2>3. EnabledOnly' /\ CountInv' /\ OrderInv'
    BY <1>1, <2>0, ConfigKept DEF Register, EnabledOnly, CountInv, OrderInv, Selected, Config
  <2>4. PanicHasACause'
    <3> SUFFICES ASSUME phase' = "panicked"
                 PROVE  \E i, j \in Entries : i < j /\ tasks[i] = tasks[j] /\ Registers(j)
      BY <2>0, ConfigKept DEF PanicHasACause, Config
    <3>1. Registers(entry) /\ Name(entry) \in registered
      BY <1>1, <2>0 DEF Register
    <3>2. PICK i \in Entries : i < entry /\ Registers(i) /\ Name(i) = Name(entry)
      BY <2>0, <3>1 DEF RegistryInv
    <3>3. tasks[i] = tasks[entry]
      BY <2>0, <3>1, <3>2, EnabledEntry DEF Registers, TypeOK
    <3> QED
      BY <2>0, <3>1, <3>2, <3>3
  <2> QED
    BY <2>1, <2>2, <2>3, <2>4
<1>2. CASE Registered
  <2>0. UNCHANGED Config
    BY <1>2 DEF Registered
  <2>1. TypeOK'
    BY <1>2 DEF Registered, TypeOK, Config, Entries
  <2>2. RegistryInv'
    <3>1. phase = "register" /\ entry - 1 = Len(tasks) /\ registered' = registered
      BY <1>0, <1>2 DEF Registered
    <3>2. \A i \in Entries : i <= Passed
      BY <1>0, <3>1 DEF Passed, Entries
    <3>3. phase' # "register"
      BY <1>2 DEF Registered
    <3> QED
      BY <2>0, <3>1, <3>2, <3>3, ConfigKept DEF RegistryInv
  <2>3. EnabledOnly' /\ CountInv' /\ OrderInv' /\ PanicHasACause'
    BY <1>2, <2>0, ConfigKept
       DEF Registered, EnabledOnly, CountInv, OrderInv, PanicHasACause, Selected, Config
  <2> QED
    BY <2>1, <2>2, <2>3
<1>3. CASE TakeExplicit
  <2>0. UNCHANGED Config /\ phase = "explicit" /\ phase' = "explicit" /\ registered' = registered
    BY <1>3 DEF TakeExplicit
  <2> DEFINE found == EnabledNamed(explicit[entry])
  <2>1. selected' \in Seq(Entries) /\ EnabledOnly'
    <3>1. CASE found = {}
      BY <1>3, <2>0, <3>1, ConfigKept DEF TakeExplicit, TypeOK, EnabledOnly
    <3>2. CASE found # {}
      <4>1. Max(found) \in found
        BY <1>0, <3>2, GreatestPosition DEF EnabledNamed, Entries
      <4>2. selected' = Append(selected, Max(found))
        BY <1>3, <3>2 DEF TakeExplicit
      <4>3. Max(found) \in Entries /\ Enabled(Max(found))
        BY <4>1 DEF EnabledNamed
      <4> HIDE DEF found
      <4> QED
        BY <2>0, <4>2, <4>3, EnabledAppended DEF TypeOK
    <3> QED
      BY <3>1, <3>2
  <2>2. TypeOK'
    <3>1. entry' \in Nat /\ wanted' = wanted
      BY <1>0, <1>3 DEF TakeExplicit
    <3> QED
      BY <2>0, <2>1, <3>1, ConfigKept DEF TypeOK, Config
  <2>3. EnabledOnly'
    BY <2>1
  <2>4. RegistryInv' /\ CountInv' /\ OrderInv' /\ PanicHasACause'
    BY <2>0, ConfigKept
       DEF RegistryInv, Passed, CountInv, OrderInv, PanicHasACause, Selected, Config
  <2> QED
    BY <2>2, <2>3, <2>4
<1>4. CASE ExplicitDone
  BY <1>4, ConfigKept
     DEF ExplicitDone, TypeOK, RegistryInv, Passed, EnabledOnly, CountInv, OrderInv,
         PanicHasACause, Selected, Config, Entries
<1>5. CASE ChooseCount
  <2>0. /\ UNCHANGED Config /\ phase = "select" /\ selected' = <<>> /\ explicit = <<>>
        /\ registered' = registered
    BY <1>5 DEF ChooseCount, CountInv
  <2>1. wanted' \in Fewest..Largest /\ Fewest \in Nat /\ Largest \in Nat
    BY <1>5, DrawnCount, CorrectedBounds DEF ChooseCount, TypeOK
  <2>2. phase' \in {"selected", "draw", "panicked"}
    BY <1>5 DEF ChooseCount
  <2>3. TypeOK'
    BY <1>5, <2>0, <2>1, <2>2 DEF ChooseCount, TypeOK, Config, Entries
  <2>4. RegistryInv' /\ EnabledOnly' /\ OrderInv'
    BY <2>0, <2>2, ConfigKept DEF RegistryInv, Passed, EnabledOnly, OrderInv, Config
  <2>5. CountInv'
    <3>1. Len(selected') = 0 /\ 0 <= wanted'
      BY <2>0, <2>1
    <3>2. phase' = "selected" => wanted' = 0
      BY <1>5 DEF ChooseCount
    <3> QED
      BY <2>0, <2>1, <2>2, <3>1, <3>2, ConfigKept DEF CountInv, Selected, Config
  <2>6. PanicHasACause'
    <3> SUFFICES ASSUME phase' = "panicked" PROVE least > MaxSlice \/ most > MaxSlice
      BY <2>0 DEF PanicHasACause, Config
    <3>1. wanted' > MaxSlice
      BY <1>5 DEF ChooseCount
    <3>2. Largest <= least \/ Largest <= most \/ Largest = 0
      BY CorrectedBounds DEF TypeOK
    <3>3. least \in Int /\ most \in Int /\ MaxSlice \in Nat
      BY TaskSelectionAssumption DEF TypeOK
    <3> QED
      BY <2>1, <3>1, <3>2, <3>3
  <2> QED
    BY <2>3, <2>4, <2>5, <2>6
<1>6. CASE ChoosePanics
  <2>0. UNCHANGED Config /\ phase' = "panicked" /\ selected' = selected
    BY <1>6 DEF ChoosePanics
  <2>1. TypeOK' /\ RegistryInv' /\ EnabledOnly' /\ CountInv' /\ OrderInv'
    BY <1>6, <2>0, ConfigKept
       DEF ChoosePanics, TypeOK, RegistryInv, EnabledOnly, CountInv, OrderInv, Selected,
           Config, Entries
  <2>2. PanicHasACause'
    <3>1. Largest > MaxSlice
      BY <1>6, DrawnCount DEF ChoosePanics, TypeOK
    <3>2. Largest \in Int /\ (Largest <= least \/ Largest <= most \/ Largest = 0)
      BY CorrectedBounds DEF TypeOK
    <3>3. least \in Int /\ most \in Int /\ MaxSlice \in Nat
      BY TaskSelectionAssumption DEF TypeOK
    <3>4. least > MaxSlice \/ most > MaxSlice
      BY <3>1, <3>2, <3>3
    <3> QED
      BY <2>0, <3>4 DEF PanicHasACause, Config
  <2> QED
    BY <2>1, <2>2
<1>7. CASE NothingAvailable
  BY <1>7, ConfigKept
     DEF NothingAvailable, TypeOK, RegistryInv, Passed, EnabledOnly, CountInv, OrderInv,
         PanicHasACause, Selected, Config, Entries
<1>8. CASE Draw
  <2>0. /\ UNCHANGED Config /\ phase = "draw" /\ phase' = "draw"
        /\ registered' = registered /\ wanted' = wanted
    BY <1>8 DEF Draw
  <2>1. PICK i \in Available : selected' = Append(selected, i)
    BY <1>8 DEF Draw
  <2>2. i \in Entries /\ Enabled(i) /\ selected \in Seq(Entries)
    BY <2>1 DEF Available, TypeOK
  <2>3. selected' \in Seq(Entries) /\ Len(selected') = Len(selected) + 1 /\ EnabledOnly'
    BY <2>0, <2>1, <2>2, EnabledAppended
  <2>4. TypeOK'
    BY <1>8, <2>0, <2>3 DEF Draw, TypeOK, Config, Entries
  <2>5. EnabledOnly'
    BY <2>3
  <2>6. CountInv'
    <3>1. Len(selected') <= wanted'
      BY <1>0, <1>8, <2>0, <2>3 DEF Draw
    <3> QED
      BY <2>0, <3>1, ConfigKept DEF CountInv, Selected, Config
  <2>7. RegistryInv' /\ OrderInv' /\ PanicHasACause'
    BY <2>0, ConfigKept DEF RegistryInv, Passed, OrderInv, PanicHasACause, Selected, Config
  <2> QED
    BY <2>4, <2>5, <2>6, <2>7
<1>9. CASE DrawDone
  <2>0. /\ UNCHANGED Config /\ phase = "draw" /\ selected' = selected
        /\ registered' = registered /\ phase' = IF SequentialTasks THEN "order" ELSE "selected"
        /\ Len(selected) = wanted
    BY <1>9 DEF DrawDone
  <2>1. TypeOK'
    BY <1>9, <2>0 DEF DrawDone, TypeOK, Config, Entries
  <2>2. CountInv'
    BY <2>0, ConfigKept DEF CountInv, Selected, Config
  <2>3. RegistryInv' /\ EnabledOnly' /\ OrderInv' /\ PanicHasACause'
    BY <2>0, ConfigKept
       DEF RegistryInv, Passed, EnabledOnly, OrderInv, PanicHasACause, Selected, Config
  <2> QED
    BY <2>1, <2>2, <2>3
<1>10. CASE SortSelected
  <2>0. /\ UNCHANGED Config /\ phase = "order" /\ phase' = "selected"
        /\ selected' = StablySorted(selected) /\ registered' = registered
    BY <1>10 DEF SortSelected
  <2>1. /\ selected' \in Seq(Entries) /\ Len(selected') = Len(selected)
        /\ \A r \in 1..Len(selected) : \E p \in 1..Len(selected) : selected'[r] = selected[p]
        /\ \A m, n \in 1..Len(selected) :
             m < n => SortKey(selected'[m]) <= SortKey(selected'[n])
    BY <2>0, StableSort DEF TypeOK
  <2>2. TypeOK'
    BY <1>10, <2>0, <2>1 DEF SortSelected, TypeOK, Config, Entries
  <2>3. EnabledOnly'
    BY <2>0, <2>1, ConfigKept DEF EnabledOnly
  <2>4. CountInv'
    BY <2>0, <2>1, ConfigKept DEF CountInv, Selected, Config
  <2>5. OrderInv'
    BY <2>0, <2>1, ConfigKept DEF OrderInv
  <2>6. RegistryInv' /\ PanicHasACause'
    BY <2>0, ConfigKept DEF RegistryInv, Passed, PanicHasACause, Config
  <2> QED
    BY <2>2, <2>3, <2>4, <2>5, <2>6
<1>11. CASE UNCHANGED vars
  BY <1>11, ConfigKept
     DEF vars, TypeOK, RegistryInv, Passed, EnabledOnly, CountInv, OrderInv,
         PanicHasACause, Selected, Config, Entries
<1> QED
  BY <1>1, <1>2, <1>3, <1>4, <1>5, <1>6, <1>7, <1>8, <1>9, <1>10, <1>11 DEF Next

LEMMA SelectionInvariant == Spec => []SelectionInv
  BY SelectionInvInitially, SelectionInvInductive, PTL DEF Spec

-----------------------------------------------------------------------------

(***************************************************************************)
(* The variables keep their types: what is drawn is a number of tasks, and *)
(* the sort puts nothing but entries into the list.                        *)
(***************************************************************************)
THEOREM SelectionTypeCorrect == Spec => []TypeOK
<1>1. SelectionInv => TypeOK
  BY DEF SelectionInv
<1> QED
  BY <1>1, SelectionInvariant, PTL

(***************************************************************************)
(* What is selected is enabled, and NewTask finds its constructor unless   *)
(* bootstrap warned that there is none.                                    *)
(***************************************************************************)
THEOREM SelectedCanRun == Spec => []SelectedAreRunnable
<1>1. SelectionInv => SelectedAreRunnable
  <2> SUFFICES ASSUME SelectionInv, Selected, NEW n \in 1..Len(selected)
               PROVE  /\ Enabled(selected[n])
                      /\ Name(selected[n]) \in registered \cup (Names \ Known)
    BY DEF SelectedAreRunnable
  <2>1. selected[n] \in Entries /\ Enabled(selected[n])
    BY DEF SelectionInv, TypeOK, EnabledOnly
  <2>2. tasks[selected[n]] \in Names \X BOOLEAN
    BY <2>1 DEF SelectionInv, TypeOK, Entries, Entry
  <2>3. Name(selected[n]) \in Names
    BY <2>2 DEF Name
  <2>4. selected[n] <= Passed
    BY <2>1 DEF Passed, Selected, Entries, SelectionInv, TypeOK
  <2>5. Name(selected[n]) \in Known => Name(selected[n]) \in registered
    BY <2>1, <2>4 DEF SelectionInv, RegistryInv, Selected, Registers
  <2> QED
    BY <2>1, <2>3, <2>5
<1> QED
  BY <1>1, SelectionInvariant, PTL

(***************************************************************************)
(* The number of tasks respects the configured bounds, min before max.     *)
(***************************************************************************)
THEOREM SizeIsAllowed == Spec => []SizeWithinBounds
<1>1. SelectionInv => SizeWithinBounds
  <2> SUFFICES ASSUME SelectionInv, Selected, explicit = <<>>, Available # {}
               PROVE  /\ Len(selected) >= least
                      /\ Len(selected) <= most \/ Len(selected) \in {least, 0}
    BY DEF SizeWithinBounds
  <2>1. Len(selected) \in Fewest..Largest
    BY DEF SelectionInv, CountInv
  <2>2. /\ Fewest \in 0..MaxInt /\ Largest \in 0..MaxInt /\ Fewest >= least
        /\ Largest <= most \/ (Largest = Fewest /\ Fewest \in {least, 0})
    BY CorrectedBounds DEF SelectionInv, TypeOK
  <2>3. least \in Int /\ most \in Int /\ MaxInt \in Nat
    BY TaskSelectionAssumption DEF SelectionInv, TypeOK
  <2> HIDE DEF Fewest, Largest
  <2>4. Len(selected) >= least
    BY <2>1, <2>2, <2>3
  <2>5. CASE Largest <= most
    BY <2>1, <2>2, <2>3, <2>4, <2>5
  <2>6. CASE Largest = Fewest /\ Fewest \in {least, 0}
    BY <2>1, <2>2, <2>3, <2>4, <2>6
  <2> QED
    BY <2>2, <2>5, <2>6
<1> QED
  BY <1>1, SelectionInvariant, PTL

(***************************************************************************)
(* Registering and selecting panic for the two stated reasons only.        *)
(***************************************************************************)
THEOREM PanicsAreCaused == Spec => []PanicHasACause
<1>1. SelectionInv => PanicHasACause
  BY DEF SelectionInv
<1> QED
  BY <1>1, SelectionInvariant, PTL

(***************************************************************************)
(* task_order sequential keeps the order of the configuration, as long as  *)
(* no name has two entries.                                                *)
(***************************************************************************)
THEOREM UniqueNamesKeepOrder == Spec => []InConfigOrderIfUnique
<1>1. SelectionInv => InConfigOrderIfUnique
  <2> SUFFICES ASSUME SelectionInv, \A i, j \in Entries : Name(i) = Name(j) => i = j,
                      Selected, SequentialTasks, explicit = <<>>,
                      NEW m \in 1..Len(selected), NEW n \in 1..Len(selected), m < n
               PROVE  selected[m] <= selected[n]
    BY DEF InConfigOrderIfUnique, InConfigOrder
  <2>1. \A i \in Entries : SortKey(i) = i
    <3> SUFFICES ASSUME NEW i \in Entries PROVE SortKey(i) = i
      OBVIOUS
    <3> DEFINE S == {j \in Entries : Name(j) = Name(i)}
    <3>1. S = {i}
      OBVIOUS
    <3>2. Len(tasks) \in Nat /\ S \in SUBSET (1..Len(tasks)) /\ S # {}
      BY <3>1 DEF Entries, SelectionInv, TypeOK
    <3>3. Max(S) \in S
      BY <3>2, GreatestPosition
    <3> QED
      BY <3>1, <3>3 DEF SortKey
  <2>2. selected[m] \in Entries /\ selected[n] \in Entries
    BY DEF SelectionInv, TypeOK
  <2>3. SortKey(selected[m]) <= SortKey(selected[n])
    BY DEF SelectionInv, OrderInv
  <2> QED
    BY <2>1, <2>2, <2>3
<1> QED
  BY <1>1, SelectionInvariant, PTL

(***************************************************************************)
(* A name has a task exactly when it stands for an enabled entry.          *)
(***************************************************************************)
LEMMA TaskOfName ==
    ASSUME tasks \in Seq(Entry), NEW n
    PROVE  HasTask(n) <=> EnabledNamed(n) # {}
<1>1. ASSUME NEW i \in Entries, tasks[i] = <<n, TRUE>> PROVE i \in EnabledNamed(n)
  <2>1. tasks[i][1] = n
    BY <1>1
  <2>2. tasks[i][2]
    BY <1>1
  <2> QED
    BY <2>1, <2>2 DEF EnabledNamed, Enabled, Name
<1>2. ASSUME NEW i \in EnabledNamed(n) PROVE i \in Entries /\ tasks[i] = <<n, TRUE>>
  <2>1. i \in Entries /\ Enabled(i) /\ Name(i) = n
    BY DEF EnabledNamed
  <2> QED
    BY <2>1, EnabledEntry
<1> QED
  BY <1>1, <1>2 DEF HasTask

(***************************************************************************)
(* While the explicit sequence is gone through, what is selected keeps the *)
(* part of it that is behind.                                              *)
(***************************************************************************)
ExplicitInv ==
    /\ phase = "explicit" => entry \in 1..(Len(explicit) + 1) /\ KeepsFirst(entry - 1)
    /\ ExplicitSequenceKept

LEMMA KeepsFirstKept ==
    ASSUME UNCHANGED <<tasks, explicit, selected>>, NEW count
    PROVE  KeepsFirst(count) => \E place \in [1..Len(selected') -> 1..count] : Keeps(place, count)'
<1> SUFFICES ASSUME NEW place \in [1..Len(selected) -> 1..count], Keeps(place, count)
             PROVE  Keeps(place, count)' /\ place \in [1..Len(selected') -> 1..count]
  BY DEF KeepsFirst
<1> QED
  BY DEF Keeps, HasTask, Name, Entries

LEMMA TakeExplicitKeeps ==
    ASSUME SelectionInv, TakeExplicit, entry \in 1..Len(explicit), KeepsFirst(entry - 1)
    PROVE  KeepsFirst(entry - 1)'
<1> DEFINE found == EnabledNamed(explicit[entry])
           count == Len(selected)
           before == entry - 1
<1>0. /\ tasks \in Seq(Entry) /\ selected \in Seq(Entries) /\ count \in Nat
      /\ (entry - 1)' = entry /\ entry \in Nat \ {0} /\ before \in Nat /\ entry = before + 1
      /\ Len(tasks) \in Nat
  BY DEF SelectionInv, TypeOK, TakeExplicit
<1>1. PICK place \in [1..count -> 1..before] :
        /\ \A m, n \in 1..count : m < n => place[m] < place[n]
        /\ \A n \in 1..count : Name(selected[n]) = explicit[place[n]]
        /\ \A k \in 1..before : HasTask(explicit[k]) <=> \E n \in 1..count : place[n] = k
  BY DEF KeepsFirst, Keeps
<1>2. UNCHANGED Config
  BY DEF TakeExplicit
<1>3. explicit' = explicit /\ tasks' = tasks
  BY <1>2 DEF Config
<1>7. PICK now \in Nat \ {0} : now = entry
  BY <1>0
<1>4. HasTask(explicit[entry]) <=> found # {}
  BY <1>0, TaskOfName
<1>5. CASE found = {}
  <2>1. selected' = selected
    BY <1>5 DEF TakeExplicit
  <2>2. place \in [1..count -> 1..entry]
    BY <1>0, <1>1
  <2>3. ASSUME NEW k \in 1..entry
        PROVE  HasTask(explicit[k]) <=> \E n \in 1..count : place[n] = k
    <3>1. CASE k = entry
      <4>1. \A n \in 1..count : place[n] # k
        BY <1>0, <1>1, <3>1
      <4> QED
        BY <1>4, <1>5, <3>1, <4>1
    <3>2. CASE k # entry
      <4>1. k \in 1..before
        BY <1>0, <3>2
      <4> QED
        BY <1>1, <4>1
    <3> QED
      BY <3>1, <3>2
  <2>4. Keeps(place, now)'
    <3> HIDE DEF found, count, before
    <3>1. \A m, n \in 1..Len(selected) : m < n => place[m] < place[n]
      BY <1>1 DEF count
    <3>2. \A n \in 1..Len(selected) : Name(selected[n]) = explicit[place[n]]
      BY <1>1 DEF count
    <3> QED
      BY <1>3, <1>7, <2>1, <2>3, <3>1, <3>2 DEF Keeps, HasTask, Name, Entries, count
  <2> QED
    BY <1>0, <1>7, <2>1, <2>2, <2>4 DEF KeepsFirst, count
<1>6. CASE found # {}
  <2> DEFINE at == [n \in 1..(count + 1) |-> IF n = count + 1 THEN entry ELSE place[n]]
  <2>1. Max(found) \in found
    BY <1>0, <1>6, GreatestPosition DEF EnabledNamed, Entries
  <2>2. selected' = Append(selected, Max(found))
    BY <1>6 DEF TakeExplicit
  <2>3. Max(found) \in Entries /\ Name(Max(found)) = explicit[entry]
    BY <2>1 DEF EnabledNamed
  <2> DEFINE one == Max(found)
  <2> HIDE DEF found, one
  <2>4. /\ Len(selected') = count + 1 /\ selected'[count + 1] = one
        /\ \A n \in 1..count : selected'[n] = selected[n]
    BY <1>0, <2>2, <2>3 DEF one
  <2>5. /\ at[count + 1] = entry
        /\ \A n \in 1..count : at[n] = place[n] /\ place[n] \in 1..before
        /\ \A n \in 1..(count + 1) : n = count + 1 \/ n \in 1..count
    BY <1>0, <1>1
  <2>6. at \in [1..(count + 1) -> 1..entry]
    BY <1>0, <1>1
  <2> HIDE DEF at
  <2>7. ASSUME NEW m \in 1..(count + 1), NEW n \in 1..(count + 1), m < n
        PROVE  at[m] < at[n]
    <3>1. m \in 1..count
      BY <1>0, <2>7
    <3>2. CASE n = count + 1
      BY <1>0, <2>5, <3>1, <3>2
    <3>3. CASE n \in 1..count
      BY <1>1, <2>5, <2>7, <3>1, <3>3
    <3> QED
      BY <2>5, <3>2, <3>3
  <2>8. ASSUME NEW n \in 1..(count + 1) PROVE Name(selected'[n]) = explicit[at[n]]
    BY <1>1, <2>3, <2>4, <2>5 DEF one
  <2>9. ASSUME NEW k \in 1..entry
        PROVE  HasTask(explicit[k]) <=> \E n \in 1..(count + 1) : at[n] = k
    <3>1. CASE k = entry
      <4>1. count + 1 \in 1..(count + 1)
        BY <1>0
      <4> QED
        BY <1>4, <1>6, <2>5, <3>1, <4>1
    <3>2. CASE k # entry
      <4>1. k \in 1..before
        BY <1>0, <3>2
      <4>2. (\E n \in 1..(count + 1) : at[n] = k) <=> \E n \in 1..count : place[n] = k
        <5>1. \A n \in 1..count : n \in 1..(count + 1)
          BY <1>0
        <5> QED
          BY <2>5, <3>2, <5>1
      <4> QED
        BY <1>1, <4>1, <4>2
    <3> QED
      BY <3>1, <3>2
  <2> HIDE DEF count, before
  <2>10. PICK placed : placed = at
    OBVIOUS
  <2>11. Keeps(placed, now)'
    BY <1>3, <1>7, <2>4, <2>7, <2>8, <2>9, <2>10 DEF Keeps, HasTask, Name, Entries
  <2> QED
    BY <1>0, <1>7, <2>4, <2>6, <2>10, <2>11 DEF KeepsFirst
<1> QED
  BY <1>5, <1>6

LEMMA ExplicitInvInductive == SelectionInv /\ ExplicitInv /\ [Next]_vars => ExplicitInv'
<1> SUFFICES ASSUME SelectionInv, ExplicitInv, [Next]_vars PROVE ExplicitInv'
  OBVIOUS
<1>0. Len(explicit) \in Nat /\ UNCHANGED Config
  BY DEF SelectionInv, TypeOK, Next, Register, Registered, TakeExplicit, ExplicitDone, ChooseCount,
     ChoosePanics, NothingAvailable, Draw, DrawDone, SortSelected, vars
<1>1. CASE TakeExplicit
  <2>1. /\ phase = "explicit" /\ entry \in 1..(Len(explicit) + 1) /\ KeepsFirst(entry - 1)
        /\ entry \in 1..Len(explicit) /\ entry' = entry + 1 /\ phase' = phase
    BY <1>0, <1>1 DEF TakeExplicit, ExplicitInv
  <2>2. KeepsFirst(entry - 1)'
    BY <1>1, <2>1, TakeExplicitKeeps
  <2>3. entry' \in 1..(Len(explicit') + 1)
    BY <1>0, <2>1 DEF Config
  <2> QED
    BY <2>1, <2>2, <2>3 DEF ExplicitInv, ExplicitSequenceKept, Selected
<1>2. CASE Registered
  <2>1. /\ selected = <<>> /\ selected' = <<>> /\ entry' = 1 /\ phase' # "selected"
    BY <1>2 DEF Registered, SelectionInv, CountInv
  <2>2. KeepsFirst(entry - 1)'
    <3>1. (entry - 1)' = 0 /\ Len(selected') = 0
      BY <2>1
    <3> DEFINE nowhere == [n \in 1..0 |-> 0]
    <3>2. nowhere \in [1..0 -> 1..0]
      OBVIOUS
    <3>3. Keeps(nowhere, 0)'
      <4>1. \A n \in 1..0 : FALSE
        OBVIOUS
      <4> HIDE DEF nowhere
      <4> QED
        BY <3>1, <4>1 DEF Keeps
    <3> QED
      BY <3>1, <3>2, <3>3 DEF KeepsFirst
  <2>3. entry' \in 1..(Len(explicit') + 1)
    BY <1>0, <2>1 DEF Config
  <2> QED
    BY <2>1, <2>2, <2>3 DEF ExplicitInv, ExplicitSequenceKept, Selected
<1>3. CASE ExplicitDone
  <2>1. /\ phase' = "selected" /\ selected' = selected /\ KeepsFirst(Len(explicit))
    <3>1. entry - 1 = Len(explicit) /\ KeepsFirst(entry - 1)
      BY <1>0, <1>3 DEF ExplicitDone, ExplicitInv
    <3> QED
      BY <1>3, <3>1 DEF ExplicitDone
  <2>2. KeepsFirst(Len(explicit))'
    BY <1>0, <2>1, KeepsFirstKept DEF KeepsFirst, Config
  <2> QED
    BY <2>1, <2>2 DEF ExplicitInv, ExplicitSequenceKept
<1>4. CASE UNCHANGED vars
  <2>1. UNCHANGED <<phase, entry, selected>>
    BY <1>4 DEF vars
  <2>2. (KeepsFirst(entry - 1)' <=> KeepsFirst(entry - 1))
    BY <1>0, <2>1 DEF KeepsFirst, Keeps, HasTask, Name, Entries, Config
  <2>3. (KeepsFirst(Len(explicit))' <=> KeepsFirst(Len(explicit)))
    BY <1>0, <2>1 DEF KeepsFirst, Keeps, HasTask, Name, Entries, Config
  <2> QED
    BY <1>0, <2>1, <2>2, <2>3 DEF ExplicitInv, ExplicitSequenceKept, Selected, Config
<1>5. CASE Register \/ ChooseCount \/ ChoosePanics \/ NothingAvailable \/ Draw \/ DrawDone
            \/ SortSelected
  <2>1. phase' # "explicit" /\ (phase' = "selected" => explicit' = <<>>)
    BY <1>0, <1>5
    DEF Register, ChooseCount, ChoosePanics, NothingAvailable, Draw, DrawDone, SortSelected,
        SelectionInv, CountInv, Config
  <2> QED
    BY <2>1 DEF ExplicitInv, ExplicitSequenceKept, Selected
<1> QED
  BY <1>1, <1>2, <1>3, <1>4, <1>5 DEF Next, vars

(***************************************************************************)
(* The explicit sequence is what the wallet gets, less the names without   *)
(* an enabled entry.                                                       *)
(***************************************************************************)
THEOREM ExplicitSequenceIsKept == Spec => []ExplicitSequenceKept
<1>1. Init => ExplicitInv
  BY DEF Init, ExplicitInv, ExplicitSequenceKept, Selected
<1>2. ExplicitInv => ExplicitSequenceKept
  BY DEF ExplicitInv
<1> QED
  BY <1>1, <1>2, SelectionInvariant, ExplicitInvInductive, PTL DEF Spec
=============================================================================
