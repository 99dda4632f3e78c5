---------------------------- MODULE TaskSelection ----------------------------
(***************************************************************************)
(* From the tasks section of config.yml to the list of tasks of a wallet:  *)
(* RegisterTasksFromConfig fills the registry once at start, SelectTasks   *)
(* then draws the list, entry by entry.  A configuration is a sequence of  *)
(* entries <<name, enabled>>; a selected entry is its index in it.         *)
(***************************************************************************)
EXTENDS Integers, Sequences, FiniteSets, FiniteSetsExt, SequencesExt

CONSTANTS
    Names,          \* task names that occur in the configuration
    Known,          \* those bootstrap has a constructor for
    MaxEntries,     \* bound: entries in the tasks section
    MaxSequence,    \* bound: length of explicit_task_sequence
    ActionBounds,   \* bound: values of actions_per_account.min and .max
    MaxInt,         \* the greatest int
    MaxSlice,       \* the most tasks memory can be allocated for
    SequentialTasks \* actions.task_order = sequential

ASSUME TaskSelectionAssumption ==
    /\ Known \subseteq Names
    /\ MaxEntries \in Nat /\ MaxSequence \in Nat
    /\ MaxInt \in Nat \ {0} /\ MaxSlice \in 0..(MaxInt - 1)
    /\ ActionBounds \subseteq (-MaxInt - 1)..MaxInt
    /\ SequentialTasks \in BOOLEAN

INSTANCE RandomRange WITH Second <- 1, Minute <- 60

VARIABLES
    tasks,      \* cfg.Tasks
    explicit,   \* cfg.Actions.ExplicitTaskSequence
    least,      \* cfg.Actions.ActionsPerAccount.Min
    most,       \* cfg.Actions.ActionsPerAccount.Max
    phase,      \* register, panicked, select, draw, order, selected
    entry,      \* the entry or name the current loop has reached
    registered, \* names in the constructors map
    wanted,     \* numTasksToSelect
    selected    \* the list under construction: indices into tasks

Config == <<tasks, explicit, least, most>>
vars == <<Config, phase, entry, registered, wanted, selected>>

Entry == Names \X BOOLEAN
Name(i) == tasks[i][1]
Enabled(i) == tasks[i][2]
Entries == 1..Len(tasks)

AtMost(S, n) == UNION {[1..k -> S] : k \in 0..n}

TypeOK ==
    /\ tasks \in Seq(Entry)
    /\ explicit \in Seq(Names)
    /\ least \in ActionBounds /\ most \in ActionBounds
    /\ phase \in {"register", "panicked", "select", "explicit", "draw", "order", "selected"}
    /\ entry \in Nat
    /\ registered \subseteq Known
    /\ wanted \in Nat
    /\ selected \in Seq(Entries)

Init ==
    /\ tasks \in AtMost(Entry, MaxEntries)
    /\ explicit \in AtMost(Names, MaxSequence)
    /\ least \in ActionBounds /\ most \in ActionBounds
    /\ phase = "register"
    /\ entry = 1
    /\ registered = {}
    /\ wanted = 0
    /\ selected = <<>>

(***************************************************************************)
(* RegisterTasksFromConfig, entry by entry: a disabled entry is passed     *)
(* over, one without a constructor only warned about, and a second enabled *)
(* entry of a known name panics in MustRegisterConstructor.                *)
(***************************************************************************)
Registers(i) == Enabled(i) /\ Name(i) \in Known

Register ==
    /\ phase = "register"
    /\ entry \in Entries
    /\ entry' = entry + 1
    /\ IF Registers(entry)
       THEN /\ registered' = registered \cup {Name(entry)}
            /\ phase' = IF Name(entry) \in registered THEN "panicked" ELSE phase
       ELSE UNCHANGED <<registered, phase>>
    /\ UNCHANGED <<Config, wanted, selected>>

Registered ==
    /\ phase = "register"
    /\ entry = Len(tasks) + 1
    /\ entry' = 1
    /\ phase' = IF explicit = <<>> THEN "select" ELSE "explicit"
    /\ UNCHANGED <<Config, registered, wanted, selected>>

(***************************************************************************)
(* The explicit sequence: each name stands for the last enabled entry of   *)
(* that name, a name without one is left out.                              *)
(***************************************************************************)
\* A bug: a disabled entry counts.
Named(n) == {i \in Entries : Name(i) = n}

EnabledNamed(n) == {i \in Entries : Enabled(i) /\ Name(i) = n}

TakeExplicit ==
    /\ phase = "explicit"
    /\ entry <= Len(explicit)
    /\ entry' = entry + 1
    /\ selected' = LET found == EnabledNamed(explicit[entry])
                   IN  IF found = {} THEN selected ELSE Append(selected, Max(found))
    /\ UNCHANGED <<Config, phase, registered, wanted>>

ExplicitDone ==
    /\ phase = "explicit"
    /\ entry = Len(explicit) + 1
    /\ phase' = "selected"
    /\ UNCHANGED <<Config, entry, registered, wanted, selected>>

(***************************************************************************)
(* The random mode: the tasks to draw from.                                *)
(***************************************************************************)
\* A bug: disabled entries are drawn too.
Everything == Entries

Available == {i \in Entries : Enabled(i)}

(***************************************************************************)
(* RandomIntInRange panics where the bounds are too far apart, make where  *)
(* there is no room for as many tasks as were drawn.                       *)
(***************************************************************************)
ChooseCount ==
    /\ phase = "select"
    /\ Available # {}
    /\ ~CountPanics(least, most)
    /\ wanted' \in Counts(least, most)
    /\ phase' = IF wanted' = 0 THEN "selected"
                ELSE IF wanted' > MaxSlice THEN "panicked" ELSE "draw"
    /\ UNCHANGED <<Config, entry, registered, selected>>

ChoosePanics ==
    /\ phase = "select"
    /\ Available # {}
    /\ CountPanics(least, most)
    /\ phase' = "panicked"
    /\ UNCHANGED <<Config, entry, registered, wanted, selected>>

NothingAvailable ==
    /\ phase = "select"
    /\ Available = {}
    /\ phase' = "selected"
    /\ UNCHANGED <<Config, entry, registered, wanted, selected>>

(***************************************************************************)
(* Tasks are drawn with replacement.                                       *)
(***************************************************************************)
Draw ==
    /\ phase = "draw"
    /\ Len(selected) < wanted
    /\ \E i \in Available : selected' = Append(selected, i)
    /\ UNCHANGED <<Config, phase, entry, registered, wanted>>

DrawDone ==
    /\ phase = "draw"
    /\ Len(selected) = wanted
    /\ phase' = IF SequentialTasks THEN "order" ELSE "selected"
    /\ UNCHANGED <<Config, entry, registered, wanted, selected>>

(***************************************************************************)
(* sort.SliceStable by originalIndex, a map from names to the index of     *)
(* their last entry, enabled or not.                                       *)
(***************************************************************************)
SortKey(i) == Max({j \in Entries : Name(j) = Name(i)})

\* A bug: the list is left as drawn.
Unsorted(s) == s

StablySorted(s) ==
    LET rank(p) == Cardinality({q \in 1..Len(s) :
                      \/ SortKey(s[q]) < SortKey(s[p])
                      \/ SortKey(s[q]) = SortKey(s[p]) /\ q <= p})
    IN  [r \in 1..Len(s) |-> s[CHOOSE p \in 1..Len(s) : rank(p) = r]]

SortSelected ==
    /\ phase = "order"
    /\ selected' = StablySorted(selected)
    /\ phase' = "selected"
    /\ UNCHANGED <<Config, entry, registered, wanted>>

Next ==
    \/ Register \/ Registered
    \/ TakeExplicit \/ ExplicitDone
    \/ ChooseCount \/ ChoosePanics \/ NothingAvailable
    \/ Draw \/ DrawDone \/ SortSelected
    \/ phase \in {"selected", "panicked"} /\ UNCHANGED vars

Spec == Init /\ [][Next]_vars

-----------------------------------------------------------------------------

Selected == phase = "selected"

(***************************************************************************)
(* What the processor then looks up exists: a selected entry is enabled,   *)
(* and NewTask finds its constructor unless bootstrap warned about it.     *)
(***************************************************************************)
SelectedAreRunnable ==
    Selected => \A n \in 1..Len(selected) :
        /\ Enabled(selected[n])
        /\ Name(selected[n]) \in registered \cup (Names \ Known)

(***************************************************************************)
(* Without an explicit sequence a wallet with something to do gets between *)
(* min and max tasks; where they contradict, min wins; none only if min    *)
(* allows it.                                                              *)
(***************************************************************************)
SizeWithinBounds ==
    Selected /\ explicit = <<>> /\ Available # {} =>
        /\ Len(selected) >= least
        /\ Len(selected) <= most \/ Len(selected) \in {least, 0}

(***************************************************************************)
(* Registering and selecting panic, which ends the program, only over a    *)
(* second enabled entry of a known name, or a bound that asks for more     *)
(* tasks than memory holds: negative and contradictory bounds do no harm.  *)
(***************************************************************************)
PanicHasACause ==
    phase = "panicked" =>
        \/ \E i, j \in Entries : i < j /\ tasks[i] = tasks[j] /\ Registers(j)
        \/ least > MaxSlice \/ most > MaxSlice

(***************************************************************************)
(* The explicit sequence is kept: in order, repetitions included, with     *)
(* nothing left out but the names that have no enabled entry.              *)
(***************************************************************************)
HasTask(n) == \E i \in Entries : tasks[i] = <<n, TRUE>>

Keeps(place, count) ==
    /\ \A m, n \in 1..Len(selected) : m < n => place[m] < place[n]
    /\ \A n \in 1..Len(selected) : Name(selected[n]) = explicit[place[n]]
    /\ \A k \in 1..count : HasTask(explicit[k]) <=> \E n \in 1..Len(selected) : place[n] = k

KeepsFirst(count) == \E place \in [1..Len(selected) -> 1..count] : Keeps(place, count)

ExplicitSequenceKept == Selected /\ explicit # <<>> => KeepsFirst(Len(explicit))

(***************************************************************************)
(* task_order sequential: "sort the selected tasks by their order in the   *)
(* config" (selector.go), so a task listed later is not run earlier.       *)
(***************************************************************************)
InConfigOrder ==
    Selected /\ SequentialTasks /\ explicit = <<>> =>
        \A m, n \in 1..Len(selected) : m < n => selected[m] <= selected[n]

(***************************************************************************)
(* The same where no name has two entries.                                 *)
(***************************************************************************)
InConfigOrderIfUnique ==
    (\A i, j \in Entries : Name(i) = Name(j) => i = j) => InConfigOrder
=============================================================================
