CONSTANTS
    balance = balance
    dummy = dummy
    other = other
    Names = {balance, dummy, other}
    Known = {balance, dummy}
    MaxEntries = 3
    MaxSequence = 2
    ActionBounds <- SmallBounds
    MaxInt = 4
    MaxSlice = 3
    SequentialTasks = TRUE
SPECIFICATION Spec
INVARIANTS TypeOK SelectedAreRunnable SizeWithinBounds PanicHasACause InConfigOrderIfUnique ExplicitSequenceKept
