\* One task, two concurrent calls, two focuses, two faults.
CONSTANTS
    t1 = t1
    a = a
    b = b
    Tasks <- MCTasks
    Callers <- MCCallers
    MaxSlots = 1
    Hours = 3
    WarnHours <- MCWarnHours
    MaxChanges = 2
    MaxFaults = 2
SPECIFICATION FairSpec
INVARIANT TypeOK
INVARIANT RowsMatchFocus
PROPERTY EndsOnlyItsOwn
PROPERTY OverdueEnds
