CONSTANTS
    k1 = k1
    k2 = k2
    t1 = t1
    t2 = t2
    Keys <- MCKeys
    Turns <- MCTurns
    MaxCache = 1
    TrimAt = 3
    TrimKeep = 2
    CompactAt = 4
    CompactKeep = 3
    EvictAttempts = 2
    OldMessages = 3
    MaxErrors = 1
    MaxDeletes = 1
    None = None

SYMMETRY Symmetry
CHECK_DEADLOCK FALSE
SPECIFICATION Spec
INVARIANT TypeOK
INVARIANT AnsweredIsStored
INVARIANT LossIsExplained
INVARIANT ResetIsFinal
