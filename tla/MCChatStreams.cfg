\* Two turns in two sessions, safety and liveness.
CONSTANTS
    s1 = s1
    s2 = s2
    t1 = t1
    t2 = t2
    Sessions <- MCSessions
    Turns <- TwoTurns
    MaxAsks = 1
    None = None
CHECK_DEADLOCK FALSE
SPECIFICATION FairSpec
INVARIANT TypeOK
INVARIANT SendableAfterEnd
INVARIANT NoQuestionWithoutRelay
PROPERTY EntryGoesWithItsOwn
PROPERTY EveryTurnIsClosed
