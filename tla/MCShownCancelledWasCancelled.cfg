\* The smallest instance in which one cancel ends two relays.
CONSTANTS
    s1 = s1
    s2 = s2
    t1 = t1
    t2 = t2
    Sessions <- MCSessions
    Turns <- TwoTurns
    MaxAsks = 1
    None = None
CHECK_DEADLOCK FALSE
SPECIFICATION Spec
INVARIANT ShownCancelledWasCancelled
