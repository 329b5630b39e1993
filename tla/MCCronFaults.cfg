\* The loop's guarantees when statements of loop or bridge fail.
SPECIFICATION CronSpec
CONSTANTS
    None = None
    FireIds = {f1, f2}
    FireTimes <- MCTimes
    Kinds <- MCKinds
    Refs = {j1, j2}
    Prefixes = {j1, j2}
    Graces <- MCGraces
    Requests = {}
    DefaultPolicy = "skip_if_stale"
    DefaultGrace = 5
    MaxTime = 2
    MaxCrashes = 1
    MaxErrors = 1
    Handlers = {"h1"}
    Schedules <- RepeatingOrBroken
    MaxEdits = 2
CHECK_DEADLOCK FALSE
INVARIANTS
    CronTypeOK
    AtMostOncePerBoot
    WithdrawnNeverAnnounced
