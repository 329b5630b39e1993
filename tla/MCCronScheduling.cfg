\* Cron scheduling with one handler, a crash, no database errors: safety, and a fire for every enabled job.
SPECIFICATION CronFairSpec
CONSTANTS
    None = None
    FireIds = {f1, f2, f3}
    FireTimes <- MCTimes
    Kinds <- MCKinds
    Refs = {j1}
    Prefixes = {j1}
    Graces <- MCGraces
    Requests = {}
    DefaultPolicy = "skip_if_stale"
    DefaultGrace = 5
    MaxTime = 2
    MaxCrashes = 1
    MaxErrors = 0
    Handlers = {"h1"}
    Schedules <- RepeatingOrOneShot
    MaxEdits = 3
CHECK_DEADLOCK FALSE
INVARIANTS
    FiresSpaced
    LateFiresBounded
PROPERTY StaysScheduled
