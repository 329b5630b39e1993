\* One alarm announced up to twice, two held rows, one fault of each kind.
SPECIFICATION FairSpec
CONSTANTS
    None = None
    Alarms = {a1}
    Releases = {r1, r2}
    Channels = {"os_native", "telegram", "pager"}
    Registered = {"os_native", "telegram"}
    Silent = {"telegram"}
    DefaultChannels <- MCDefaults
    AlarmPayloads <- MixedPayloads
    OverrideForUrgent = TRUE
    MaxAttempts = 2
    MaxCrashes = 1
    MaxErrors = 1
    MaxOverruns = 1
CHECK_DEADLOCK FALSE
INVARIANTS
    TypeOK
    DeliveredAtMostOnce
    LogTellsTheOutcome
    HeldHasWayOut
    ReleasedWasDispatched
PROPERTIES
    AnnouncedIsAnswered
