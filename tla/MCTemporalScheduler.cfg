\* Safety of the loop with crashes and database errors.
SPECIFICATION FairSpec
CONSTANTS
    None = None
    FireIds = {f1, f2}
    FireTimes <- MCTimes
    Kinds <- MCKinds
    Refs <- MCRefs
    Prefixes <- MCPrefixes
    Graces <- MCGraces
    Requests <- MixedRequests
    DefaultPolicy = "skip_if_stale"
    DefaultGrace = 1
    MaxTime = 2
    MaxCrashes = 1
    MaxErrors = 1
CHECK_DEADLOCK FALSE
INVARIANTS
    TypeOK
    IdleLeavesNothingInFlight
    EveryFireAccounted
    SuppressedForNewer
PROPERTIES
    DueSettles
    SuppressionNotLost
    ImplementsContract
