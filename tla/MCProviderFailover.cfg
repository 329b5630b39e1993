\* The manager the factory builds: a fallback, a breaker, a restart at any point.
CONSTANTS
    c1 = c1
    c2 = c2
    Calls <- MCCalls
    Threshold = 2
    ResetTime = 2
    HasFallback = TRUE
    MaxCuts = 1
    MaxSaves = 1
SPECIFICATION FairSpec
INVARIANT TypeOK
INVARIANT ThresholdIsActedOn
INVARIANT OpenOutlivesRestart
PROPERTY OpensOnlyAtThreshold
PROPERTY PrimaryTriedAgain
