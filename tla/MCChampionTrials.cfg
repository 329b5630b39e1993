\* Two overlapping evaluations, one revert, one trial, one fault.
CONSTANTS
    t1 = t1
    nightly = nightly
    reforge = reforge
    user = user
    NoTrial = NoTrial
    NoOne = NoOne
    Trials <- MCTrials
    Evaluators <- MCEvaluators
    Users <- MCUsers
    Threshold = 2
    MaxDays = 3
    MaxReverts = 1
    MaxFaults = 1
SPECIFICATION FairSpec
INVARIANT RestartKeepsChampion
INVARIANT PreviousIsReplaced
PROPERTY RegressionSettles
