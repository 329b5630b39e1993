\* One evaluation, the threshold of the code, nothing fails.
CONSTANTS
    t1 = t1
    nightly = nightly
    reforge = reforge
    user = user
    NoTrial = NoTrial
    NoOne = NoOne
    Trials <- MCTrials
    Evaluators <- MCNightly
    Users <- MCNobody
    Threshold = 3
    MaxDays = 3
    MaxReverts = 0
    MaxFaults = 0
SPECIFICATION Spec
INVARIANT LiveParamsFollowChampion
