SPECIFICATION FairSpec
CONSTANTS
    j1 = j1
    j2 = j2
    j3 = j3
    Jobs = {j1, j2, j3}
    Maker = maker
    MakerSize = 2
    SignedJobs = {j1, j2, j3}
    Poisoned = {j3}
    Cancellable = {maker}
    MaxTxs = 2
    MaxCrashes = 0
CHECK_DEADLOCK FALSE
INVARIANT ConfirmedIsSettled
PROPERTY FillResolves
