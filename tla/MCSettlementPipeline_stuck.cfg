SPECIFICATION FairSpec
CONSTANTS
    j1 = j1
    Jobs = {j1}
    Maker = maker
    MakerSize = 1
    SignedJobs = {}
    Poisoned = {}
    Cancellable = {}
    MaxTxs = 2
    MaxCrashes = 0
CHECK_DEADLOCK FALSE
PROPERTY SubmittedResolves
