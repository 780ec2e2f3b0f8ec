SPECIFICATION Spec
CONSTANTS
    j1 = j1
    j2 = j2
    Jobs = {j1, j2}
    Maker = maker
    MakerSize = 2
    SignedJobs = {}
    Poisoned = {}
    Cancellable = {}
    MaxTxs = 2
    MaxCrashes = 0
CHECK_DEADLOCK FALSE
INVARIANT FilledCountsFills
