SPECIFICATION Spec
CONSTANTS
    j1 = j1
    Jobs = {j1}
    Maker = maker
    MakerSize = 1
    SignedJobs = {}
    Poisoned = {}
    Cancellable = {}
    MaxTxs = 1
    MaxCrashes = 0
CHECK_DEADLOCK FALSE
INVARIANT FailedIsRolledBack
