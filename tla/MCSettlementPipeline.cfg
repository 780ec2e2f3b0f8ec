SPECIFICATION FairSpec
CONSTANTS
    j1 = j1
    Jobs = {j1}
    Maker = maker
    MakerSize = 1
    SignedJobs = {}
    Poisoned = {}
    Cancellable = {j1}
    MaxTxs = 2
    MaxCrashes = 1
CHECK_DEADLOCK FALSE
INVARIANTS OneRequestSubmits ConfirmedIsSettled
PROPERTY SignedJobLeavesQueue
