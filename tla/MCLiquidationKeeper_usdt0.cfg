SPECIFICATION Spec
CONSTANTS
    u1 = u1
    u2 = u2
    Users = {u1, u2}
    Markets = {1, 2}
    ActiveMarkets = {1}
    Prices = {0, 3, 8, 10}
    Entry = 10
    MaintenanceBps = 2000
    RewardBps = 1000
    BandBps = 2000
    OtherPrice = 3
    HaircutBps = 2000
    MAX_ACCOUNTS_PER_TICK = 2
    SETTLE_DEFICITS = TRUE
    Portfolios <- MCUsdtOnly
    InitialPrices = {3, 8}
    InitialFund = 1
    TopUp = 8
    MaxEvents = 1
    MaxTimeouts = 2
INVARIANT LossIsRecorded
