SPECIFICATION Spec
CONSTANTS
    u1 = u1
    u2 = u2
    Users = {u1, u2}
    FeeRecipient = fees
    Insurance = insurance
    Prices = {4, 8}
    Quotes = {1}
    ExecutionPrices = {4, 5, 8}
    Sizes = {1, 3}
    Amounts = {8}
    FundingDeltas = {1}
    InitialBps = 5000
    MaintenanceBps = 2500
    HaircutBps = 0
    DeviationBps = 2500
    MakerFeeBps = 0
    TakerFeeBps = 0
    RewardBps = 100
    OiPolicyBps <- NoPolicy
    MaxOpenInterest = 8
    MaxPositions = 16
    DepositCap = 16
    RatioPrecision = 100
    MaxFund = 8
    MaxIndex = 1
    MaxFills = 2
PROPERTY BadDebtIsOwed
