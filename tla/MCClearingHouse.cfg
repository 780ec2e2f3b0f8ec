SPECIFICATION Spec
CONSTANTS
    u1 = u1
    u2 = u2
    Users = {u1, u2}
    FeeRecipient = fees
    Insurance = insurance
    Prices = {4, 8}
    Quotes = {2}
    ExecutionPrices = {4, 5, 8}
    Sizes = {1, 2}
    Amounts = {4}
    FundingDeltas = {1}
    InitialBps = 5000
    MaintenanceBps = 2500
    HaircutBps = 0
    DeviationBps = 2500
    MakerFeeBps = 0
    TakerFeeBps = 1500
    RewardBps = 2500
    OiPolicyBps = 40000
    MaxOpenInterest = 4
    MaxPositions = 16
    DepositCap = 8
    RatioPrecision = 100
    MaxFund = 4
    MaxIndex = 1
    MaxFills = 3
SYMMETRY TraderSymmetry
INVARIANTS BooksAgree ValueIsConserved SolventTraderCanExit
PROPERTIES OwnActionsKeepInitialMargin AdlPaysTheDebtItClears PauseFreezesBalances
