SPECIFICATION TerminalSpec
CONSTANTS
    t1 = t1
    t2 = t2
    d1 = d1
    d2 = d2
    Tabs = {t1, t2}
    Traders = {t1}
    PerMs = 1
    MaxMs = 1
    MaxOrders = 2
    ListCap = 1
    PollCap = 1
    MaxFaults = 1
    Markets = {1, 2}
    MaxSockets = 3
    MaxVersion = 1
    MaxSwitches = 1
    Listed = {1, 2}
    Desks = {d1, d2}
    Purse = 2
    DepositCap = 3
    BridgeStep = 2
    MaxSent = 2
    MaxMishaps = 2
INVARIANT NoncesAreUnique
CHECK_DEADLOCK FALSE
