SPECIFICATION ContractSpec
CONSTANTS
    alice = alice
    bob = bob
    Owners = {alice, bob}
    Nonces = {1, 2}
    Markets = {1}
    Orders <- TradeOrders
    Sizes = {1, 2}
    Prices = {1, 2}
    Hints = {0}
    MaxOrderTtl = 2
    MinOrderTtl = 0
    ReclaimGrace = 1
    MaxTime = 5
    s1 = s1
    s2 = s2
    Stakers = {s1, s2}
    Amounts = {1, 3}
    Cooldown = 1
    MaxClock = 2
    MaxTokens = 6
    MaxDebt = 1
    MaxShares = 8
    MaxEpoch = 1
SYMMETRY StakerSymmetry
INVARIANTS NeverOverfilled PoolsAreBacked CapitalHasShares RequestsAreCovered
PROPERTIES CancelIsFinal SharePriceOnlyFallsBySweep
