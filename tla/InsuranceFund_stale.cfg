SPECIFICATION FundSpec
CONSTANTS
    Stakers = {s1, s2}
    Amounts = {1, 3}
    Cooldown = 1
    MaxClock = 2
    MaxTokens = 6
    MaxDebt = 1
    MaxShares = 8
    MaxEpoch = 1
PROPERTY StaleRequestKeepsNewShares
