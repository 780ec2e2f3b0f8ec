SPECIFICATION JobSpec
CONSTANTS
    Ticks = {r1, r2}
    Accounts = {a1, a2}
    MaxChanges = 2
    MaxBlips = 1
    NumMarkets = 2
    Down = {1}
    Stale = 1
    Reminder = 1
    Full = 2
    Warn = 1
    External <- MCExternal
    MaxRounds = 2
    MaxFaults = 1
PROPERTIES FundingKeepsAccruing StalenessIsReported ReadModelsCatchUp
CHECK_DEADLOCK FALSE
