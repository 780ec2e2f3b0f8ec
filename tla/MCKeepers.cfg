SPECIFICATION KeeperSpec
CONSTANTS
    Markets = {"XLM"}
    Stables = {"USDC"}
    Listings = {{"XLM"}, {"USDC"}}
    Prices = {200, 220}
    Peg = 200
    MIN_SOURCES = 2
    MAX_SOURCE_DEVIATION_BPS = 200
    REFLECTOR_DIVERGENCE_HALT_BPS = 300
    DEPEG_HALT_BPS = 100
    PUBLISH_DEVIATION_BPS = 30
    HEARTBEAT = 2
    BACKDATE = 1
    TX_TIMEOUT = 2
    POLL_TIMEOUT = 0
    CHECK_INTERVAL = 1
    IDLE_GRACE = 2
    MAX_AGE = 4
    MaxLag = 1
    Signals = {"usdc"}
    Settle = 2
    MaxTime = 7
    MaxUpsets = 1
    Keepers = {1, 2}
    TtlWallet = 2
    Floor = 1
    Target = 2
    Reserve = 1
    MaxUsdc = 3
    Quotes = {1, 2}
    Slip = 1
    SourceXlm = 3
    SourceUsdc = 3
    Entries = {e1, e2}
    e1 = e1
    e2 = e2
    Threshold = 3
    ExtendTo = 4
    Ceiling = 8
    MaxMissed = 1
    MaxDays = 5
    MaxRefills = 2
INVARIANTS PriceIsSound FreshWhenNeeded RefillStaysInBounds NothingArchived
PROPERTY OlderNeverWins
CHECK_DEADLOCK FALSE
