SPECIFICATION FeedsSpec
CONSTANTS
    DECIMAL_FRACTIONAL = 100
    NONE = NONE
    Users = {1}
    OWNER = OWNER
    MANAGER = MANAGER
    MAX_TIME = 6
    SymbolLists <- MCSymbolLists
    MAX_UPDATE_INTERVAL = 1
    FeedOwners = {OWNER, MANAGER}
    MAX_REQUESTS = 2
    UINT = 32
    TWAP_PRECISION = 2
    ONE = 2
    Prices = {1, 2, 4}
    CUMULATIVE = 27
    Periods = {0, 2}
    OracleManagers = {MANAGER}
    ConsultAmounts = {1, 3}
INVARIANTS
    RatesOfOneAnswer
    ConsultWithinPrices
CHECK_DEADLOCK FALSE
