SPECIFICATION AuctionSpec
CONSTANTS
    DECIMAL_FRACTIONAL = 100
    NONE = NONE
    Users = {1, 2}
    OWNER = OWNER
    MANAGER = MANAGER
    INIT_TIMESTAMP = 1
    DEPOSIT_WINDOW = 1
    WITHDRAWAL_WINDOW = 3
    LP_TOKENS_LOCK_WINDOW = 1
    MAX_EXCHANGE_RATE_AGE = 2
    MIN_NTRN_AMOUNT = 20
    MINIMUM_LIQUIDITY_AMOUNT = 1
    PACK_SIZE = 1
    MAX_TIME = 6
    WALLET = 3
    MAX_NTRN = 45
    Amounts = {0, 1, 3}
    LpAmounts = {1, 2}
    NtrnFunds = {45}
    FeedReplies <- MCFeedReplies
    UpdateConfigMsgs <- MCOneUpdate
    TokenInfoMsgs <- MCTokenInfoMsgs
INVARIANTS
    AuctionTypeOK
    LockedWithinEntitlement
    DepositsBacked
    LpSolvent
    EntitlementDelivered
PROPERTIES
    PoolSizeFrozen
    HalfStays
CHECK_DEADLOCK FALSE
