SPECIFICATION AuctionFairSpec
CONSTANTS
    DECIMAL_FRACTIONAL = 100
    NONE = NONE
    Users = {1, 2, 3}
    OWNER = OWNER
    MANAGER = MANAGER
    INIT_TIMESTAMP = 1
    DEPOSIT_WINDOW = 1
    WITHDRAWAL_WINDOW = 1
    LP_TOKENS_LOCK_WINDOW = 1
    MAX_EXCHANGE_RATE_AGE = 2
    MIN_NTRN_AMOUNT = 30
    MINIMUM_LIQUIDITY_AMOUNT = 1
    PACK_SIZE = 1
    MAX_TIME = 4
    WALLET = 3
    MAX_NTRN = 45
    Amounts = {3}
    LpAmounts = {1, 2}
    NtrnFunds = {30, 45}
    FeedReplies <- MCFeedReplies
    UpdateConfigMsgs <- MCUpdateConfigMsgs
    TokenInfoMsgs <- MCTokenInfoMsgs
PROPERTIES
    LaunchCompletes
CHECK_DEADLOCK FALSE
