SPECIFICATION LaunchSpec
CONSTANTS
    DECIMAL_FRACTIONAL = 100
    NONE = NONE
    Users = {1, 2}
    OWNER = OWNER
    MANAGER = MANAGER
    MAX_TIME = 5
    INIT_TIMESTAMP = 0
    DEPOSIT_WINDOW = 1
    WITHDRAWAL_WINDOW = 1
    LP_TOKENS_LOCK_WINDOW = 2
    MAX_EXCHANGE_RATE_AGE = 1
    MIN_NTRN_AMOUNT = 40
    MINIMUM_LIQUIDITY_AMOUNT = 1
    PACK_SIZE = 2
    WALLET = 3
    MAX_NTRN = 40
    Amounts = {3}
    LpAmounts = {1, 2}
    NtrnFunds = {40}
    FeedReplies <- MCFeedReplies
    UpdateConfigMsgs <- MCUpdateConfigMsgs
    TokenInfoMsgs <- MCTokenInfoMsgs
    AUCTION = AUCTION
    AuctionAddrs = {AUCTION}
    Generators = {"generator1"}
    LOCKDROP_INIT_TIMESTAMP = 2
    LOCK_WINDOW = 1
    LOCKDROP_WITHDRAWAL_WINDOW = 1
    MIN_LOCK_DURATION = 1
    MAX_LOCK_DURATION = 2
    MAX_POSITIONS_PER_USER = 2
    LockWeight <- MCLockWeight
    LockDurations = {1}
    LockPools = {"ATOM", "USDC"}
    LockAmounts = {1, 2}
    MAX_LOCKED = 10
    Incentives = {10}
    MAX_INCENTIVES = 10
    Accruals = {}
    MAX_ACCRUED = 0
    IncentivesShares <- MCShares
    LockdropUpdateMsgs <- MCNoUpdates
INVARIANTS
    LocksHonoured
    RewardsCovered
PROPERTIES
    LockdropSpec
CHECK_DEADLOCK FALSE
