SPECIFICATION LockdropSpec
CONSTANTS
    DECIMAL_FRACTIONAL = 100
    NONE = NONE
    Users = {1, 2}
    OWNER = OWNER
    MANAGER = MANAGER
    MAX_TIME = 5
    AUCTION = AUCTION
    AuctionAddrs = {AUCTION}
    Generators = {"generator1"}
    LOCKDROP_INIT_TIMESTAMP = 0
    LOCK_WINDOW = 1
    LOCKDROP_WITHDRAWAL_WINDOW = 2
    MIN_LOCK_DURATION = 1
    MAX_LOCK_DURATION = 2
    MAX_POSITIONS_PER_USER = 2
    LockWeight <- MCFractionalWeight
    LockDurations = {2}
    LockPools = {"ATOM"}
    LockAmounts = {1, 2}
    MAX_LOCKED = 2
    Incentives = {10}
    MAX_INCENTIVES = 10
    Accruals = {3}
    MAX_ACCRUED = 3
    IncentivesShares <- MCShares
    LockdropUpdateMsgs <- MCNoUpdates
INVARIANT FullWithdrawalAccepted
CHECK_DEADLOCK FALSE
