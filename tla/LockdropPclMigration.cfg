SPECIFICATION MigrationSpec
CONSTANTS
    DECIMAL_FRACTIONAL = 100
    NONE = NONE
    Users = {1, 2}
    OWNER = OWNER
    MANAGER = MANAGER
    MAX_TIME = 4
    AUCTION = AUCTION
    AuctionAddrs = {AUCTION}
    Generators = {"generator1"}
    LOCKDROP_INIT_TIMESTAMP = 0
    LOCK_WINDOW = 1
    LOCKDROP_WITHDRAWAL_WINDOW = 1
    MIN_LOCK_DURATION = 1
    MAX_LOCK_DURATION = 2
    MAX_POSITIONS_PER_USER = 2
    LockWeight <- MCWholeWeight
    LockDurations = {1, 2}
    LockPools = {"ATOM", "USDC"}
    LockAmounts = {1}
    MAX_LOCKED = 2
    Incentives = {10}
    MAX_INCENTIVES = 10
    Accruals = {7}
    MAX_ACCRUED = 7
    IncentivesShares <- MCShares
    LockdropUpdateMsgs <- MCNoUpdates
    PclDurations = {1, 2}
    INCENTIVES = "incentives1"
    IncentivesAddrs = {"incentives1", "incentives2"}
    PclAccruals = {3}
    MAX_PCL_ACCRUED = 3
    InitialLockups <- MCBooks
    MintedLp = {1, 2}
INVARIANTS
    PclLedgersAgree
    PclRewardsCovered
    NoObligationsLeft
    OnlyDustKept
PROPERTIES
    CustodyKept
    EveryLockupReturned
CHECK_DEADLOCK FALSE
