SPECIFICATION DistributionFairSpec
CONSTANTS
    DECIMAL_FRACTIONAL = 100
    NONE = NONE
    Users = {1}
    OWNER = OWNER
    MANAGER = MANAGER
    MAX_TIME = 7
    AUCTION = AUCTION
    AuctionAddrs = {AUCTION}
    Generators = {"generator1"}
    LOCKDROP_INIT_TIMESTAMP = 0
    LOCK_WINDOW = 1
    LOCKDROP_WITHDRAWAL_WINDOW = 1
    MIN_LOCK_DURATION = 1
    MAX_LOCK_DURATION = 2
    MAX_POSITIONS_PER_USER = 2
    LockWeight <- MCLockWeight
    LockDurations = {1, 2}
    LockPools = {"ATOM"}
    LockAmounts = {1}
    MAX_LOCKED = 2
    Incentives = {2}
    MAX_INCENTIVES = 2
    Accruals = {}
    MAX_ACCRUED = 0
    IncentivesShares <- MCShares
    LockdropUpdateMsgs <- MCNoUpdates
    CREDITS = CREDITS
    DAO = DAO
    AIRDROP = AIRDROP
    AirdropAddrs = {AIRDROP}
    LOCKDROP = LOCKDROP
    LockdropAddrs = {LOCKDROP}
    RESERVE = RESERVE
    Reserves = {RESERVE}
    WithdrawableTimes = {2}
    MintAmounts = {7}
    MAX_SUPPLY = 7
    AIRDROP_START = 0
    VESTING_START = 3
    VESTING_DURATION = 4
    MerkleLeaves <- MCMerkleLeaves
    ClaimAmounts = {7}
    LockdropRewards = {0, 1, 2}
INVARIANTS
    AheadOfVestingBounded
PROPERTIES
    AirdropSpec
    AirdropHoldersReturned
CHECK_DEADLOCK FALSE
