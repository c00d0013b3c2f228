SPECIFICATION AirdropFairSpec
CONSTANTS
    DECIMAL_FRACTIONAL = 100
    NONE = NONE
    Users = {1, 2}
    OWNER = OWNER
    MANAGER = MANAGER
    MAX_TIME = 5
    CREDITS = CREDITS
    DAO = DAO
    AIRDROP = AIRDROP
    AirdropAddrs = {AIRDROP}
    LOCKDROP = LOCKDROP
    LockdropAddrs = {LOCKDROP}
    RESERVE = RESERVE
    Reserves = {RESERVE, RESERVE2}
    WithdrawableTimes = {2, 4}
    MintAmounts = {3, 5}
    MAX_SUPPLY = 11
    AIRDROP_START = 0
    VESTING_START = 1
    VESTING_DURATION = 3
    MerkleLeaves <- MCMerkleLeaves
    ClaimAmounts = {0, 2, 5}
    LockdropRewards = {0, 1}
INVARIANTS
    Backed
    HoldersAccounted
    WithdrawnWithinVested
    LockdropBurnAccepted
PROPERTIES
    AllocationsPaidOut
    UnclaimedReturned
CHECK_DEADLOCK FALSE
