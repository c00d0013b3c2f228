SPECIFICATION VestingLpSpec
CONSTANTS
    DECIMAL_FRACTIONAL = 100
    NONE = NONE
    Users = {1, 2}
    OWNER = OWNER
    MANAGER = MANAGER
    MAX_TIME = 3
    MAX_PROPOSAL_TTL = 1
    NewOwners = {MANAGER}
    ExpiresIn = {0, 1, 2}
    Deployments = {{"lp", "pcl"}, {"investors"}, {"lti"}, {"pcl"}}
    AdminDeployments = {{"pcl"}}
    VestingAssets = {"token"}
    VestingRequests <- MCRequests
    VestingAmounts = {3, 4}
    ClaimAmounts = {1}
    MAX_REGISTRATIONS = 2
    SharePrices <- MCSharePrices
    MintedLp = {0, 2}
    DirectInfos <- MCDirectInfos
    DONATION = 1
INVARIANTS
    VestingTypeOK
    GrantsFunded
    TotalsMatchAccounts
    NeverAheadOfSchedule
PROPERTIES
    OwnershipHandedOver
    OthersTokensUntouched
    GrantsPaidOut
CHECK_DEADLOCK FALSE
