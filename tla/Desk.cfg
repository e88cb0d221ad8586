SPECIFICATION DeskSpec
CONSTANTS
    operator = operator
    alice = alice
    perp1 = perp1
    NoOne = NoOne
    Accounts <- Pair
    Deployer = operator
    FirstManager = operator
    RoleCandidates <- Alice
    DefaultTimeout = 1
    Timeouts <- Two
    MaxTime = 3
    Assets <- OnePerp
    Batches <- SomeBatches
    AssetCaps <- OneAssetCap
    CapChoices <- EpochCaps
    MaxSent = 3
INVARIANTS
    UsedMatchesSent
    WindowWithinTwiceCap
    BackstopNeedsSilence
ACTION_CONSTRAINT RolesRest
CHECK_DEADLOCK FALSE
