SPECIFICATION DarkSpec
CONSTANTS
    alice = alice
    operator = operator
    vault = vault
    perp1 = perp1
    NoOne = NoOne
    Accounts <- Solo
    Deployer = operator
    FirstManager = operator
    RoleCandidates <- NoArgs
    DefaultTimeout = 1
    Timeouts <- NoArgs
    MaxTime = 2
    Assets <- NoArgs
    Batches <- NoBatches
    AssetCaps <- NoArgs
    CapChoices <- NoCaps
    MaxSent = 0
    MaxCoreAmount = 100
    MaxQueue = 2
    PnlMoves <- Flat
    MarginLevels <- Flat
    PerpRange <- PerpValues
    Vault = vault
    VirtualShares = 2
    BPS = 10
    YEAR = 2
    PriceScale = 12
    MaxFees <- MaxFeeRates
    DefaultFees <- NoFees
    ProtocolFee = 0
    Treasury = NoOne
    ProtocolGovernor = NoOne
    Endowment = 2
    AssetAmounts <- OneAmount
    ShareAmounts <- OneCount
    BridgeAmounts <- Amounts12
    Donations <- NoArgs
    FeeChoices <- NoArgs
    ProtocolFees <- NoArgs
    FeeAddresses <- NoArgs
    DepositCaps <- NoArgs
PROPERTIES
    ExitsComplete
CHECK_DEADLOCK FALSE
