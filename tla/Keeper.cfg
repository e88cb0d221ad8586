SPECIFICATION KeeperSpec
CONSTANTS
    alice = alice
    operator = operator
    vault = vault
    perp1 = perp1
    NoOne = NoOne
    Accounts <- Solo
    Deployer = operator
    FirstManager = operator
    RoleCandidates <- NoArgs
    DefaultTimeout = 1
    Timeouts <- NoArgs
    MaxTime = 0
    Assets <- OnePerp
    Batches <- OpenOne
    AssetCaps <- NoArgs
    CapChoices <- NoCaps
    MaxSent = 1
    MaxCoreAmount = 100
    MaxQueue = 2
    PnlMoves <- Flat
    MarginLevels <- Flat
    PerpRange <- PerpValues
    Vault = vault
    VirtualShares = 2
    BPS = 10
    YEAR = 2
    PriceScale = 12
    MaxFees <- MaxFeeRates
    DefaultFees <- NoFees
    ProtocolFee = 0
    Treasury = NoOne
    ProtocolGovernor = NoOne
    Endowment = 2
    AssetAmounts <- OneAmount
    ShareAmounts <- OneCount
    BridgeAmounts <- AnyBridge
    Donations <- NoArgs
    FeeChoices <- NoArgs
    ProtocolFees <- NoArgs
    FeeAddresses <- NoArgs
    DepositCaps <- NoArgs
    BufferNum = 0
    BufferDen = 1
    ToleranceNum = 99
    ToleranceDen = 100
    Modes <- Execute
    MaxRetries = 1
    ManualAmounts <- One
INVARIANTS
    KeeperTypeOK
    HealthyMeansCovered
    LoneTickNeverOverdraws
PROPERTIES
    KeeperServes
ACTION_CONSTRAINT FewDisturbances
