SPECIFICATION Spec
CONSTANTS
    alice = alice
    operator = operator
    vault = vault
    perp1 = perp1
    NoOne = NoOne
    Accounts <- MCAccounts
    Deployer = operator
    FirstManager = operator
    RoleCandidates <- Alice
    DefaultTimeout = 1
    Timeouts <- NoArgs
    MaxTime = 2
    Assets <- OnePerp
    Batches <- OpenAndClose
    AssetCaps <- NoArgs
    CapChoices <- NoCaps
    MaxSent = 1
    MaxCoreAmount = 100
    MaxQueue = 2
    PnlMoves <- Flat
    MarginLevels <- Flat
    PerpRange <- PerpValues
    Vault = vault
    VirtualShares = 2
    BPS = 10
    YEAR = 2
    PriceScale = 12
    MaxFees <- MaxFeeRates
    DefaultFees <- NoFees
    ProtocolFee = 0
    Treasury = NoOne
    ProtocolGovernor = NoOne
    Endowment = 1
    AssetAmounts <- NoArgs
    ShareAmounts <- NoArgs
    BridgeAmounts <- One
    Donations <- One
    FeeChoices <- NoArgs
    ProtocolFees <- NoArgs
    FeeAddresses <- NoArgs
    DepositCaps <- NoArgs
PROPERTIES
    EmergencyBrake
    ManagerActsAreHeard
ACTION_CONSTRAINT PostOnlyRests
