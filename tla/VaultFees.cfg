SPECIFICATION Spec
CONSTANTS
    alice = alice
    operator = operator
    vault = vault
    perp1 = perp1
    NoOne = NoOne
    Accounts <- Solo
    Deployer = operator
    FirstManager = operator
    RoleCandidates <- NoArgs
    DefaultTimeout = 1
    Timeouts <- NoArgs
    MaxTime = 2
    Assets <- NoArgs
    Batches <- NoBatches
    AssetCaps <- NoArgs
    CapChoices <- NoCaps
    MaxSent = 0
    MaxCoreAmount = 100
    MaxQueue = 2
    PnlMoves <- Flat
    MarginLevels <- Flat
    PerpRange <- PerpValues
    Vault = vault
    VirtualShares = 2
    BPS = 10
    YEAR = 2
    PriceScale = 12
    MaxFees <- MaxFeeRates
    DefaultFees <- AllFees
    ProtocolFee = 3
    Treasury = operator
    ProtocolGovernor = operator
    Endowment = 15
    AssetAmounts <- BigAmount
    ShareAmounts <- NoArgs
    BridgeAmounts <- NoArgs
    Donations <- Gift
    FeeChoices <- FeeSettings
    ProtocolFees <- PlatformFees
    FeeAddresses <- Solo
    DepositCaps <- NoArgs
INVARIANTS
    DilutionWithinFees
    AccrualNeverReverts
PROPERTIES
    FeesSettleOnce
    RatesNotRetroactive
    PokingCostsNothing
ACTION_CONSTRAINT SwitchesRest
