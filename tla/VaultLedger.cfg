SPECIFICATION PrudentSpec
CONSTANTS
    alice = alice
    operator = operator
    vault = vault
    perp1 = perp1
    NoOne = NoOne
    Accounts <- MCAccounts
    Deployer = operator
    FirstManager = operator
    RoleCandidates <- NoArgs
    DefaultTimeout = 1
    Timeouts <- NoArgs
    MaxTime = 0
    Assets <- NoArgs
    Batches <- NoBatches
    AssetCaps <- NoArgs
    CapChoices <- NoCaps
    MaxSent = 0
    MaxCoreAmount = 100
    MaxQueue = 2
    PnlMoves <- Flat
    MarginLevels <- Flat
    PerpRange <- PerpValues
    Vault = vault
    VirtualShares = 2
    BPS = 10
    YEAR = 2
    PriceScale = 12
    MaxFees <- MaxFeeRates
    DefaultFees <- ExitFee
    ProtocolFee = 0
    Treasury = NoOne
    ProtocolGovernor = NoOne
    Endowment = 4
    AssetAmounts <- Amounts
    ShareAmounts <- ShareCounts
    BridgeAmounts <- NoArgs
    Donations <- OneAmount
    FeeChoices <- NoArgs
    ProtocolFees <- NoArgs
    FeeAddresses <- NoArgs
    DepositCaps <- Amounts
INVARIANTS
    TypeOK
    BooksBalance
    EscrowBacked
    CapRespected
PROPERTIES
    SharePriceNeverFalls
    PaysOnlyRedeemers
    ImplementsQueue
ACTION_CONSTRAINT SwitchesRest
