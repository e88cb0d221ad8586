SPECIFICATION ToolsSpec
CONSTANTS
    testnet = testnet
    mainnet = mainnet
    core = core
    xyz = xyz
    abc = abc
    sndk = sndk
    arm = arm
    anna = anna
    Unset = Unset
    MemberMultiple = 2
    LevUnit = 2
    LevMultiple = 12
    Networks <- TwoNetworks
    Core = core
    Dexes <- TwoDexes
    Coins <- TwoCoins
    DeployerOf <- MCDeployerOf
    AssetIdBase = 10
    DexBlock = 2
    Selections <- OneSelection
    Weightings <- JustEqual
    HandBaskets <- MCHandBaskets
    MaxLeverage = 3
    MaxListings = 3
    RunArgs <- MCRunArgs
    LotPrices <- OneMoves
    SlipNum = 1
    SlipDen = 4
INVARIANTS
    ToolsTypeOK
    IdsDenoteBasket
    PlanUsesCapital
    CleanExitMeansAccepted
    SpendWithinLimit
ACTION_CONSTRAINT FewCommands
