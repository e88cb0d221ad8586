SPECIFICATION BookSpec
CONSTANTS
    btc = btc
    eth = eth
    Coins <- TwoCoins
    Weight <- Even
    WeightBase = 2
    DriftNum = 1
    DriftDen = 10
    MaxRetries = 2
    Sides <- LongOnly
    LotPrices <- OneMoves
    SeedLots = 2
    MaxLots = 3
    MaxBatches = 1
INVARIANTS
    BookTypeOK
    NeverFlips
    FilledBatchHitsTarget
    ClearedMeansBalanced
PROPERTIES
    BookSettles
ACTION_CONSTRAINT FewDisturbances
