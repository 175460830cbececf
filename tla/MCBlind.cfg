SPECIFICATION ScanSpec
CONSTANTS
    WAD = 20
    BPS = 20
    SECONDS_PER_YEAR = 1
    U128_MAX = 46000
    MAX_ORACLE_STALENESS = 1
    RLUSD_CB_LOW_BPS = 19
    RLUSD_CB_HIGH_BPS = 21
    ASSET_UNIT <- MCAssetUnit
    alice = alice
    bob = bob
    Accounts <- MCAccounts
    V1_MARKETS <- BonusMarkets
    INITIAL_WALLETS <- MCWallets
    Amounts = {4}
    PriceVectors <- MCThreePrices
    MaxTime = 3
    MaxBorrows = 7
    SDK_ORACLE_STALENESS = 0
    GasCostDrops = 1
    MinProfitUsd = 0
    SDK_HEX_KEYS = FALSE
    keeper = alice
    monitoredAccounts <- MCWatched
    MaxLostReads = 1
    MaxCalls = 1
CONSTRAINT BorrowsBounded
INVARIANT ScanMissesNothing
