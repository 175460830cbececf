SPECIFICATION EntrySpec
CONSTANTS
    WAD = 20
    BPS = 20
    SECONDS_PER_YEAR = 1
    U128_MAX = 46000
    U64_MAX = 40
    MAX_ORACLE_STALENESS = 1
    RLUSD_CB_LOW_BPS = 19
    RLUSD_CB_HIGH_BPS = 21
    ASSET_UNIT <- MCAssetUnit
    ACCOUNT_BYTES = 2
    NoParam = NoParam
    Senders <- MCSenders
    TX_ACCOUNT <- MCTxAccount
    AssetIds <- MCAssetIds
    RawAmounts <- MCRawAmounts
    DEFAULT_AMOUNT = 4
    DEFAULT_DEBT_AMOUNT = 2
    V1_MARKETS <- MCMarkets
    INITIAL_WALLETS <- MCWallets
    PriceVectors <- MCPrices
    MaxTime = 3
    MaxBorrows = 6
CONSTRAINTS
    RlusdLent
    Unprobed
INVARIANTS
    OneVault
    QueriesTrue
PROPERTIES
    BooksKept
    PayerCredited
