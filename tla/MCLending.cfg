SPECIFICATION Spec
CONSTANTS
    WAD = 20
    BPS = 20
    SECONDS_PER_YEAR = 1
    U128_MAX = 46000
    MAX_ORACLE_STALENESS = 1
    RLUSD_CB_LOW_BPS = 19
    RLUSD_CB_HIGH_BPS = 21
    ASSET_UNIT <- MCAssetUnit
    alice = alice
    bob = bob
    Accounts <- MCAccounts
    V1_MARKETS <- SteepMarkets
    INITIAL_WALLETS <- MCWallets
    Amounts = {4}
    PriceVectors <- MCPrices
    MaxTime = 3
    MaxBorrows = 7
CONSTRAINT BorrowsBounded
INVARIANTS
    TypeOK
    CashBacked
    CollateralBacked
    IndexesOrdered
    SupplyNeverOutgrowsBorrow
    NeverFrozen
    ExitsStayOpen
PROPERTIES
    IndexesMonotone
    CashLeavesSafely
    CollateralLeavesSafely
    LiquidationBounded
    SurplusOnlyFromLiquidation
    NeverOvercharged
    DebtsBooked
