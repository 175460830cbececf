SPECIFICATION Spec
CONSTANTS
    WAD = 32
    BPS = 20
    SECONDS_PER_YEAR = 1
    U128_MAX = 6000
    MAX_ORACLE_STALENESS = 1
    RLUSD_CB_LOW_BPS = 19
    RLUSD_CB_HIGH_BPS = 21
    ASSET_UNIT <- WholeUnits
    Config <- SteepCurve
    MaxX = 320
    MaxY = 320
    WAD_RAY_RATIO = 3
    RADIX = 2
    WAD_DIGITS = 5
    POWERS = 12
CHECK_DEADLOCK FALSE
INVARIANTS
    SolventNeverLiquidatable
    RatioFailsOnlyOnOverflow
    RoundTripWithinHalfUnits
    SuppliersPaidByBorrowers
    SplittingNeverCheaper
    WadCoversRay
    PricesConvertAlike
PROPERTY RateMonotone
