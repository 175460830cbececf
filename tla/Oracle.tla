------------------------------- MODULE Oracle -------------------------------
(***************************************************************************)
(* Price reads of the lending controller (oracle.rs): staleness, the       *)
(* RLUSD circuit breaker, and the fail-fast read of all three prices.      *)
(*                                                                         *)
(* All three series live in one DIA Oracle object of the ledger, so a feed *)
(* is one vector of prices with one last_update_time.  A price is already  *)
(* WAD-scaled; 0 stands for every entry the contract cannot use: a missing *)
(* series (OracleAssetNotFound) and one that raw_to_wad rejects            *)
(* (OraclePriceZero, MathOverflow).                                        *)
(***************************************************************************)
EXTENDS WadMath

CONSTANTS
    MAX_ORACLE_STALENESS,   \* 86400 seconds in the source
    RLUSD_CB_LOW_BPS,       \* 9500 in the source
    RLUSD_CB_HIGH_BPS       \* 10500 in the source

ASSUME OracleAssumption ==
    /\ MAX_ORACLE_STALENESS \in Nat
    /\ RLUSD_CB_LOW_BPS \in Nat /\ RLUSD_CB_HIGH_BPS \in Nat
    /\ RLUSD_CB_LOW_BPS <= BPS /\ BPS <= RLUSD_CB_HIGH_BPS

ASSET_XRP == 0
ASSET_RLUSD == 1
ASSET_WBTC == 2
Markets == {ASSET_XRP, ASSET_RLUSD, ASSET_WBTC}

Feeds == [prices : [Markets -> U128], last_update_time : Nat]

RLUSD_FIXED_PRICE == WAD

\* A time stamp of the future is never stale: the age saturates at 0.
is_fresh(last_update_time, t) ==
    saturating_sub(t, last_update_time) <= MAX_ORACLE_STALENESS

rlusd_in_peg(price) ==
    /\ price >= (RLUSD_CB_LOW_BPS * WAD) \div BPS
    /\ price <= (RLUSD_CB_HIGH_BPS * WAD) \div BPS

\* The read of one asset succeeds; RLUSD also has to be within its peg.
asset_price_ok(feed, m, t) ==
    /\ feed.prices[m] # 0
    /\ is_fresh(feed.last_update_time, t)
    /\ m = ASSET_RLUSD => rlusd_in_peg(feed.prices[m])

\* Within its peg RLUSD is worth exactly one dollar, whatever the feed says.
get_asset_price(feed, m) ==
    IF m = ASSET_RLUSD THEN RLUSD_FIXED_PRICE ELSE feed.prices[m]

\* One bad asset fails every priced operation, whichever assets it touches.
all_prices_ok(feed, t) == \A m \in Markets : asset_price_ok(feed, m, t)

get_all_prices(feed) == [m \in Markets |-> get_asset_price(feed, m)]
=============================================================================
