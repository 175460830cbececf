---------------------------- MODULE V1Parameters ----------------------------
(***************************************************************************)
(* The parameters the contract is built with (state.rs): the risk and rate *)
(* parameters of the three markets, in basis points of 10 000, and where   *)
(* their prices are read.  The assumptions say what the rest of the        *)
(* project takes for granted about them.                                   *)
(***************************************************************************)
EXTENDS Naturals

SOURCE_BPS == 10000

\* Native units of XRP, RLUSD and wBTC have this many decimals.
ASSET_DECIMALS == <<6, 6, 8>>

\* A price per native unit does not vanish for an asset worth a dollar: it is
\* divided by fewer powers of ten than WAD has.
ASSUME DecimalsBelowWad == \A i \in DOMAIN ASSET_DECIMALS : ASSET_DECIMALS[i] < 18

XRP_MARKET ==
    [ltv |-> 7500, liquidation_threshold |-> 8000, liquidation_bonus |-> 500,
     reserve_factor |-> 2000, max_liquidation_bps |-> 5000,
     optimal_utilization |-> 8000, base_rate |-> 0, slope1 |-> 400,
     slope2 |-> 30000, borrow_enabled |-> TRUE, collateral_enabled |-> TRUE]

RLUSD_MARKET ==
    [ltv |-> 8000, liquidation_threshold |-> 8500, liquidation_bonus |-> 400,
     reserve_factor |-> 1000, max_liquidation_bps |-> 5000,
     optimal_utilization |-> 9000, base_rate |-> 0, slope1 |-> 400,
     slope2 |-> 6000, borrow_enabled |-> TRUE, collateral_enabled |-> TRUE]

WBTC_MARKET ==
    [ltv |-> 7300, liquidation_threshold |-> 7800, liquidation_bonus |-> 650,
     reserve_factor |-> 2000, max_liquidation_bps |-> 5000,
     optimal_utilization |-> 4500, base_rate |-> 0, slope1 |-> 700,
     slope2 |-> 30000, borrow_enabled |-> TRUE, collateral_enabled |-> TRUE]

V1_CONFIGS == {XRP_MARKET, RLUSD_MARKET, WBTC_MARKET}

is_valid(config) ==
    /\ config.ltv <= config.liquidation_threshold
    /\ config.liquidation_threshold <= SOURCE_BPS
    /\ config.liquidation_bonus > 0
    /\ config.optimal_utilization < SOURCE_BPS
    /\ config.max_liquidation_bps <= SOURCE_BPS

ASSUME ConfigsValid == \A config \in V1_CONFIGS : is_valid(config)

\* The close factor of calculate_max_liquidation, a constant of health.rs, is
\* the one the markets are configured with.
ASSUME CloseFactorConfigured ==
    \A config \in V1_CONFIGS : 2 * config.max_liquidation_bps = SOURCE_BPS

\* At the liquidation threshold, what is seized with its bonus takes less
\* weighted collateral off a position than the repayment takes off its debt.
ASSUME LiquidationHeals ==
    \A config \in V1_CONFIGS :
        config.liquidation_threshold * (SOURCE_BPS + config.liquidation_bonus)
            < SOURCE_BPS * SOURCE_BPS

\* The oracle object, how old its prices may be (seconds), and the ticker of
\* each market's entry.
DIA_ORACLE == [dia_account |-> "DIA", oracle_document_id |-> 42]

MAX_ORACLE_STALENESS_SECS == 86400

TICKERS == <<"XRP", "RLUSD", "BTC">>

XRP_ORACLE ==
    [dia_account |-> DIA_ORACLE.dia_account,
     oracle_document_id |-> DIA_ORACLE.oracle_document_id,
     max_staleness |-> MAX_ORACLE_STALENESS_SECS,
     asset_ticker |-> TICKERS[1], use_fixed_price |-> FALSE]

RLUSD_ORACLE == [XRP_ORACLE EXCEPT !.asset_ticker = TICKERS[2]]

WBTC_ORACLE == [XRP_ORACLE EXCEPT !.asset_ticker = TICKERS[3]]

V1_ORACLES == <<XRP_ORACLE, RLUSD_ORACLE, WBTC_ORACLE>>

\* All prices come from one object with one time stamp, each from an entry of
\* its own: a feed is a vector of prices and a time.
ASSUME OneOracleObject ==
    \A i, j \in DOMAIN V1_ORACLES : i # j =>
        /\ V1_ORACLES[i].dia_account = V1_ORACLES[j].dia_account
        /\ V1_ORACLES[i].oracle_document_id = V1_ORACLES[j].oracle_document_id
        /\ V1_ORACLES[i].max_staleness = V1_ORACLES[j].max_staleness
        /\ V1_ORACLES[i].asset_ticker # V1_ORACLES[j].asset_ticker

\* RLUSD counts as one dollar while its price is within the band.
RLUSD_CB_BPS == [low |-> 9500, high |-> 10500]

ASSUME PegWithinBand ==
    RLUSD_CB_BPS.low < SOURCE_BPS /\ SOURCE_BPS < RLUSD_CB_BPS.high

\* The entries that the wasm32 build answers for the oracle object, in
\* hundredths of a dollar (the source writes them with a scale of -8).
STUB_PRICES == <<215, 100, 8400000>>

\* They are prices the contract accepts: RLUSD's is within the band, and none
\* vanishes in the price per native unit.
ASSUME StubPricesAccepted ==
    /\ STUB_PRICES[2] * (SOURCE_BPS \div 100) \in RLUSD_CB_BPS.low .. RLUSD_CB_BPS.high
    /\ \A i \in DOMAIN STUB_PRICES :
          STUB_PRICES[i] > 0 /\ ASSET_DECIMALS[i] <= 18 - 2
=============================================================================
