------------------------------- MODULE Health -------------------------------
(***************************************************************************)
(* Solvency checks of the lending controller (health.rs): the USD value of *)
(* a position, its health factor, its borrow capacity, and the collateral  *)
(* a liquidation seizes.  A position is a function from Markets to         *)
(* [collateral, debt] in native units, with interest already added to the  *)
(* debt; prices and configs are functions from Markets.                    *)
(***************************************************************************)
EXTENDS Oracle

CONSTANT
    ASSET_UNIT     \* 10^ASSET_DECIMALS[m], native units in one whole asset

ASSUME HealthAssumption == ASSET_UNIT \in [Markets -> Nat \ {0}]

\* The loops of the source run over exactly the three V1 markets.
OverMarkets(f) == f[ASSET_XRP] + f[ASSET_RLUSD] + f[ASSET_WBTC]

price_per_native(prices, m) == prices[m] \div ASSET_UNIT[m]

\* The price is divided first: what it loses there is lost for every unit.
asset_usd_value(amount, prices, m) == amount * price_per_native(prices, m)

\* Sum of the collateral's value in each market, weighted by `weight[m]` BPS.
weighted_collateral(pos, prices, weight) ==
    OverMarkets([m \in Markets |->
        (asset_usd_value(pos[m].collateral, prices, m) * weight[m]) \div BPS])

total_debt_usd(pos, prices) ==
    OverMarkets([m \in Markets |-> asset_usd_value(pos[m].debt, prices, m)])

\* No intermediate value of the sums above overflows.
usd_totals_ok(pos, prices, weight) ==
    /\ \A m \in Markets :
          /\ Fits(asset_usd_value(pos[m].collateral, prices, m))
          /\ Fits(asset_usd_value(pos[m].collateral, prices, m) * weight[m])
    /\ Fits(weighted_collateral(pos, prices, weight))
    /\ Fits(total_debt_usd(pos, prices))

(***************************************************************************)
(* numerator * WAD / denominator without overflowing when the product      *)
(* does: whole part and remainder apart, and the remainder scaled down     *)
(* together with the denominator when its own product overflows.           *)
(***************************************************************************)
ratio_scale(r) == r \div (U128_MAX \div WAD) + 1

ratio_fraction(r, denominator) ==
    IF Fits(r * WAD) THEN (r * WAD) \div denominator
    ELSE ((r \div ratio_scale(r)) * WAD) \div (denominator \div ratio_scale(r))

\* Some(q * WAD) as soon as the scaled denominator vanishes, with no fraction.
ratio_drops_fraction(r, denominator) ==
    ~Fits(r * WAD) /\ denominator \div ratio_scale(r) = 0

\* Faulty variant: gives up when the product overflows.
wad_ratio_ok_fast_path(numerator, denominator) == Fits(numerator * WAD)

wad_ratio_ok(numerator, denominator) ==
    LET q == numerator \div denominator
        r == numerator % denominator
    IN  ~Fits(numerator * WAD) =>
            /\ Fits(q * WAD)
            /\ ~ratio_drops_fraction(r, denominator) =>
                  Fits(q * WAD + ratio_fraction(r, denominator))

\* Faulty variant: adds the fraction of a remainder that was never scaled to WAD.
wad_ratio_unscaled(numerator, denominator) ==
    IF Fits(numerator * WAD) THEN (numerator * WAD) \div denominator
    ELSE (numerator \div denominator) + (numerator % denominator)

wad_ratio(numerator, denominator) ==
    LET q == numerator \div denominator
        r == numerator % denominator
    IN  IF Fits(numerator * WAD) THEN (numerator * WAD) \div denominator
        ELSE IF ratio_drops_fraction(r, denominator) THEN q * WAD
        ELSE q * WAD + ratio_fraction(r, denominator)

(***************************************************************************)
(* Health factor: collateral weighted by liquidation threshold over debt,  *)
(* the largest u128 without debt.  Below 1.0 the position is liquidatable. *)
(***************************************************************************)
thresholds(configs) == [m \in Markets |-> configs[m].liquidation_threshold]

ltvs(configs) == [m \in Markets |-> configs[m].ltv]

health_factor_ok(pos, prices, configs) ==
    /\ usd_totals_ok(pos, prices, thresholds(configs))
    /\ total_debt_usd(pos, prices) # 0 =>
          wad_ratio_ok(weighted_collateral(pos, prices, thresholds(configs)),
                       total_debt_usd(pos, prices))

\* Faulty variant: a plain quotient, compared with WAD all the same.
health_factor_unscaled(pos, prices, configs) ==
    IF total_debt_usd(pos, prices) = 0 THEN U128_MAX
    ELSE weighted_collateral(pos, prices, thresholds(configs))
            \div total_debt_usd(pos, prices)

calculate_health_factor(pos, prices, configs) ==
    IF total_debt_usd(pos, prices) = 0 THEN U128_MAX
    ELSE wad_ratio(weighted_collateral(pos, prices, thresholds(configs)),
                   total_debt_usd(pos, prices))

is_liquidatable(health_factor) == health_factor < WAD

\* Faulty variant: forgets what is owed already.
borrow_capacity_of_collateral(pos, prices, configs) ==
    weighted_collateral(pos, prices, ltvs(configs))

calculate_borrow_capacity(pos, prices, configs) ==
    saturating_sub(weighted_collateral(pos, prices, ltvs(configs)),
                   total_debt_usd(pos, prices))

(***************************************************************************)
(* Liquidation: at most half of the debt, valued over all markets, against *)
(* collateral of the same value plus the bonus of the collateral's market. *)
(***************************************************************************)
\* Faulty variant: no close factor.
max_liquidation_all(debt_usd) == debt_usd

\* The close factor is 50%; the product is a plain u128 multiplication.
CLOSE_FACTOR_BPS == BPS \div 2

calculate_max_liquidation(debt_usd) ==
    ((debt_usd * CLOSE_FACTOR_BPS) % (U128_MAX + 1)) \div BPS

seize_usd(repaid, prices, d, bonus_bps) ==
    (asset_usd_value(repaid, prices, d) * (BPS + bonus_bps)) \div BPS

liquidation_amounts_ok(repaid, prices, d, c, bonus_bps) ==
    /\ price_per_native(prices, c) # 0
    /\ Fits(asset_usd_value(repaid, prices, d) * (BPS + bonus_bps))

collateral_to_seize(repaid, prices, d, c, bonus_bps) ==
    seize_usd(repaid, prices, d, bonus_bps) \div price_per_native(prices, c)
=============================================================================
