---------------------------- MODULE InterestModel ----------------------------
(***************************************************************************)
(* The kinked two-slope rate curve, the accrual of a market's indexes and  *)
(* the debt accounting of the lending controller (interest.rs), over the   *)
(* MarketConfig and InterestState records of state.rs.                     *)
(***************************************************************************)
EXTENDS WadMath

\* The rate and risk parameters of one market: MarketConfig::is_valid, and the
\* reserve factor of at most 100% that the V1 constants have.
MarketConfigs ==
    { c \in [ltv : Nat, liquidation_threshold : Nat, liquidation_bonus : Nat,
             reserve_factor : Nat, max_liquidation_bps : Nat,
             optimal_utilization : Nat, base_rate : Nat, slope1 : Nat, slope2 : Nat,
             borrow_enabled : BOOLEAN, collateral_enabled : BOOLEAN] :
        /\ c.ltv <= c.liquidation_threshold
        /\ c.liquidation_threshold <= BPS
        /\ c.liquidation_bonus > 0
        /\ c.reserve_factor <= BPS
        /\ c.optimal_utilization < BPS
        /\ c.max_liquidation_bps <= BPS }

InterestStates ==
    [borrow_rate_bps : Nat, supply_rate_bps : Nat,
     borrow_index : U128, supply_index : U128,
     last_update_timestamp : Nat,
     total_borrows : U128, total_supply : U128]

FreshInterest ==
    [borrow_rate_bps |-> 0, supply_rate_bps |-> 0,
     borrow_index |-> WAD, supply_index |-> WAD,
     last_update_timestamp |-> 0,
     total_borrows |-> 0, total_supply |-> 0]

(***************************************************************************)
(* Rates.                                                                  *)
(***************************************************************************)

\* Faulty variant: takes total_supply for all that was ever supplied.
utilization_of_cash(total_borrows, total_supply) ==
    IF total_supply = 0 THEN 0 ELSE (total_borrows * WAD) \div total_supply

\* borrows / (borrows + cash), WAD-scaled; 0 for an empty market.
calculate_utilization(total_borrows, total_supply) ==
    LET denominator == saturate(total_borrows + total_supply)
    IN  IF denominator = 0 THEN 0
        ELSE saturate(total_borrows * WAD) \div denominator

\* Faulty variant: the slope above the kink starts over at the base rate.
borrow_rate_restarts(utilization, config) ==
    LET optimal == (config.optimal_utilization * WAD) \div BPS
    IN  IF utilization <= optimal
        THEN config.base_rate + (utilization * config.slope1) \div (optimal + 1)
        ELSE config.base_rate
             + ((utilization - optimal) * config.slope2) \div (WAD - optimal)

borrow_rate_annual_bps(utilization, config) ==
    LET optimal == (config.optimal_utilization * WAD) \div BPS
    IN  IF utilization <= optimal
        THEN IF optimal = 0 THEN config.base_rate
             ELSE config.base_rate + (utilization * config.slope1) \div optimal
        ELSE config.base_rate + config.slope1
             + ((utilization - optimal) * config.slope2) \div (WAD - optimal)

calculate_borrow_rate(utilization, config) ==
    annual_bps_to_per_second_wad(borrow_rate_annual_bps(utilization, config))

\* Faulty variant: adds the reserve to what suppliers earn.
supply_rate_adds_reserve(borrow_rate, utilization, reserve_factor_bps) ==
    (((borrow_rate * utilization) \div WAD) * (BPS + reserve_factor_bps)) \div BPS

\* borrow_rate * utilization * (1 - reserve_factor).  `BPS - reserve_factor`
\* is a plain u128 subtraction: in the release profile the contract is built
\* with, it wraps modulo 2^128 when the argument exceeds BPS.
calculate_supply_rate(borrow_rate, utilization, reserve_factor_bps) ==
    LET rate_x_util  == saturate(borrow_rate * utilization) \div WAD
        one_minus_rf == (BPS - reserve_factor_bps) % (U128_MAX + 1)
    IN  IF utilization = 0 \/ borrow_rate = 0 THEN 0
        ELSE saturate(rate_x_util * one_minus_rf) \div BPS

supply_rate_annual_bps(borrow_rate, utilization, reserve_factor_bps) ==
    (calculate_supply_rate(borrow_rate, utilization, reserve_factor_bps)
        * BPS * SECONDS_PER_YEAR) \div WAD

(***************************************************************************)
(* Accrual since the market's last update.  The growth of the period uses  *)
(* the borrow rate stored by the previous accrual, and hands the stored    *)
(* supply rate to calculate_supply_rate as its reserve factor; the rates   *)
(* stored for the next period use the configured reserve factor.           *)
(***************************************************************************)
elapsed(state, t) == saturating_sub(t, state.last_update_timestamp)

stored_rate(state) == annual_bps_to_per_second_wad(state.borrow_rate_bps)

\* The borrows after a period in which the index grows by `compound`.
accrued_borrows(state, compound) ==
    saturate(state.total_borrows + wad_mul(state.total_borrows, compound - WAD))

period_supply_rate(state, borrows) ==
    calculate_supply_rate(stored_rate(state),
                          calculate_utilization(borrows, state.total_supply),
                          state.supply_rate_bps)

growth_ok(state, dt, compound, supply_rate) ==
    /\ compound_interest_ok(stored_rate(state), dt)
    /\ wad_mul_ok(state.borrow_index, compound)
    /\ wad_mul_ok(state.total_borrows, compound - WAD)
    /\ compound_interest_ok(supply_rate, dt)
    /\ wad_mul_ok(state.supply_index,
                  calculate_compound_interest(supply_rate, dt))

\* When update_interest_indexes returns Ok; otherwise InterestAccrualFailed.
accrual_ok(state, t) ==
    LET dt       == elapsed(state, t)
        compound == calculate_compound_interest(stored_rate(state), dt)
    IN  dt > 0 =>
            growth_ok(state, dt, compound,
                      period_supply_rate(state, accrued_borrows(state, compound)))

accrued_state(state, config, t) ==
    LET dt          == elapsed(state, t)
        compound    == calculate_compound_interest(stored_rate(state), dt)
        borrows     == accrued_borrows(state, compound)
        supply_rate == period_supply_rate(state, borrows)
        utilization == calculate_utilization(borrows, state.total_supply)
        rate_bps    == borrow_rate_annual_bps(utilization, config)
    IN  [borrow_rate_bps |-> rate_bps,
         supply_rate_bps |->
            supply_rate_annual_bps(annual_bps_to_per_second_wad(rate_bps),
                                   utilization, config.reserve_factor),
         borrow_index |-> wad_mul(state.borrow_index, compound),
         supply_index |->
            wad_mul(state.supply_index,
                    calculate_compound_interest(supply_rate, dt)),
         last_update_timestamp |-> t,
         total_borrows |-> borrows,
         total_supply |-> state.total_supply]

update_interest_indexes(state, config, t) ==
    IF elapsed(state, t) = 0 THEN state ELSE accrued_state(state, config, t)

(***************************************************************************)
(* Debt accounting.  A position stores a principal and the borrow index at *)
(* its last change; the debt owed at a later index is their proportion,    *)
(* rounded down.                                                           *)
(***************************************************************************)
actual_debt_ok(principal, user_index, current_index) ==
    principal # 0 => user_index # 0 /\ Fits(principal * current_index)

get_actual_debt(principal, user_index, current_index) ==
    IF principal = 0 THEN 0 ELSE (principal * current_index) \div user_index

scaled_debt_ok(amount, current_index) ==
    current_index # 0 /\ Fits(amount * WAD)

\* Faulty variant: scales the wrong way.
scaled_up_debt(amount, current_index) == wad_mul(amount, current_index)

to_scaled_debt(amount, current_index) == (amount * WAD) \div current_index
=============================================================================
