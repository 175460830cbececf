------------------------------ MODULE ClientView ------------------------------
(***************************************************************************)
(* What the SDK makes of the contract's storage: a position with its debts *)
(* (positions.ts), its health (health.ts), the prices (oracle.ts) and the  *)
(* liquidation it proposes (liquidation.ts), and the keeper's profit       *)
(* filter (profitability.ts).                                              *)
(*                                                                         *)
(* The SDK computes with unbounded integers.  Where its formula is the     *)
(* contract's, the operator of Health or Oracle is used; the others have   *)
(* names of their own.  V1_MARKETS and ASSET_DECIMALS are the same in both *)
(* code bases.                                                             *)
(***************************************************************************)
EXTENDS InterestModel, Health

CONSTANTS
    SDK_ORACLE_STALENESS,   \* MAX_ORACLE_STALENESS of oracle.ts: 300 seconds
    GasCostDrops,           \* liquidationGasCostDrops
    MinProfitUsd,           \* minProfitUsd
    SDK_HEX_KEYS            \* positions are looked up under hexadecimal accounts,
                            \* where the contract stores them; FALSE in the source

ASSUME ClientViewAssumption ==
    /\ SDK_ORACLE_STALENESS \in Nat
    /\ GasCostDrops \in Nat
    /\ MinProfitUsd \in Nat
    /\ SDK_HEX_KEYS \in BOOLEAN

-----------------------------------------------------------------------------
(* Reading.                                                                *)

\* getAllPrices answers; otherwise it throws. The prices are the contract's.
client_prices_ok(feed, t) ==
    /\ saturating_sub(t, feed.last_update_time) <= SDK_ORACLE_STALENESS
    /\ \A m \in Markets : feed.prices[m] # 0
    /\ rlusd_in_peg(feed.prices[ASSET_RLUSD])

\* The slots a position is assembled from, and what a slot counts as that is
\* missing. A read that fails is answered like a slot that is missing.
MissingSlots ==
    [collateral |-> 0, debt |-> 0, user_borrow_index |-> WAD, borrow_index |-> WAD]

Slots == Markets \X DOMAIN MissingSlots

\* userPositionKey puts the bytes of the account into the key, user_position_key
\* of the contract their digits; marketInterestKey is the same in both.
found(f) == f = "borrow_index" \/ SDK_HEX_KEYS

\* The slots as the contract stores them.
stored_slots(pos, interest) ==
    [m \in Markets |->
        [f \in DOMAIN MissingSlots |->
            IF f = "borrow_index" THEN interest[m].borrow_index ELSE pos[m][f]]]

\* The slots as a client reads them, where the reads of `lost` have failed.
slots_read(pos, interest, lost) ==
    LET stored == stored_slots(pos, interest)
    IN  [m \in Markets |->
            [f \in DOMAIN MissingSlots |->
                IF <<m, f>> \in lost \/ ~found(f) THEN MissingSlots[f] ELSE stored[m][f]]]

\* Faulty variant: the debt as it is stored.
client_debt_stored(slot) == slot.debt

\* Interest up to the last accrual of each market; none is accrued up to now.
client_debt(slot) ==
    IF slot.user_borrow_index = 0 THEN 0
    ELSE (slot.debt * slot.borrow_index) \div slot.user_borrow_index

client_position(slots) ==
    [m \in Markets |-> [collateral |-> slots[m].collateral, debt |-> client_debt(slots[m])]]

-----------------------------------------------------------------------------
(* Health.                                                                 *)

\* Faulty variant: weighs collateral by the loan-to-value ratio.
client_health_factor_by_ltv(pos, prices, configs) ==
    IF total_debt_usd(pos, prices) = 0 THEN 1000 * WAD
    ELSE (weighted_collateral(pos, prices, ltvs(configs)) * WAD)
            \div total_debt_usd(pos, prices)

\* The exact ratio, rounded down, and 1000 without debt.
client_health_factor(pos, prices, configs) ==
    IF total_debt_usd(pos, prices) = 0 THEN 1000 * WAD
    ELSE (weighted_collateral(pos, prices, thresholds(configs)) * WAD)
            \div total_debt_usd(pos, prices)

-----------------------------------------------------------------------------
(* Proposing a liquidation.                                                *)

\* The market with the largest value, the first one of several, XRP if all are 0.
largest(usd) ==
    CHOOSE m \in Markets :
        \A n \in Markets : usd[n] < usd[m] \/ (usd[n] = usd[m] /\ m <= n)

\* A price that vanishes in a native unit buys nothing.
units_for(usd, prices, m) ==
    IF price_per_native(prices, m) = 0 THEN 0 ELSE usd \div price_per_native(prices, m)

\* Faulty variant: all of the debt at once.
client_repayment_all(pos, prices, d) == pos[d].debt

\* Half of the debt over all markets, in the debt asset, up to the debt in it.
client_repayment(pos, prices, d) ==
    Min2(units_for((total_debt_usd(pos, prices) * CLOSE_FACTOR_BPS) \div BPS, prices, d),
         pos[d].debt)

\* The collateral and the bonus on top are rounded down apart; the contract
\* rounds their sum.
base_collateral(repaid, prices, d, c) ==
    units_for(asset_usd_value(repaid, prices, d), prices, c)

bonus_collateral(repaid, prices, d, c, bonus_bps) ==
    (base_collateral(repaid, prices, d, c) * bonus_bps) \div BPS

\* Pairs the largest debt with the largest collateral, the same asset or not.
opportunity(borrower, pos, prices, configs) ==
    LET d      == largest([m \in Markets |-> asset_usd_value(pos[m].debt, prices, m)])
        c      == largest([m \in Markets |-> asset_usd_value(pos[m].collateral, prices, m)])
        repaid == client_repayment(pos, prices, d)
        bonus  == bonus_collateral(repaid, prices, d, c, configs[c].liquidation_bonus)
    IN  [borrower |-> borrower, debtAsset |-> d, collateralAsset |-> c,
         maxDebtToRepay |-> repaid,
         collateralToSeize |-> base_collateral(repaid, prices, d, c) + bonus,
         estimatedProfitUsd |-> asset_usd_value(bonus, prices, c)]

\* The bonus pays for the transaction and leaves the minimum profit.
profitable(opp, prices) ==
    opp.estimatedProfitUsd >= asset_usd_value(GasCostDrops, prices, ASSET_XRP) + MinProfitUsd
=============================================================================
