---------------------------- MODULE ScannerProofs ----------------------------
(***************************************************************************)
(* What the keeper's scans promise of the contract, for every set of       *)
(* accounts, every price, every scale and every market configuration, and  *)
(* whatever the ledger applies between a scan and its call.                *)
(*                                                                         *)
(* The keeper's view of a position is the contract's at the indexes in     *)
(* storage, or one without debt; debts only grow from there, because the   *)
(* indexes do (LendingProofs).  So an estimate that held when it was made  *)
(* holds for as long as the position and the prices stay: Estimate is the  *)
(* part of a call that a step of anyone keeps.                             *)
(***************************************************************************)
EXTENDS Scanner, LendingStepProofs

(***************************************************************************)
(* The contract's invariant, for every step of the keeper and the ledger.  *)
(***************************************************************************)
Calls ==
    [borrower : Accounts, debtAsset : Markets, collateralAsset : Markets,
     maxDebtToRepay : Nat, collateralToSeize : Nat, accurate : BOOLEAN]

\* The steps that leave the ledger alone, or are the contract's.
LEMMA LedgerStep ==
    ASSUME Inv, calls \subseteq Calls, [ScanNext]_scanVars
    PROVE  Inv' /\ [MarketsAdvance]_vars
<1>1. CASE UNCHANGED vars
  BY <1>1, NextStep
<1>2. ASSUME NEW call \in calls, Execute(call)
      PROVE  Inv' /\ MarketsAdvance
  <2>1. /\ keeper \in Accounts /\ call.borrower \in Accounts
        /\ call.debtAsset \in Markets /\ call.collateralAsset \in Markets
        /\ call.maxDebtToRepay \in Nat
    BY ScannerAssumption DEF Calls
  <2>2. Liquidate(keeper, call.borrower, call.debtAsset, call.collateralAsset,
                  call.maxDebtToRepay)
    BY <1>2 DEF Execute
  <2> QED BY <2>1, <2>2, LiquidateStep
<1>3. CASE Next
  BY <1>3, NextStep
<1> QED BY <1>1, <1>2, <1>3 DEF ScanNext, Scan, GiveUp, Others, scanVars

(***************************************************************************)
(* What a client reads.                                                    *)
(***************************************************************************)
LEMMA SlotsType ==
    ASSUME Inv, NEW u \in Accounts, NEW lost, NEW m \in Markets
    PROVE  LET slot == slots_read(position[u], interest, lost)[m]
           IN  /\ slot.collateral \in Nat /\ slot.debt \in Nat
               /\ slot.user_borrow_index \in Nat /\ slot.borrow_index \in Nat
<1>1. /\ position[u][m].collateral \in Nat /\ position[u][m].debt \in Nat
      /\ position[u][m].user_borrow_index \in Nat /\ interest[m].borrow_index \in Nat
  BY StateTypes DEF InterestStates, U128
<1>2. WAD \in Nat
  BY Scales
<1> QED BY <1>1, <1>2 DEF slots_read, stored_slots, MissingSlots

\* A client sees numbers, whatever it loses.
LEMMA ViewedType ==
    ASSUME Inv, NEW u \in Accounts, NEW lost, NEW m \in Markets
    PROVE  viewed(u, lost)[m].collateral \in Nat /\ viewed(u, lost)[m].debt \in Nat
<1> DEFINE slot == slots_read(position[u], interest, lost)[m]
<1>1. /\ viewed(u, lost)[m].collateral = slot.collateral
      /\ viewed(u, lost)[m].debt = client_debt(slot)
  BY DEF viewed, client_position
<1>2. /\ slot.collateral \in Nat /\ slot.debt \in Nat
      /\ slot.user_borrow_index \in Nat /\ slot.borrow_index \in Nat
  BY SlotsType
<1> HIDE DEF slot
<1>3. client_debt(slot) \in Nat
  BY <1>2, MulNat, DivBounds DEF client_debt
<1> QED BY <1>1, <1>2, <1>3

\* A stored position in the client's terms.
client_stored(u) == client_position(stored_slots(position[u], interest))

\* The client makes of the stored slots of a market what the contract makes of it,
\* with its interest up to the last accrual.
LEMMA StoredMarket ==
    ASSUME Inv, NEW u \in Accounts, NEW m \in Markets
    PROVE  /\ client_stored(u)[m].debt = debt_owed(position[u], interest, m)
           /\ client_stored(u)[m].collateral = position[u][m].collateral
<1> DEFINE slot == stored_slots(position[u], interest)[m]
           principal == position[u][m].debt
           user_index == position[u][m].user_borrow_index
           index == interest[m].borrow_index
<1>1. /\ client_stored(u)[m].collateral = slot.collateral
      /\ client_stored(u)[m].debt = client_debt(slot)
  BY DEF client_stored, client_position
<1>2. principal \in Nat /\ index \in Nat /\ user_index \in Nat \ {0}
  BY StateTypes, Scales DEF Inv, IndexesOrdered, InterestStates, U128
<1>3. debt_owed(position[u], interest, m)
          = IF principal = 0 THEN 0 ELSE (principal * index) \div user_index
  BY DEF debt_owed, debt_at, get_actual_debt
<1>4. /\ slot.collateral = position[u][m].collateral /\ slot.debt = principal
      /\ slot.user_borrow_index = user_index /\ slot.borrow_index = index
  BY DEF stored_slots, MissingSlots
<1> HIDE DEF slot, principal, user_index, index
<1>5. client_debt(slot) = (principal * index) \div user_index
  BY <1>2, <1>4 DEF client_debt
<1>6. principal = 0 => (principal * index) \div user_index = 0
  BY <1>2
<1> QED BY <1>1, <1>3, <1>4, <1>5, <1>6

\* Where the client looks elsewhere than the contract stores, it sees no debt,
\* whatever else it loses.
LEMMA NoDebtSeen ==
    ASSUME Inv, NEW u \in Accounts, NEW lost, NEW m \in Markets, ~SDK_HEX_KEYS
    PROVE  viewed(u, lost)[m].debt = 0
<1> DEFINE slot == slots_read(position[u], interest, lost)[m]
<1>1. viewed(u, lost)[m].debt = client_debt(slot)
  BY DEF viewed, client_position
<1>2. slot.debt = 0 /\ slot.user_borrow_index = WAD
  BY DEF slots_read, found, MissingSlots
<1>3. slot.borrow_index \in Nat
  BY SlotsType
<1> HIDE DEF slot
<1> QED BY <1>1, <1>2, <1>3, Scales DEF client_debt

\* A scan that loses no read sees each market of a position as it is stored when it
\* looks where that is, and otherwise no debt.
LEMMA ViewedMarket ==
    ASSUME Inv, NEW u \in Accounts, NEW m \in Markets
    PROVE  /\ viewed(u, {})[m].debt <= debt_owed(position[u], interest, m)
           /\ SDK_HEX_KEYS =>
                 /\ viewed(u, {})[m].debt = debt_owed(position[u], interest, m)
                 /\ viewed(u, {})[m].collateral = position[u][m].collateral
           /\ ~SDK_HEX_KEYS => viewed(u, {})[m].debt = 0
<1>1. client_stored(u)[m].debt \in Nat
  <2>1. /\ position[u] \in [Markets -> Positions] /\ interest \in [Markets -> InterestStates]
        /\ WAD <= position[u][m].user_borrow_index
    BY DEF Inv, TypeOK, IndexesOrdered
  <2> QED BY <2>1, StoredMarket, OwedType
<1>2. CASE SDK_HEX_KEYS
  <2>1. slots_read(position[u], interest, {})[m] = stored_slots(position[u], interest)[m]
    BY <1>2 DEF slots_read, stored_slots, found
  <2>2. viewed(u, {})[m] = client_stored(u)[m]
    BY <2>1 DEF viewed, client_stored, client_position
  <2> QED BY <1>1, <1>2, <2>2, StoredMarket
<1>3. CASE ~SDK_HEX_KEYS
  BY <1>1, <1>3, StoredMarket, NoDebtSeen
<1> QED BY <1>2, <1>3

(***************************************************************************)
(* Totals over the markets.                                                *)
(***************************************************************************)

\* A debt grows with the index of its market.
LEMMA OwedMono ==
    ASSUME NEW pos \in [Markets -> Positions], NEW m \in Markets,
           WAD <= pos[m].user_borrow_index,
           NEW before \in [Markets -> InterestStates], NEW after \in [Markets -> InterestStates],
           before[m].borrow_index <= after[m].borrow_index
    PROVE  debt_owed(pos, before, m) <= debt_owed(pos, after, m)
<1> DEFINE principal == pos[m].debt
           user_index == pos[m].user_borrow_index
           old == before[m].borrow_index
           new == after[m].borrow_index
<1>1. /\ principal \in Nat /\ user_index \in Nat \ {0}
      /\ old \in Nat /\ new \in Nat /\ old <= new
  BY Scales DEF Positions, InterestStates, U128
<1>2. /\ debt_owed(pos, before, m) = get_actual_debt(principal, user_index, old)
      /\ debt_owed(pos, after, m) = get_actual_debt(principal, user_index, new)
  BY DEF debt_owed, debt_at
<1> HIDE DEF principal, user_index, old, new
<1> QED BY <1>1, <1>2, DebtMono

\* Totals of positions that agree in every market are the same.
LEMMA WeightedAgree ==
    ASSUME NEW prices, NEW weight, NEW a, NEW b,
           \A m \in Markets : a[m].collateral = b[m].collateral
    PROVE  weighted_collateral(a, prices, weight) = weighted_collateral(b, prices, weight)
<1>1. ASSET_XRP \in Markets /\ ASSET_RLUSD \in Markets /\ ASSET_WBTC \in Markets
  BY DEF Markets
<1> QED BY <1>1 DEF weighted_collateral, OverMarkets

LEMMA TotalsAgree ==
    ASSUME NEW prices, NEW weight, NEW a, NEW b,
           \A m \in Markets : a[m].debt = b[m].debt /\ a[m].collateral = b[m].collateral
    PROVE  /\ total_debt_usd(a, prices) = total_debt_usd(b, prices)
           /\ weighted_collateral(a, prices, weight) = weighted_collateral(b, prices, weight)
<1>1. ASSET_XRP \in Markets /\ ASSET_RLUSD \in Markets /\ ASSET_WBTC \in Markets
  BY DEF Markets
<1>2. total_debt_usd(a, prices) = total_debt_usd(b, prices)
  BY <1>1 DEF total_debt_usd, OverMarkets
<1> QED BY <1>2, WeightedAgree

(***************************************************************************)
(* The two health factors: what the contract's makes liquidatable, the     *)
(* client's does, although the contract rounds in more ways.               *)
(***************************************************************************)
LEMMA InvSeesInsolvency ==
    ASSUME Inv
    PROVE  ClientSeesInsolvency
<1> DEFINE prices == get_all_prices(feed)
           actual(u) == actual_position(position[u], interest)
           weight == thresholds(V1_MARKETS)
<1> SUFFICES ASSUME NEW u \in Accounts,
                    actual_position_ok(position[u], interest),
                    health_factor_ok(actual(u), prices, V1_MARKETS),
                    is_liquidatable(calculate_health_factor(actual(u), prices, V1_MARKETS))
             PROVE  is_liquidatable(client_health_factor(client_stored(u), prices, V1_MARKETS))
  BY DEF ClientSeesInsolvency, client_stored
<1>1. prices \in [Markets -> Nat] /\ weight \in [Markets -> Nat]
  BY ControllerAssumption, PricesType DEF thresholds, MarketConfigs
<1>2. position[u] \in [Markets -> Positions]
  BY <1>1 DEF Inv, TypeOK
<1>3. \A m \in Markets :
         /\ client_stored(u)[m].debt = actual(u)[m].debt
         /\ client_stored(u)[m].collateral = actual(u)[m].collateral
         /\ actual(u)[m].debt \in Nat /\ actual(u)[m].collateral \in Nat
  <2>1. interest \in [Markets -> InterestStates]
    BY DEF Inv, TypeOK
  <2> QED BY <1>2, <2>1, ActualPositionType, StoredMarket, StateTypes
<1>4. ~(total_debt_usd(actual(u), prices)
            <= weighted_collateral(actual(u), prices, weight))
  BY <1>1, <1>3, LiquidatableInsolvent
<1>5. /\ total_debt_usd(actual(u), prices) \in Nat
      /\ weighted_collateral(actual(u), prices, weight) \in Nat
  BY <1>1, <1>3, TotalDebtType, WeightedType
<1>6. /\ total_debt_usd(client_stored(u), prices) = total_debt_usd(actual(u), prices)
      /\ weighted_collateral(client_stored(u), prices, weight)
            = weighted_collateral(actual(u), prices, weight)
  BY <1>3, TotalsAgree
<1> DEFINE debt == total_debt_usd(actual(u), prices)
           weighted == weighted_collateral(actual(u), prices, weight)
<1>7. client_health_factor(client_stored(u), prices, V1_MARKETS)
          = IF debt = 0 THEN 1000 * WAD ELSE (weighted * WAD) \div debt
  BY <1>6 DEF client_health_factor
<1> HIDE DEF debt, weighted
<1>8. weighted < debt /\ debt # 0
  BY <1>4, <1>5 DEF debt, weighted
<1>9. (weighted * WAD) \div debt < WAD
  BY <1>5, <1>8, BelowWater DEF debt, weighted
<1> QED BY <1>7, <1>8, <1>9 DEF is_liquidatable

(***************************************************************************)
(* The estimate of a call: at the current indexes and prices the position  *)
(* owes more than its collateral covers, what is repaid is a part of the   *)
(* debt and at most the close factor of all debts, and what is seized is   *)
(* what the client makes of that.                                          *)
(***************************************************************************)
Underwater(u, states) ==
    LET actual == actual_position(position[u], states)
        prices == get_all_prices(feed)
    IN  weighted_collateral(actual, prices, thresholds(V1_MARKETS))
            < total_debt_usd(actual, prices)

CloseFactorOf(usd) == (usd * CLOSE_FACTOR_BPS) \div BPS

Estimate(call) ==
    LET d      == call.debtAsset
        repaid == call.maxDebtToRepay
        prices == get_all_prices(feed)
        pos    == position[call.borrower]
    IN  /\ Underwater(call.borrower, interest)
        /\ repaid <= debt_owed(pos, interest, d)
        /\ repaid * price_per_native(prices, d)
              <= CloseFactorOf(total_debt_usd(actual_position(pos, interest), prices))
        /\ call.collateralToSeize
              = base_collateral(repaid, prices, d, call.collateralAsset)
                + bonus_collateral(repaid, prices, d, call.collateralAsset,
                                   V1_MARKETS[call.collateralAsset].liquidation_bonus)

Plans ==
    /\ calls \subseteq Calls
    /\ \A call \in calls : call.accurate => Estimate(call)

LEMMA CloseFactorMono ==
    ASSUME NEW a \in Nat, NEW b \in Nat, a <= b
    PROVE  /\ CloseFactorOf(a) \in Nat /\ CloseFactorOf(b) \in Nat
           /\ CloseFactorOf(a) <= CloseFactorOf(b)
<1>1. CLOSE_FACTOR_BPS \in Nat
  BY Scales, DivBounds DEF CLOSE_FACTOR_BPS
<1>2. /\ a * CLOSE_FACTOR_BPS \in Nat /\ b * CLOSE_FACTOR_BPS \in Nat
      /\ a * CLOSE_FACTOR_BPS <= b * CLOSE_FACTOR_BPS
  BY <1>1, MulNat, MulMono
<1> QED BY <1>2, Scales, DivBounds, DivMono DEF CloseFactorOf

\* There is a largest of three values, and a first of the largest.
LEMMA LargestMarket ==
    ASSUME NEW usd \in [Markets -> Nat]
    PROVE  largest(usd) \in Markets
<1> DEFINE first(m) == \A n \in Markets : usd[n] < usd[m] \/ (usd[n] = usd[m] /\ m <= n)
<1>1. \E m \in Markets : first(m)
  BY DEF Markets, ASSET_XRP, ASSET_RLUSD, ASSET_WBTC
<1>2. largest(usd) = CHOOSE m \in Markets : first(m)
  BY DEF largest
<1> HIDE DEF first
<1> QED BY <1>1, <1>2

LEMMA UnitsType ==
    ASSUME NEW prices \in [Markets -> Nat], NEW m \in Markets, NEW usd \in Nat
    PROVE  /\ units_for(usd, prices, m) \in Nat
           /\ units_for(usd, prices, m) * price_per_native(prices, m) <= usd
<1> DEFINE price == price_per_native(prices, m)
<1>1. price \in Nat
  BY UsdValueType
<1>2. units_for(usd, prices, m) = IF price = 0 THEN 0 ELSE usd \div price
  BY DEF units_for
<1> HIDE DEF price
<1>3. CASE price = 0
  BY <1>2, <1>3 DEF price
<1>4. CASE price # 0
  <2>1. usd \div price \in Nat /\ (usd \div price) * price <= usd
    BY <1>1, <1>4, DivBounds, DivTimes
  <2> QED BY <1>2, <1>4, <2>1 DEF price
<1> QED BY <1>3, <1>4

LEMMA EstimateType ==
    ASSUME NEW prices \in [Markets -> Nat], NEW d \in Markets, NEW c \in Markets,
           NEW repaid \in Nat, NEW bonus \in Nat
    PROVE  /\ base_collateral(repaid, prices, d, c) \in Nat
           /\ bonus_collateral(repaid, prices, d, c, bonus) \in Nat
<1>1. base_collateral(repaid, prices, d, c) \in Nat
  BY UsdValueType, UnitsType DEF base_collateral
<1>2. (base_collateral(repaid, prices, d, c) * bonus) \div BPS \in Nat
  BY <1>1, MulNat, DivBounds, Scales
<1> QED BY <1>1, <1>2 DEF bonus_collateral

\* A position the client finds under water owes more than its collateral covers.
LEMMA ViewedUnderwater ==
    ASSUME Inv, NEW u \in Accounts,
           is_liquidatable(client_health_factor(viewed(u, {}), get_all_prices(feed), V1_MARKETS))
    PROVE  Underwater(u, interest)
<1> DEFINE prices == get_all_prices(feed)
           actual == actual_position(position[u], interest)
           pos == viewed(u, {})
           weight == thresholds(V1_MARKETS)
           weighted == weighted_collateral(pos, prices, weight)
           debt == total_debt_usd(pos, prices)
<1>1. prices \in [Markets -> Nat] /\ weight \in [Markets -> Nat]
  BY ControllerAssumption, PricesType DEF thresholds, MarketConfigs
<1>2. \A m \in Markets : pos[m].debt \in Nat /\ pos[m].collateral \in Nat
  BY ViewedType
<1>3. client_health_factor(pos, prices, V1_MARKETS)
          = IF debt = 0 THEN 1000 * WAD ELSE (weighted * WAD) \div debt
  BY DEF client_health_factor
<1>4. debt \in Nat /\ weighted \in Nat
  BY <1>1, <1>2, TotalDebtType, WeightedType
<1>5. debt # 0 /\ weighted < debt
  <2> HIDE DEF debt, weighted, pos
  <2>1. debt # 0
    BY <1>3, Scales DEF is_liquidatable, pos
  <2>2. (weighted * WAD) \div debt < WAD
    BY <1>3, <2>1 DEF is_liquidatable, pos
  <2>3. ASSUME debt <= weighted
        PROVE  (weighted * WAD) \div debt >= WAD
    <3>1. WAD * debt <= weighted * WAD /\ weighted * WAD \in Nat /\ WAD \in Nat
      BY <1>4, <2>3, Scales, MulMono, MulNat
    <3> QED BY <1>4, <2>1, <3>1, DivAtLeast
  <2>4. (weighted * WAD) \div debt \in Nat /\ WAD \in Nat
    BY <1>4, <2>1, Scales, MulNat, DivBounds
  <2> QED BY <1>4, <2>1, <2>2, <2>3, <2>4
<1>6. SDK_HEX_KEYS
  <2>1. ASSUME \A m \in Markets : pos[m].debt = 0
        PROVE  debt = 0
    BY <1>1, <2>1, UsdValueType
    DEF total_debt_usd, OverMarkets, asset_usd_value, Markets,
        ASSET_XRP, ASSET_RLUSD, ASSET_WBTC
  <2> QED BY <1>5, <2>1, ViewedMarket
<1>7. position[u] \in [Markets -> Positions]
  BY DEF Inv, TypeOK
<1>8. \A m \in Markets : pos[m].debt = actual[m].debt /\ pos[m].collateral = actual[m].collateral
  BY <1>6, <1>7, ActualFields, ViewedMarket
<1>9. /\ debt = total_debt_usd(actual, prices)
      /\ weighted = weighted_collateral(actual, prices, weight)
  BY <1>8, TotalsAgree
<1> QED BY <1>5, <1>9 DEF Underwater

\* And goes on to, as the indexes grow.
LEMMA UnderwaterKept ==
    ASSUME Inv, NEW u \in Accounts, NEW states \in [Markets -> InterestStates],
           \A m \in Markets : interest[m].borrow_index <= states[m].borrow_index,
           Underwater(u, interest)
    PROVE  Underwater(u, states)
<1> DEFINE prices == get_all_prices(feed)
           before == actual_position(position[u], interest)
           after == actual_position(position[u], states)
           weight == thresholds(V1_MARKETS)
<1>1. prices \in [Markets -> Nat] /\ weight \in [Markets -> Nat]
  BY ControllerAssumption, PricesType DEF thresholds, MarketConfigs
<1>2. /\ position[u] \in [Markets -> Positions]
      /\ interest \in [Markets -> InterestStates]
      /\ \A m \in Markets : WAD <= position[u][m].user_borrow_index
  BY DEF Inv, TypeOK, IndexesOrdered
<1>3. \A m \in Markets :
         /\ before[m].debt = debt_owed(position[u], interest, m)
         /\ after[m].debt = debt_owed(position[u], states, m)
         /\ before[m].debt \in Nat /\ after[m].debt \in Nat
         /\ before[m].debt <= after[m].debt
  BY <1>2, ActualFields, OwedType, OwedMono
<1>4. \A m \in Markets : /\ before[m].collateral = position[u][m].collateral
                         /\ after[m].collateral = position[u][m].collateral
                         /\ position[u][m].collateral \in Nat
  BY <1>2, ActualFields DEF Positions, U128
<1> HIDE DEF before, after
<1>5. /\ total_debt_usd(before, prices) \in Nat /\ total_debt_usd(after, prices) \in Nat
      /\ total_debt_usd(before, prices) <= total_debt_usd(after, prices)
  BY <1>1, <1>3, TotalMono, TotalDebtType
<1>6. weighted_collateral(before, prices, weight) = weighted_collateral(after, prices, weight)
  <2>1. \A m \in Markets : before[m].collateral = after[m].collateral
    BY <1>4
  <2> QED BY <2>1, WeightedAgree
<1>7. weighted_collateral(after, prices, weight) \in Nat
  BY <1>1, <1>4, WeightedType
<1> QED BY <1>5, <1>6, <1>7 DEF Underwater, before, after

\* What a scan puts under way.
LEMMA ScanPlans ==
    ASSUME Inv, NEW u \in Accounts, NEW lost,
           NEW prices, prices = get_all_prices(feed),
           NEW opp, opp = opportunity(u, viewed(u, lost), prices, V1_MARKETS),
           is_liquidatable(client_health_factor(viewed(u, lost), prices, V1_MARKETS))
    PROVE  /\ Call(opp, lost = {}) \in Calls
           /\ Call(opp, lost = {}).accurate => Estimate(Call(opp, lost = {}))
<1> DEFINE pos == viewed(u, lost)
           debts == [m \in Markets |-> asset_usd_value(pos[m].debt, prices, m)]
           collaterals == [m \in Markets |-> asset_usd_value(pos[m].collateral, prices, m)]
           d == largest(debts)
           c == largest(collaterals)
           price == price_per_native(prices, d)
           total == total_debt_usd(pos, prices)
           units == units_for(CloseFactorOf(total), prices, d)
           repaid == client_repayment(pos, prices, d)
           base == base_collateral(repaid, prices, d, c)
           bonus == bonus_collateral(repaid, prices, d, c, V1_MARKETS[c].liquidation_bonus)
           none == (lost = {})
           call == Call(opp, none)
<1>1. /\ opp.borrower = u /\ opp.debtAsset = d /\ opp.collateralAsset = c
      /\ opp.maxDebtToRepay = repaid /\ opp.collateralToSeize = base + bonus
  BY DEF opportunity
<1>2. call = [borrower |-> u, debtAsset |-> d, collateralAsset |-> c,
              maxDebtToRepay |-> repaid, collateralToSeize |-> base + bonus,
              accurate |-> none]
  BY <1>1 DEF Call
<1>3. prices \in [Markets -> Nat] /\ \A m \in Markets : V1_MARKETS[m].liquidation_bonus \in Nat
  BY PricesType, ControllerAssumption DEF MarketConfigs
<1>4. \A m \in Markets : pos[m].debt \in Nat /\ pos[m].collateral \in Nat
  BY ViewedType
<1>5. debts \in [Markets -> Nat] /\ collaterals \in [Markets -> Nat]
  BY <1>3, <1>4, UsdValueType
<1>6. d \in Markets /\ c \in Markets
  BY <1>5, LargestMarket
<1>7. lost = {} => \A m \in Markets : pos[m].debt <= debt_owed(position[u], interest, m)
  BY ViewedMarket
<1>8. repaid = Min2(units, pos[d].debt)
  BY DEF client_repayment, CloseFactorOf
<1> HIDE DEF pos, debts, collaterals, d, c, repaid
<1>9. price \in Nat /\ total \in Nat
  BY <1>3, <1>4, <1>6, UsdValueType, TotalDebtType
<1>10. units \in Nat /\ units * price <= CloseFactorOf(total) /\ CloseFactorOf(total) \in Nat
  BY <1>3, <1>6, <1>9, UnitsType, CloseFactorMono
<1>11. repaid \in Nat /\ repaid <= units /\ repaid <= pos[d].debt
  BY <1>4, <1>6, <1>8, <1>10 DEF Min2
<1>12. base \in Nat /\ bonus \in Nat
  BY <1>3, <1>6, <1>11, EstimateType
<1>13. repaid * price <= CloseFactorOf(total)
  <2>1. repaid * price <= units * price /\ repaid * price \in Nat /\ units * price \in Nat
    BY <1>9, <1>10, <1>11, MulMono, MulNat
  <2> QED BY <1>10, <2>1
<1>14. call \in Calls
  <2>1. none \in BOOLEAN
    OBVIOUS
  <2>2. base + bonus \in Nat
    BY <1>12
  <2> HIDE DEF none, call, base, bonus
  <2> QED BY <1>2, <1>6, <1>11, <2>1, <2>2 DEF Calls
<1>15. ASSUME lost = {}
       PROVE  Estimate(call)
  <2> DEFINE actual == actual_position(position[u], interest)
  <2>1. position[u] \in [Markets -> Positions] /\ interest \in [Markets -> InterestStates]
        /\ \A m \in Markets : WAD <= position[u][m].user_borrow_index
    BY DEF Inv, TypeOK, IndexesOrdered
  <2>2. \A m \in Markets : /\ actual[m].debt = debt_owed(position[u], interest, m)
                           /\ actual[m].debt \in Nat
    BY <2>1, ActualFields, OwedType
  <2> HIDE DEF actual
  <2>3. \A m \in Markets : pos[m].debt <= actual[m].debt
    BY <1>7, <1>15, <2>2
  <2>4. total <= total_debt_usd(actual, prices) /\ total_debt_usd(actual, prices) \in Nat
    BY <1>3, <1>4, <2>2, <2>3, TotalMono, TotalDebtType
  <2>5. /\ CloseFactorOf(total) <= CloseFactorOf(total_debt_usd(actual, prices))
        /\ CloseFactorOf(total_debt_usd(actual, prices)) \in Nat
    BY <1>9, <2>4, CloseFactorMono
  <2>6. repaid * price <= CloseFactorOf(total_debt_usd(actual, prices))
    BY <1>9, <1>10, <1>11, <1>13, <2>5, MulNat
  <2>9. Underwater(u, interest)
    BY <1>15, ViewedUnderwater
  <2>7. repaid <= debt_owed(position[u], interest, d)
    BY <1>4, <1>6, <1>11, <2>2, <2>3
  <2>8. /\ call.borrower = u /\ call.debtAsset = d /\ call.collateralAsset = c
        /\ call.maxDebtToRepay = repaid /\ call.collateralToSeize = base + bonus
    BY <1>2
  <2> HIDE DEF call
  <2> QED BY <2>6, <2>7, <2>8, <2>9 DEF Estimate, actual
<1>16. call.accurate = none
  BY <1>2
<1> HIDE DEF call
<1> QED BY <1>14, <1>15, <1>16 DEF call

\* An estimate holds on, in any ledger with the same position and prices.
LEMMA EstimateKept ==
    ASSUME Inv, Inv', NEW call \in Calls, Estimate(call),
           position'[call.borrower] = position[call.borrower],
           feed'.prices = feed.prices,
           [MarketsAdvance]_vars
    PROVE  Estimate(call)'
<1> DEFINE u == call.borrower
           d == call.debtAsset
           price == price_per_native(get_all_prices(feed), d)
           repaid == call.maxDebtToRepay
           before == actual_position(position[u], interest)
           after == actual_position(position[u], interest')
           prices == get_all_prices(feed)
<1>1. u \in Accounts /\ d \in Markets /\ repaid \in Nat
  BY DEF Calls
<1>2. get_all_prices(feed') = prices /\ prices \in [Markets -> Nat]
  BY PricesType DEF get_all_prices, get_asset_price
<1>3. \A m \in Markets : interest[m].borrow_index <= interest'[m].borrow_index
  <2>1. CASE UNCHANGED vars
    BY <2>1 DEF vars, Inv, TypeOK, InterestStates, U128
  <2>2. CASE MarketsAdvance
    BY <2>2 DEF MarketsAdvance
  <2> QED BY <2>1, <2>2
<1>4. /\ position[u] \in [Markets -> Positions]
      /\ interest \in [Markets -> InterestStates] /\ interest' \in [Markets -> InterestStates]
      /\ \A m \in Markets : WAD <= position[u][m].user_borrow_index
  BY <1>1 DEF Inv, TypeOK, IndexesOrdered
<1>5. \A m \in Markets :
         /\ before[m].debt = debt_owed(position[u], interest, m)
         /\ after[m].debt = debt_owed(position[u], interest', m)
         /\ before[m].debt \in Nat /\ after[m].debt \in Nat
  BY <1>4, ActualFields, OwedType
<1>6. \A m \in Markets : debt_owed(position[u], interest, m)
                             <= debt_owed(position[u], interest', m)
  BY <1>3, <1>4, OwedMono
<1>13. Underwater(u, interest')
  BY <1>1, <1>3, <1>4, UnderwaterKept DEF Estimate
<1> HIDE DEF before, after
<1>7. /\ total_debt_usd(before, prices) \in Nat /\ total_debt_usd(after, prices) \in Nat
      /\ total_debt_usd(before, prices) <= total_debt_usd(after, prices)
  BY <1>2, <1>5, <1>6, TotalMono, TotalDebtType
<1>8. /\ CloseFactorOf(total_debt_usd(before, prices)) \in Nat
      /\ CloseFactorOf(total_debt_usd(after, prices)) \in Nat
      /\ CloseFactorOf(total_debt_usd(before, prices))
            <= CloseFactorOf(total_debt_usd(after, prices))
  BY <1>7, CloseFactorMono
<1>9. price \in Nat /\ repaid * price \in Nat
  BY <1>1, <1>2, UsdValueType, MulNat
<1>10. /\ repaid <= debt_owed(position[u], interest, d)
       /\ repaid * price <= CloseFactorOf(total_debt_usd(before, prices))
       /\ call.collateralToSeize
             = base_collateral(repaid, prices, d, call.collateralAsset)
               + bonus_collateral(repaid, prices, d, call.collateralAsset,
                                  V1_MARKETS[call.collateralAsset].liquidation_bonus)
  BY DEF Estimate, before
<1>11. /\ repaid <= debt_owed(position[u], interest', d)
       /\ repaid * price <= CloseFactorOf(total_debt_usd(after, prices))
  BY <1>1, <1>5, <1>6, <1>8, <1>9, <1>10
<1>12. debt_owed(position'[u], interest', d) = debt_owed(position[u], interest', d)
       /\ actual_position(position'[u], interest') = after
  BY DEF after
<1>14. Underwater(u, interest)'
  BY <1>2, <1>12, <1>13 DEF Underwater, after
<1> QED BY <1>2, <1>10, <1>11, <1>12, <1>14 DEF Estimate

\* A call is accurate for as long as the position and the prices stay.
LEMMA SeenPlans ==
    ASSUME Inv, Inv', [MarketsAdvance]_vars, NEW those \in SUBSET Calls,
           \A call \in those : call.accurate => Estimate(call),
           calls' = SeenAgain(those)
    PROVE  Plans'
<1>1. ASSUME NEW after \in calls'
      PROVE  after \in Calls /\ (after.accurate => Estimate(after)')
  <2>1. PICK call \in those :
            after = [call EXCEPT !.accurate = @ /\ position'[call.borrower] = position[call.borrower]
                                               /\ feed'.prices = feed.prices]
    BY DEF SeenAgain
  <2> DEFINE still == call.accurate /\ position'[call.borrower] = position[call.borrower]
                                   /\ feed'.prices = feed.prices
  <2>2. still \in BOOLEAN /\ call \in Calls
    BY DEF Calls
  <2>3. after = [call EXCEPT !.accurate = still]
    BY <2>1
  <2> HIDE DEF still
  <2>4. after \in Calls /\ after.accurate = still
    BY <2>2, <2>3 DEF Calls
  <2>5. /\ after.borrower = call.borrower /\ after.debtAsset = call.debtAsset
        /\ after.collateralAsset = call.collateralAsset
        /\ after.maxDebtToRepay = call.maxDebtToRepay
        /\ after.collateralToSeize = call.collateralToSeize
    BY <2>2, <2>3 DEF Calls
  <2>6. still => Estimate(call)'
    BY EstimateKept DEF still
  <2>7. Estimate(after)' <=> Estimate(call)'
    BY <2>5 DEF Estimate
  <2> QED BY <2>4, <2>6, <2>7
<1> QED BY <1>1 DEF Plans

\* Nothing moves under the calls.
LEMMA KeptPlans ==
    ASSUME Inv, Inv', UNCHANGED vars, calls' \subseteq Calls,
           \A call \in calls' : call.accurate => Estimate(call)
    PROVE  Plans'
<1>1. /\ \A u : position'[u] = position[u]
      /\ feed'.prices = feed.prices
      /\ [MarketsAdvance]_vars
  BY DEF vars
<1>2. ASSUME NEW call \in calls', call.accurate
      PROVE  Estimate(call)'
  BY <1>1, <1>2, EstimateKept
<1> QED BY <1>2 DEF Plans

LEMMA PlansStep ==
    ASSUME Inv, Plans, [ScanNext]_scanVars
    PROVE  Inv' /\ Plans'
<1>1. Inv' /\ [MarketsAdvance]_vars
  BY LedgerStep DEF Plans
<1>2. calls \in SUBSET Calls /\ \A call \in calls : call.accurate => Estimate(call)
  BY DEF Plans
<1>3. CASE Scan
  <2> DEFINE prices == get_all_prices(feed)
  <2>1. PICK u \in monitoredAccounts, lost \in SUBSET Slots :
            /\ is_liquidatable(client_health_factor(viewed(u, lost), prices, V1_MARKETS))
            /\ calls' = calls \cup {Call(opportunity(u, viewed(u, lost), prices, V1_MARKETS),
                                        lost = {})}
    BY <1>3 DEF Scan
  <2> DEFINE call == Call(opportunity(u, viewed(u, lost), prices, V1_MARKETS), lost = {})
  <2>2. call \in Calls /\ (call.accurate => Estimate(call))
    BY <2>1, ScannerAssumption, ScanPlans
  <2>3. UNCHANGED vars
    BY <1>3 DEF Scan
  <2> HIDE DEF call
  <2>4. calls' = calls \cup {call}
    BY <2>1 DEF call
  <2> QED BY <1>1, <1>2, <2>2, <2>3, <2>4, KeptPlans
<1>4. ASSUME NEW call \in calls, Execute(call)
      PROVE  Plans'
  <2>1. calls' = SeenAgain(calls \ {call})
    BY <1>4 DEF Execute
  <2> QED BY <1>1, <1>2, <2>1, SeenPlans
<1>5. ASSUME NEW call \in calls, GiveUp(call)
      PROVE  Plans'
  BY <1>1, <1>2, <1>5, KeptPlans DEF GiveUp
<1>6. CASE Others
  BY <1>1, <1>2, <1>6, SeenPlans DEF Others
<1>7. CASE UNCHANGED scanVars
  BY <1>1, <1>2, <1>7, KeptPlans DEF scanVars
<1> QED BY <1>1, <1>3, <1>4, <1>5, <1>6, <1>7 DEF ScanNext

LEMMA ScanInductive == ScanSpec => [](Inv /\ Plans)
<1>1. ScanInit => Inv /\ Plans
  BY InitInv DEF ScanInit, Plans
<1>2. Inv /\ Plans /\ [ScanNext]_scanVars => (Inv /\ Plans)'
  BY PlansStep
<1> QED BY <1>1, <1>2, PTL DEF ScanSpec

(***************************************************************************)
(* Whom the contract finds under water at the indexes in storage, the      *)
(* client's formulas find under water on the same slots, in every branch   *)
(* of wad_ratio and at every rounding (health.ts): it is never the         *)
(* formulas that a scan misses somebody for.                               *)
(***************************************************************************)
THEOREM ClientSeesInsolvencyCorrect == ScanSpec => []ClientSeesInsolvency
<1>1. Inv /\ Plans => ClientSeesInsolvency
  BY InvSeesInsolvency
<1> QED BY ScanInductive, <1>1, PTL

\* No call is under way, and no monitored account would be found, whatever is lost.
NobodyFound ==
    /\ calls = {}
    /\ \A u \in monitoredAccounts, lost \in SUBSET Slots :
          ~is_liquidatable(client_health_factor(viewed(u, lost), get_all_prices(feed), V1_MARKETS))

LEMMA NobodySeen ==
    ASSUME ~SDK_HEX_KEYS, Inv, NEW u \in monitoredAccounts, NEW lost
    PROVE  ~is_liquidatable(client_health_factor(viewed(u, lost), get_all_prices(feed), V1_MARKETS))
<1> DEFINE pos == viewed(u, lost)
           prices == get_all_prices(feed)
<1>1. u \in Accounts /\ prices \in [Markets -> Nat]
  BY ScannerAssumption, PricesType
<1>2. \A m \in Markets : pos[m].debt = 0
  BY <1>1, NoDebtSeen
<1> HIDE DEF pos, prices
<1>3. total_debt_usd(pos, prices) = 0
  BY <1>1, <1>2, UsdValueType
  DEF total_debt_usd, OverMarkets, asset_usd_value, Markets, ASSET_XRP, ASSET_RLUSD, ASSET_WBTC
<1>4. client_health_factor(pos, prices, V1_MARKETS) = 1000 * WAD
  BY <1>3 DEF client_health_factor
<1> QED BY <1>4, Scales DEF is_liquidatable, pos, prices

(***************************************************************************)
(* With the keys of the source (userPositionKey, client.ts:77) the keeper  *)
(* never finds anybody and never makes a call, whoever is under water at   *)
(* the contract, whatever the accounts, prices and parameters.             *)
(***************************************************************************)
THEOREM KeeperFindsNobody ==
    ASSUME ~SDK_HEX_KEYS
    PROVE  ScanSpec => []NobodyFound
<1>1. Inv /\ calls = {} => NobodyFound
  BY NobodySeen DEF NobodyFound
<1>2. ScanInit => calls = {}
  BY DEF ScanInit
<1>3. Inv /\ calls = {} /\ [ScanNext]_scanVars => (calls = {})'
  <2> SUFFICES ASSUME Inv, calls = {}, [ScanNext]_scanVars PROVE calls' = {}
    OBVIOUS
  <2>1. CASE Scan
    <3> DEFINE prices == get_all_prices(feed)
    <3>1. PICK u \in monitoredAccounts, lost \in SUBSET Slots :
             is_liquidatable(client_health_factor(viewed(u, lost), prices, V1_MARKETS))
      BY <2>1 DEF Scan
    <3> QED BY <3>1, NobodySeen
  <2>2. CASE Others
    BY <2>2 DEF Others, SeenAgain
  <2>3. CASE UNCHANGED scanVars
    BY <2>3 DEF scanVars
  <2> QED BY <2>1, <2>2, <2>3 DEF ScanNext
<1> QED BY ScanInductive, <1>1, <1>2, <1>3, PTL DEF ScanSpec

(***************************************************************************)
(* The amounts of a liquidation whose estimate still holds.                *)
(***************************************************************************)

\* No total of debts is so large that its product with the close factor wraps
\* (2^128 / 5000, some 10^16 dollars), at the indexes a liquidation would use:
\* calculate_max_liquidation multiplies unchecked (health.rs).
CloseFactorFits ==
    \A u \in Accounts, d \in Markets, c \in Markets :
        can_accrue(d) /\ can_accrue(c) =>
        Fits(total_debt_usd(actual_position(position[u], LiquidationStates(d, c)),
                            get_all_prices(feed)) * CLOSE_FACTOR_BPS)

\* The contract rounds collateral and bonus together, and so never below the
\* client, which rounds them apart.
LEMMA RoundedTogether ==
    ASSUME NEW prices \in [Markets -> Nat], NEW d \in Markets, NEW c \in Markets,
           NEW repaid \in Nat, NEW bonus \in Nat, price_per_native(prices, c) # 0
    PROVE  base_collateral(repaid, prices, d, c) + bonus_collateral(repaid, prices, d, c, bonus)
               <= collateral_to_seize(repaid, prices, d, c, bonus)
<1> DEFINE price == price_per_native(prices, c)
           value == asset_usd_value(repaid, prices, d)
           base == value \div price
           extra == (base * bonus) \div BPS
           product == value * (BPS + bonus)
           usd == product \div BPS
<1>1. price \in Nat \ {0} /\ value \in Nat /\ BPS \in Nat \ {0}
  BY UsdValueType, Scales
<1>2. /\ base_collateral(repaid, prices, d, c) = base
      /\ bonus_collateral(repaid, prices, d, c, bonus) = extra
      /\ collateral_to_seize(repaid, prices, d, c, bonus) = usd \div price
  BY DEF base_collateral, bonus_collateral, units_for, collateral_to_seize, seize_usd
<1> HIDE DEF price, value
<1>3. base \in Nat /\ base * price <= value /\ base * price \in Nat
  BY <1>1, DivBounds, DivTimes, MulNat
<1> HIDE DEF base
<1>4. extra \in Nat /\ extra * BPS <= base * bonus /\ base * bonus \in Nat
  BY <1>1, <1>3, DivBounds, DivTimes, MulNat
<1> HIDE DEF extra
<1>5. ((base + extra) * price) * BPS <= product
  <2>1. (extra * BPS) * price <= (base * bonus) * price
    BY <1>1, <1>4, MulNat, MulMono
  <2>2. (base * price) * (BPS + bonus) <= product
    BY <1>1, <1>3, MulMono
  <2>3. ((base + extra) * price) * BPS = (base * price) * BPS + (extra * BPS) * price
    BY <1>1, <1>3, <1>4
  <2>4. (base * price) * (BPS + bonus) = (base * price) * BPS + (base * bonus) * price
    BY <1>1, <1>3
  <2>5. /\ (extra * BPS) * price \in Nat /\ (base * bonus) * price \in Nat
        /\ (base * price) * BPS \in Nat /\ product \in Nat
    BY <1>1, <1>3, <1>4, MulNat
  <2> HIDE DEF product
  <2> QED BY <2>1, <2>2, <2>3, <2>4, <2>5
<1>6. product \in Nat /\ (base + extra) * price \in Nat
  BY <1>1, <1>3, <1>4, MulNat
<1> HIDE DEF product
<1>7. usd \in Nat /\ usd >= (base + extra) * price
  BY <1>1, <1>5, <1>6, DivBounds, DivAtLeast
<1> HIDE DEF usd
<1>8. usd \div price >= base + extra /\ usd \div price \in Nat
  BY <1>1, <1>3, <1>4, <1>7, DivAtLeast, DivBounds
<1> QED BY <1>2, <1>3, <1>4, <1>8

\* What a liquidation takes, when neither the close factor nor the debt caps it.
LEMMA RepaidInFull ==
    ASSUME NEW prices \in [Markets -> Nat], NEW actual, NEW d \in Markets,
           \A m \in Markets : actual[m].debt \in Nat,
           NEW amount \in Nat, amount <= actual[d].debt,
           price_per_native(prices, d) # 0,
           Fits(total_debt_usd(actual, prices) * CLOSE_FACTOR_BPS),
           amount * price_per_native(prices, d)
               <= CloseFactorOf(total_debt_usd(actual, prices))
    PROVE  liquidation_repaid(actual, prices, d, amount) = amount
<1> DEFINE price == price_per_native(prices, d)
           total == total_debt_usd(actual, prices)
           product == total * CLOSE_FACTOR_BPS
           half == calculate_max_liquidation(total)
           owed_usd == actual[d].debt * price
           value == amount * price
<1>1. price \in Nat \ {0} /\ total \in Nat
  BY UsdValueType, TotalDebtType
<1>2. product \in Nat /\ product <= U128_MAX
  BY <1>1, Scales, DivBounds, MulNat DEF CLOSE_FACTOR_BPS, Fits
<1>3. half = (product % (U128_MAX + 1)) \div BPS /\ CloseFactorOf(total) = product \div BPS
  BY DEF calculate_max_liquidation, CloseFactorOf
<1>4. liquidation_repaid(actual, prices, d, amount)
          = Min2(Min2(value, half), owed_usd) \div price
  BY DEF liquidation_repaid, asset_usd_value
<1> HIDE DEF price, total, product, half
<1>5. product % (U128_MAX + 1) = product
  BY <1>2, Scales
<1>6. half = product \div BPS /\ half \in Nat
  BY <1>2, <1>3, <1>5, Scales, DivBounds
<1>7. value \in Nat /\ owed_usd \in Nat /\ value <= owed_usd /\ value <= half
  BY <1>1, <1>3, <1>6, MulNat, MulMono DEF price, total
<1> HIDE DEF value, owed_usd
<1>8. Min2(Min2(value, half), owed_usd) = value
  BY <1>7 DEF Min2
<1>9. value \div price = amount
  <2>1. value \div price <= amount /\ value \div price >= amount /\ value \div price \in Nat
    BY <1>1, <1>7, DivAtMost, DivAtLeast, DivBounds DEF value
  <2> QED BY <2>1
<1> QED BY <1>4, <1>8, <1>9

LEMMA PaysOff ==
    ASSUME Inv, CloseFactorFits, NEW call \in Calls, Estimate(call),
           Liquidate(keeper, call.borrower, call.debtAsset, call.collateralAsset,
                     call.maxDebtToRepay)
    PROVE  /\ cash'[call.debtAsset] - cash[call.debtAsset] = call.maxDebtToRepay
           /\ held[call.collateralAsset] - held'[call.collateralAsset]
                 >= call.collateralToSeize
<1> DEFINE u == call.borrower
           d == call.debtAsset
           c == call.collateralAsset
           amount == call.maxDebtToRepay
           states == LiquidationStates(d, c)
           actual == actual_position(position[u], states)
           stored == actual_position(position[u], interest)
           prices == get_all_prices(feed)
           repaid == liquidation_repaid(actual, prices, d, amount)
           bonus == V1_MARKETS[c].liquidation_bonus
           seized == collateral_to_seize(repaid, prices, d, c, bonus)
           remaining == saturating_sub(actual[d].debt, repaid)
<1>1. u \in Accounts /\ d \in Markets /\ c \in Markets /\ amount \in Nat
  BY DEF Calls
<1>2. /\ d # c /\ can_accrue(d) /\ can_accrue(c)
      /\ price_per_native(prices, d) # 0
      /\ price_per_native(prices, c) # 0
      /\ Seize(keeper, u, d, c, amount, states, repaid, seized, remaining)
  BY DEF Liquidate, LiquidateAt, liquidate_ok, LiquidationStates, liquidation_amounts_ok
<1>3. /\ states \in [Markets -> InterestStates]
      /\ \A m \in Markets : states[m].borrow_index >= interest[m].borrow_index
  BY <1>1, <1>2, LiquidationStatesAdvance DEF Advanced
<1>4. /\ prices \in [Markets -> Nat] /\ bonus \in Nat
      /\ position[u] \in [Markets -> Positions]
      /\ interest \in [Markets -> InterestStates]
      /\ \A m \in Markets : WAD <= position[u][m].user_borrow_index
  BY <1>1, PricesType, ControllerAssumption DEF MarketConfigs, Inv, TypeOK, IndexesOrdered
<1>5. Fits(total_debt_usd(actual, prices) * CLOSE_FACTOR_BPS)
  BY <1>1, <1>2 DEF CloseFactorFits
<1>6. /\ amount <= debt_owed(position[u], interest, d)
      /\ amount * price_per_native(prices, d)
            <= CloseFactorOf(total_debt_usd(stored, prices))
      /\ call.collateralToSeize
            = base_collateral(amount, prices, d, c)
              + bonus_collateral(amount, prices, d, c, bonus)
  BY DEF Estimate
<1> HIDE DEF states, bonus
<1>7. \A m \in Markets : /\ actual[m].debt = debt_owed(position[u], states, m)
                         /\ stored[m].debt = debt_owed(position[u], interest, m)
                         /\ actual[m].debt \in Nat /\ stored[m].debt \in Nat
  BY <1>3, <1>4, ActualFields, OwedType
<1>8. \A m \in Markets : stored[m].debt <= actual[m].debt
  BY <1>3, <1>4, <1>7, OwedMono
<1> HIDE DEF actual, stored, prices
<1>9. /\ total_debt_usd(stored, prices) \in Nat /\ total_debt_usd(actual, prices) \in Nat
      /\ total_debt_usd(stored, prices) <= total_debt_usd(actual, prices)
  BY <1>4, <1>7, <1>8, TotalMono, TotalDebtType
<1>10. /\ CloseFactorOf(total_debt_usd(stored, prices)) \in Nat
       /\ CloseFactorOf(total_debt_usd(actual, prices)) \in Nat
       /\ CloseFactorOf(total_debt_usd(stored, prices))
             <= CloseFactorOf(total_debt_usd(actual, prices))
  BY <1>9, CloseFactorMono
<1>11. /\ amount <= actual[d].debt
       /\ amount * price_per_native(prices, d)
             <= CloseFactorOf(total_debt_usd(actual, prices))
  <2>1. amount <= actual[d].debt
    BY <1>1, <1>6, <1>7, <1>8
  <2>2. amount * price_per_native(prices, d) \in Nat
    BY <1>1, <1>4, UsdValueType, MulNat
  <2> QED BY <1>6, <1>10, <2>1, <2>2
<1>12. repaid = amount
  BY <1>1, <1>2, <1>4, <1>5, <1>7, <1>11, RepaidInFull
<1>13. seized >= call.collateralToSeize /\ seized \in Nat
  BY <1>1, <1>2, <1>4, <1>6, <1>12, RoundedTogether, SeizedType
<1>14. /\ held' = [held EXCEPT ![d] = @ + (amount - repaid), ![c] = @ - seized]
       /\ cash' = [cash EXCEPT ![d] = @ + repaid]
  BY <1>2 DEF Seize
<1>15. held \in [Markets -> Nat] /\ cash \in [Markets -> Nat]
  BY DEF Inv, TypeOK
<1> HIDE DEF repaid, seized
<1>16. cash'[d] = cash[d] + amount
  BY <1>1, <1>12, <1>14, <1>15
<1>17. held'[c] = held[c] - seized
  BY <1>1, <1>2, <1>14, <1>15
<1>18. /\ cash[d] \in Nat /\ held[c] \in Nat /\ call.collateralToSeize \in Nat
  BY <1>1, <1>15 DEF Calls
<1> QED BY <1>1, <1>13, <1>16, <1>17, <1>18

(***************************************************************************)
(* A liquidation of a position that has not moved since it was read, at    *)
(* the same prices, takes all that is attached to it and seizes at least   *)
(* the collateral of the estimate (calculate_liquidation_amounts,          *)
(* health.rs), whatever was called and however much interest accrued in    *)
(* between.                                                                *)
(***************************************************************************)
THEOREM PlansPayOffCorrect ==
    ScanSpec /\ []CloseFactorFits => PlansPayOff
<1>1. ASSUME Inv, Plans, CloseFactorFits, NEW call \in calls,
             call.accurate, Execute(call)
      PROVE  /\ cash'[call.debtAsset] - cash[call.debtAsset] = call.maxDebtToRepay
             /\ held[call.collateralAsset] - held'[call.collateralAsset]
                   >= call.collateralToSeize
  BY <1>1, PaysOff DEF Plans, Execute
<1>2. Inv /\ Plans /\ CloseFactorFits /\ [ScanNext]_scanVars =>
        [\A call \in calls : call.accurate /\ Execute(call) =>
              /\ cash'[call.debtAsset] - cash[call.debtAsset] = call.maxDebtToRepay
              /\ held[call.collateralAsset] - held'[call.collateralAsset]
                    >= call.collateralToSeize]_scanVars
  BY <1>1
<1> QED BY ScanInductive, <1>2, PTL DEF ScanSpec, PlansPayOff

(***************************************************************************)
(* The contract's verdict on a position that has not moved.  The second    *)
(* branch of wad_ratio divides remainder and denominator by the same scale *)
(* and may round a position that just misses 1.0 up to it.                 *)
(***************************************************************************)

\* ClearAt, at the indexes a liquidation would use.
Clearly ==
    \A u \in Accounts, d \in Markets, c \in Markets :
        can_accrue(d) /\ can_accrue(c) => ClearAt(u, LiquidationStates(d, c))

LEMMA StaysUnderWater ==
    ASSUME Inv, Clearly, NEW call \in Calls, Estimate(call)
    PROVE  LiquidatableNow(call.borrower, call.debtAsset, call.collateralAsset)
<1> DEFINE u == call.borrower
           d == call.debtAsset
           c == call.collateralAsset
           states == LiquidationStates(d, c)
           actual == actual_position(position[u], states)
           prices == get_all_prices(feed)
           weighted == weighted_collateral(actual, prices, thresholds(V1_MARKETS))
           debt == total_debt_usd(actual, prices)
<1> SUFFICES ASSUME can_accrue(d), can_accrue(c)
             PROVE  is_liquidatable(calculate_health_factor(actual, prices, V1_MARKETS))
  BY DEF LiquidatableNow, LiquidationStates
<1>1. u \in Accounts /\ d \in Markets /\ c \in Markets
  BY DEF Calls
<1>2. /\ states \in [Markets -> InterestStates]
      /\ \A m \in Markets : states[m].borrow_index >= interest[m].borrow_index
  BY <1>1, LiquidationStatesAdvance DEF Advanced
<1>3. \A m \in Markets : interest[m].borrow_index <= states[m].borrow_index
  <2>1. interest \in [Markets -> InterestStates]
    BY DEF Inv, TypeOK
  <2> HIDE DEF states
  <2> QED BY <1>2, <2>1 DEF InterestStates, U128
<1>4. weighted < debt
  <2> HIDE DEF states
  <2> QED BY <1>1, <1>2, <1>3, UnderwaterKept DEF Estimate, Underwater
<1>5. Fits(weighted * WAD) \/ weighted + ratio_scale(weighted) <= debt
  BY <1>1, <1>4 DEF Clearly, ClearAt
<1>6. debt \in Nat /\ weighted \in Nat
  <2>1. /\ position[u] \in [Markets -> Positions]
        /\ \A m \in Markets : WAD <= position[u][m].user_borrow_index
    BY <1>1 DEF Inv, TypeOK, IndexesOrdered
  <2> HIDE DEF states
  <2>2. \A m \in Markets : /\ actual[m].debt = debt_owed(position[u], states, m)
                           /\ actual[m].collateral = position[u][m].collateral
                           /\ debt_owed(position[u], states, m) \in Nat
    BY <1>2, <2>1, ActualFields, OwedType
  <2>4. \A m \in Markets : position[u][m].collateral \in Nat
    BY <1>1, StateTypes
  <2>3. prices \in [Markets -> Nat] /\ thresholds(V1_MARKETS) \in [Markets -> Nat]
    BY ControllerAssumption, PricesType DEF thresholds, MarketConfigs
  <2> HIDE DEF actual, prices
  <2> QED BY <2>2, <2>3, <2>4, TotalDebtType, WeightedType
<1>7. calculate_health_factor(actual, prices, V1_MARKETS)
          = IF debt = 0 THEN U128_MAX ELSE wad_ratio(weighted, debt)
  BY DEF calculate_health_factor
<1> HIDE DEF weighted, debt
<1>8. wad_ratio(weighted, debt) < WAD
  BY <1>4, <1>5, <1>6, RatioBelowOne
<1> QED BY <1>4, <1>6, <1>7, <1>8 DEF is_liquidatable

(***************************************************************************)
(* A position the client finds under water the contract finds under water  *)
(* (handle_liquidate), at any later time and after any calls of anyone     *)
(* that leave the position and the prices alone, unless it is so close to  *)
(* 1.0 that wad_ratio cannot tell it from there.                           *)
(***************************************************************************)
THEOREM PlansStayUnderWaterCorrect ==
    ScanSpec /\ []Clearly => []PlansStayUnderWater
<1>1. Inv /\ Plans /\ Clearly => PlansStayUnderWater
  BY StaysUnderWater DEF Plans, PlansStayUnderWater
<1> QED BY ScanInductive, <1>1, PTL

=============================================================================
