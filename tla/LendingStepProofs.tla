-------------------------- MODULE LendingStepProofs --------------------------
(***************************************************************************)
(* What the steps of the lending controller may do to a position and to a  *)
(* vault, for every set of accounts, amounts and prices, every scale and   *)
(* every market configuration.  The invariant of LendingProofs, before and *)
(* after a step, gives the types of every number below.  First single      *)
(* debts, seizures and payments, then sums over all accounts, then         *)
(* collateral that leaves a position.                                      *)
(***************************************************************************)
EXTENDS LendingProofs

(***************************************************************************)
(* Debts.                                                                  *)
(***************************************************************************)
LEMMA OwedType ==
    ASSUME NEW pos \in [Markets -> Positions],
           NEW states \in [Markets -> InterestStates],
           NEW m \in Markets, WAD <= pos[m].user_borrow_index
    PROVE  debt_owed(pos, states, m) \in Nat
<1> DEFINE principal == pos[m].debt
           user_index == pos[m].user_borrow_index
           index == states[m].borrow_index
<1>1. principal \in Nat /\ user_index \in Nat \ {0} /\ index \in Nat
  BY Scales DEF Positions, InterestStates, U128
<1>2. debt_owed(pos, states, m) = get_actual_debt(principal, user_index, index)
  BY DEF debt_owed, debt_at
<1> HIDE DEF principal, user_index, index
<1> QED BY <1>1, <1>2, DebtType

\* What an account owes before a step, at the indexes after it.
LEMMA OwedBefore ==
    ASSUME Inv, Inv', NEW u \in Accounts, NEW m \in Markets
    PROVE  debt_owed(position[u], interest', m) \in Nat
<1>1. position[u] \in [Markets -> Positions] /\ WAD <= position[u][m].user_borrow_index
  BY DEF Inv, TypeOK, IndexesOrdered
<1>2. interest' \in [Markets -> InterestStates]
  BY DEF Inv, TypeOK
<1> QED BY <1>1, <1>2, OwedType

\* Dividing by an index of at least 1.0 loses, and never adds.
LEMMA ScaledBelow ==
    ASSUME NEW debt \in Nat, NEW index \in Nat, WAD <= index
    PROVE  to_scaled_debt(debt, index) \in Nat /\ to_scaled_debt(debt, index) <= debt
<1>1. index \in Nat \ {0} /\ debt * WAD \in Nat /\ debt * WAD <= debt * index
  BY Scales, MulNat, MulMono
<1> QED BY <1>1, DivBounds, DivAtMost DEF to_scaled_debt

\* A debt stored at the index of its market is the principal that is stored.
LEMMA OwedAtIndex ==
    ASSUME NEW principal \in Nat, NEW index \in Nat, WAD <= index
    PROVE  get_actual_debt(principal, index, index) <= principal
<1>1. index \in Nat \ {0} /\ principal * index \in Nat
  BY Scales, MulNat
<1>2. (principal * index) \div index <= principal
  BY <1>1, DivAtMost
<1> QED BY <1>2 DEF get_actual_debt

\* A rewritten debt owes at most what it was rewritten from.
LEMMA RewrittenOwes ==
    ASSUME Inv', NEW u \in Accounts, NEW m \in Markets, NEW debt \in Nat,
           NEW principal,
           principal = 0 \/ principal = to_scaled_debt(debt, interest'[m].borrow_index),
           position'[u][m].debt = principal,
           position'[u][m].user_borrow_index = interest'[m].borrow_index
    PROVE  owed(u, m)' <= debt
<1> DEFINE index == interest'[m].borrow_index
<1>1. index \in Nat /\ WAD <= index
  BY DEF Inv, TypeOK, IndexesOrdered, InterestStates, U128
<1>2. owed(u, m)' = get_actual_debt(principal, index, index)
  BY DEF owed, debt_owed, debt_at
<1> HIDE DEF index
<1>3. principal \in Nat /\ principal <= debt
  BY <1>1, ScaledBelow DEF index
<1>4. get_actual_debt(principal, index, index) <= principal
  BY <1>1, <1>3, OwedAtIndex
<1>5. get_actual_debt(principal, index, index) \in Nat
  <2>1. index \in Nat \ {0} /\ principal * index \in Nat
    BY <1>1, <1>3, Scales, MulNat
  <2> QED BY <2>1, DivBounds DEF get_actual_debt
<1> QED BY <1>2, <1>3, <1>4, <1>5

\* Moving collateral charges nothing.
LEMMA SameDebt ==
    ASSUME Inv, Inv', NEW u \in Accounts, NEW m \in Markets,
           position'[u][m].debt = position[u][m].debt,
           position'[u][m].user_borrow_index = position[u][m].user_borrow_index,
           cash'[m] = cash[m]
    PROVE  ChargedFairly(u, m)
<1>1. owed(u, m)' = debt_owed(position[u], interest', m)
  BY DEF owed, debt_owed, debt_at
<1>2. debt_owed(position[u], interest', m) \in Nat /\ cash[m] \in Nat
  BY OwedBefore, StateTypes
<1> QED BY <1>1, <1>2 DEF ChargedFairly

(***************************************************************************)
(* What the handlers that rewrite a debt leave behind, read off the state  *)
(* after them.                                                             *)
(***************************************************************************)
LEMMA BorrowFacts ==
    ASSUME Inv, NEW u \in Accounts, NEW m \in Markets, NEW amount \in Amounts,
           Borrow(u, m, amount)
    PROVE  LET index == interest'[m].borrow_index
           IN  /\ amount \in Nat /\ amount > 0
               /\ cash' = [cash EXCEPT ![m] = @ - amount]
               /\ wallet' = [wallet EXCEPT ![u][m] = @ + amount]
               /\ position' = [position EXCEPT ![u][m] = with_debt(@,
                      to_scaled_debt(debt_owed(position[u], interest', m) + amount,
                                     index), index)]
               /\ \A k \in Markets \ {m} : interest'[k] = interest[k]
               /\ can_accrue(m) /\ interest'[m] = book_borrow(accrued(m), amount)
               /\ UNCHANGED <<now, feed, shares, held>>
<1> DEFINE state == accrued(m)
           states == [interest EXCEPT ![m] = state]
<1>1. interest \in [Markets -> InterestStates]
  BY DEF Inv, TypeOK
<1>2. BorrowAt(u, m, amount, states) /\ can_accrue(m)
  BY DEF Borrow, BorrowAt, borrow_ok
<1>3. states[m] = state /\ state \in InterestStates
  BY <1>1, <1>2, AccruedMarket DEF Advanced
<1> HIDE DEF state
<1>4. interest' = [states EXCEPT ![m] = book_borrow(state, amount)]
  BY <1>2, <1>3 DEF BorrowAt
<1>5. interest'[m] = book_borrow(state, amount)
  BY <1>1, <1>4
<1>6. interest'[m].borrow_index = state.borrow_index
  BY <1>3, <1>5 DEF book_borrow, InterestStates
<1>7. debt_owed(position[u], interest', m) = debt_at(position[u][m], state.borrow_index)
  BY <1>6 DEF debt_owed
<1>8. \A k \in Markets \ {m} : interest'[k] = interest[k]
  BY <1>1, <1>4
<1> QED BY <1>2, <1>3, <1>5, <1>6, <1>7, <1>8, ControllerAssumption
        DEF BorrowAt, borrow_ok, borrowed, state

LEMMA RepayFacts ==
    ASSUME Inv, NEW u \in Accounts, NEW m \in Markets, NEW amount \in Amounts,
           Repay(u, m, amount)
    PROVE  LET index == interest'[m].borrow_index
               actual == debt_owed(position[u], interest', m)
               repaid == repayment(amount, actual)
           IN  /\ amount \in Nat
               /\ cash' = [cash EXCEPT ![m] = @ + repaid]
               /\ wallet' = [wallet EXCEPT ![u][m] = @ - repaid]
               /\ position' = [position EXCEPT ![u][m] =
                      with_debt(@, remaining_debt(actual - repaid, index), index)]
               /\ \A k \in Markets \ {m} : interest'[k] = interest[k]
               /\ can_accrue(m) /\ interest'[m] = book_repay(accrued(m), repaid)
               /\ UNCHANGED <<now, feed, shares, held>>
<1> DEFINE state == accrued(m)
           taken == repayment(amount, debt_at(position[u][m], state.borrow_index))
<1>1. interest \in [Markets -> InterestStates]
  BY DEF Inv, TypeOK
<1>2. RepayAt(u, m, amount, state) /\ can_accrue(m)
  BY DEF Repay, RepayAt, repay_ok
<1>3. state \in InterestStates
  BY <1>2, AccruedMarket DEF Advanced
<1> HIDE DEF state
<1>4. interest'[m] = book_repay(state, taken)
  BY <1>1, <1>2 DEF RepayAt
<1>5. interest'[m].borrow_index = state.borrow_index
  BY <1>3, <1>4 DEF book_repay, InterestStates
<1>6. debt_owed(position[u], interest', m) = debt_at(position[u][m], state.borrow_index)
  BY <1>5 DEF debt_owed
<1>7. \A k \in Markets \ {m} : interest'[k] = interest[k]
  BY <1>1, <1>2 DEF RepayAt
<1> QED BY <1>2, <1>4, <1>5, <1>6, <1>7, ControllerAssumption
        DEF RepayAt, repaid_down, state

(***************************************************************************)
(* No handler charges more than was owed.                                  *)
(***************************************************************************)
LEMMA BorrowCharges ==
    ASSUME Inv, Inv', NEW u \in Accounts, NEW m \in Markets,
           NEW amount \in Amounts, Borrow(u, m, amount),
           NEW v \in Accounts, NEW k \in Markets
    PROVE  ChargedFairly(v, k)
<1> DEFINE index == interest'[m].borrow_index
           debt == debt_owed(position[u], interest', m) + amount
<1>1. /\ amount \in Nat /\ cash' = [cash EXCEPT ![m] = @ - amount]
      /\ position' = [position EXCEPT ![u][m] =
                          with_debt(@, to_scaled_debt(debt, index), index)]
  BY BorrowFacts
<1>2. cash \in [Markets -> Nat] /\ position \in [Accounts -> [Markets -> Positions]]
  BY DEF Inv, TypeOK
<1>3. debt \in Nat
  BY <1>1, OwedBefore
<1> HIDE DEF debt, index
<1>4. CASE v = u /\ k = m
  <2>1. /\ position'[u][m].debt = to_scaled_debt(debt, index)
        /\ position'[u][m].user_borrow_index = index
    BY <1>1, <1>2 DEF with_debt, Positions
  <2>2. owed(u, m)' <= debt
    BY <1>3, <2>1, RewrittenOwes DEF index
  <2>3. cash[m] - cash'[m] = amount
    BY <1>1, <1>2
  <2> QED BY <1>4, <2>2, <2>3 DEF ChargedFairly, debt
<1>5. CASE ~(v = u /\ k = m)
  <2>1. position'[v][k] = position[v][k]
    BY <1>1, <1>2, <1>5
  <2> QED BY <2>1 DEF ChargedFairly
<1> QED BY <1>4, <1>5

\* What remains of a debt, cleared or scaled.
LEMMA RemainingOwes ==
    ASSUME Inv', NEW u \in Accounts, NEW m \in Markets, NEW debt \in Nat,
           position'[u][m].debt = remaining_debt(debt, interest'[m].borrow_index),
           position'[u][m].user_borrow_index = interest'[m].borrow_index
    PROVE  owed(u, m)' <= debt
  BY RewrittenOwes DEF remaining_debt

LEMMA RepayCharges ==
    ASSUME Inv, Inv', NEW u \in Accounts, NEW m \in Markets,
           NEW amount \in Amounts, Repay(u, m, amount),
           NEW v \in Accounts, NEW k \in Markets
    PROVE  ChargedFairly(v, k)
<1> DEFINE index == interest'[m].borrow_index
           actual == debt_owed(position[u], interest', m)
           repaid == repayment(amount, actual)
<1>1. /\ amount \in Nat /\ cash' = [cash EXCEPT ![m] = @ + repaid]
      /\ position' = [position EXCEPT ![u][m] =
                          with_debt(@, remaining_debt(actual - repaid, index), index)]
  BY RepayFacts
<1>2. cash \in [Markets -> Nat] /\ position \in [Accounts -> [Markets -> Positions]]
  BY DEF Inv, TypeOK
<1>3. actual \in Nat
  BY OwedBefore
<1> HIDE DEF actual, index
<1>4. repaid \in Nat /\ actual - repaid \in Nat
  BY <1>1, <1>3 DEF repayment, Min2
<1> HIDE DEF repaid
<1>5. CASE v = u /\ k = m
  <2>1. /\ position'[u][m].debt = remaining_debt(actual - repaid, index)
        /\ position'[u][m].user_borrow_index = index
    BY <1>1, <1>2 DEF with_debt, Positions
  <2>2. owed(u, m)' <= actual - repaid
    BY <1>4, <2>1, RemainingOwes DEF index
  <2>3. cash[m] - cash'[m] = 0 - repaid
    BY <1>1, <1>2, <1>4
  <2>4. actual + (0 - repaid) = actual - repaid
    BY <1>3, <1>4
  <2> QED BY <1>5, <2>2, <2>3, <2>4 DEF ChargedFairly, actual
<1>6. CASE ~(v = u /\ k = m)
  <2>1. position'[v][k] = position[v][k]
    BY <1>1, <1>2, <1>6
  <2> QED BY <2>1 DEF ChargedFairly
<1> QED BY <1>5, <1>6

(***************************************************************************)
(* The amounts of a liquidation.                                           *)
(***************************************************************************)
LEMMA CloseFactor ==
    ASSUME NEW debt_usd \in Nat
    PROVE  /\ calculate_max_liquidation(debt_usd) \in Nat
           /\ 2 * calculate_max_liquidation(debt_usd) <= debt_usd
<1> DEFINE product == debt_usd * CLOSE_FACTOR_BPS
           wrapped == product % (U128_MAX + 1)
           half == wrapped \div BPS
<1>1. CLOSE_FACTOR_BPS \in Nat /\ 2 * CLOSE_FACTOR_BPS <= BPS
  <2>1. BPS \div 2 \in Nat /\ (BPS \div 2) * 2 <= BPS
    BY Scales, DivBounds, DivTimes
  <2> QED BY <2>1 DEF CLOSE_FACTOR_BPS
<1>2. product \in Nat /\ 2 * product <= debt_usd * BPS
  <2>1. debt_usd * CLOSE_FACTOR_BPS \in Nat /\ debt_usd * (2 * CLOSE_FACTOR_BPS) <= debt_usd * BPS
    BY <1>1, MulNat, MulMono, Scales
  <2>2. debt_usd * (2 * CLOSE_FACTOR_BPS) = 2 * (debt_usd * CLOSE_FACTOR_BPS)
    BY <1>1
  <2> QED BY <2>1, <2>2
<1>3. calculate_max_liquidation(debt_usd) = half
  BY DEF calculate_max_liquidation
<1> HIDE DEF product
<1>4. wrapped \in Nat /\ wrapped <= product
  BY <1>2, Scales, ModBelow, ModAtMost
<1> HIDE DEF wrapped
<1>5. half \in Nat /\ half * BPS <= wrapped
  BY <1>4, Scales, DivBounds, DivTimes
<1> HIDE DEF half
<1>6. (2 * half) * BPS <= debt_usd * BPS
  <2>1. half * BPS \in Nat /\ (2 * half) * BPS = 2 * (half * BPS) /\ debt_usd * BPS \in Nat
    BY <1>5, Scales, MulNat
  <2> QED BY <1>2, <1>4, <1>5, <2>1
<1>7. 2 * half <= debt_usd
  BY <1>5, <1>6, MulStrict, MulNat, Scales
<1> QED BY <1>3, <1>5, <1>7

\* A position below a health factor of 1.0 owes more than its collateral covers.
LEMMA LiquidatableInsolvent ==
    ASSUME NEW prices \in [Markets -> Nat], NEW actual,
           \A m \in Markets : actual[m].debt \in Nat /\ actual[m].collateral \in Nat,
           health_factor_ok(actual, prices, V1_MARKETS),
           is_liquidatable(calculate_health_factor(actual, prices, V1_MARKETS))
    PROVE  ~(total_debt_usd(actual, prices)
                 <= weighted_collateral(actual, prices, thresholds(V1_MARKETS)))
<1> DEFINE debt == total_debt_usd(actual, prices)
           weighted == weighted_collateral(actual, prices, thresholds(V1_MARKETS))
<1>1. thresholds(V1_MARKETS) \in [Markets -> Nat]
  BY ControllerAssumption DEF thresholds, MarketConfigs
<1>2. debt \in Nat /\ weighted \in Nat
  BY <1>1, TotalDebtType, WeightedType
<1>3. debt # 0 => wad_ratio_ok(weighted, debt) /\ wad_ratio(weighted, debt) < WAD
  BY DEF health_factor_ok, is_liquidatable, calculate_health_factor
<1>4. debt # 0
  BY Scales DEF is_liquidatable, calculate_health_factor
<1> HIDE DEF debt, weighted
<1>5. ASSUME debt <= weighted
      PROVE  FALSE
  <2>1. wad_ratio(weighted, debt) >= WAD /\ wad_ratio(weighted, debt) \in Nat
    BY <1>2, <1>3, <1>4, <1>5, RatioAtLeastOne, RatioType
  <2> QED BY <1>3, <1>4, <2>1, Scales
<1> QED BY <1>5 DEF debt, weighted

\* What is repaid is owed, and worth at most half of all that is owed.
LEMMA RepaidOwed ==
    ASSUME NEW prices \in [Markets -> Nat], NEW actual, NEW d \in Markets,
           \A m \in Markets : actual[m].debt \in Nat,
           NEW amount \in Nat, price_per_native(prices, d) # 0
    PROVE  LET repaid == liquidation_repaid(actual, prices, d, amount)
           IN  /\ repaid \in Nat /\ repaid <= actual[d].debt
               /\ 2 * asset_usd_value(repaid, prices, d) <= total_debt_usd(actual, prices)
<1> DEFINE price == price_per_native(prices, d)
           value == asset_usd_value(amount, prices, d)
           total == total_debt_usd(actual, prices)
           half == calculate_max_liquidation(total)
           debt == actual[d].debt
           owed_usd == asset_usd_value(debt, prices, d)
           cap == Min2(Min2(value, half), owed_usd)
           repaid == cap \div price
<1>1. price \in Nat \ {0} /\ value \in Nat /\ owed_usd \in Nat /\ debt \in Nat
  BY UsdValueType
<1>2. total \in Nat
  BY TotalDebtType
<1>3. owed_usd = debt * price
  BY DEF asset_usd_value
<1>4. asset_usd_value(repaid, prices, d) = repaid * price
  BY DEF asset_usd_value
<1>5. liquidation_repaid(actual, prices, d, amount) = repaid
  BY DEF liquidation_repaid
<1> HIDE DEF price, value, owed_usd, total, debt
<1>6. half \in Nat /\ 2 * half <= total
  BY <1>2, CloseFactor
<1> HIDE DEF half
<1>7. cap \in Nat /\ cap <= half /\ cap <= debt * price
  BY <1>1, <1>3, <1>6 DEF Min2
<1> HIDE DEF cap
<1>8. repaid \in Nat /\ repaid <= debt /\ repaid * price <= cap
  BY <1>1, <1>7, DivBounds, DivAtMost, DivTimes
<1> HIDE DEF repaid
<1>9. repaid * price \in Nat
  BY <1>1, <1>8, MulNat
<1> QED BY <1>2, <1>4, <1>5, <1>6, <1>7, <1>8, <1>9 DEF total, debt

\* What is seized is worth at most what is repaid, with the bonus.
LEMMA SeizedWorth ==
    ASSUME NEW prices \in [Markets -> Nat], NEW d \in Markets,
           NEW c \in Markets, NEW repaid \in Nat, NEW bonus \in Nat,
           price_per_native(prices, c) # 0
    PROVE  asset_usd_value(collateral_to_seize(repaid, prices, d, c, bonus), prices, c) * BPS
               <= asset_usd_value(repaid, prices, d) * (BPS + bonus)
<1> DEFINE value == asset_usd_value(repaid, prices, d)
           price == price_per_native(prices, c)
           product == value * (BPS + bonus)
           usd == product \div BPS
           seized == usd \div price
<1>1. value \in Nat /\ price \in Nat \ {0}
  BY UsdValueType
<1>2. asset_usd_value(collateral_to_seize(repaid, prices, d, c, bonus), prices, c)
          = seized * price
  BY DEF collateral_to_seize, seize_usd, asset_usd_value
<1> HIDE DEF value, price
<1>3. product \in Nat
  BY <1>1, Scales, MulNat
<1> HIDE DEF product
<1>4. usd \in Nat /\ usd * BPS <= product
  BY <1>3, Scales, DivBounds, DivTimes
<1> HIDE DEF usd
<1>5. seized \in Nat /\ seized * price <= usd
  BY <1>1, <1>4, DivBounds, DivTimes
<1> HIDE DEF seized
<1>6. (seized * price) * BPS <= usd * BPS
  BY <1>1, <1>4, <1>5, MulNat, MulMono, Scales
<1>7. /\ (seized * price) * BPS \in Nat /\ usd * BPS \in Nat
  BY <1>1, <1>4, <1>5, MulNat, Scales
<1>8. (seized * price) * BPS <= product
  BY <1>3, <1>4, <1>6, <1>7
<1> QED BY <1>2, <1>8 DEF product, value

(***************************************************************************)
(* What a liquidation leaves behind, read off the state after it.          *)
(***************************************************************************)
LEMMA LiquidateFacts ==
    ASSUME Inv, NEW l \in Accounts, NEW u \in Accounts,
           NEW d \in Markets, NEW c \in Markets, NEW amount \in Amounts,
           Liquidate(l, u, d, c, amount)
    PROVE  LET index == interest'[d].borrow_index
               actual == actual_position(position[u], interest')
               prices == get_all_prices(feed)
               debt == debt_owed(position[u], interest', d)
           IN  \E repaid, seized \in Nat :
                  /\ d # c /\ amount \in Nat /\ debt \in Nat
                  /\ repaid # 0 /\ repaid <= debt /\ repaid <= amount
                  /\ ~SolventAt(position[u], interest')
                  /\ 2 * asset_usd_value(repaid, prices, d)
                        <= total_debt_usd(actual, prices)
                  /\ asset_usd_value(seized, prices, c) * BPS
                        <= asset_usd_value(repaid, prices, d)
                              * (BPS + V1_MARKETS[c].liquidation_bonus)
                  /\ seized <= position[u][c].collateral
                  /\ position' = [position EXCEPT ![u] =
                        liquidated(position[u], d, c,
                                   remaining_debt(debt - repaid, index), index, seized)]
                  /\ interest' = [LiquidationStates(d, c) EXCEPT ![d] =
                        book_repay(LiquidationStates(d, c)[d], repaid)]
                  /\ held' = [held EXCEPT ![d] = @ + (amount - repaid),
                                         ![c] = @ - seized]
                  /\ seized <= held[c]
                  /\ cash' = [cash EXCEPT ![d] = @ + repaid]
<1> DEFINE states == LiquidationStates(d, c)
           actual == actual_position(position[u], states)
           prices == get_all_prices(feed)
           repaid == liquidation_repaid(actual, prices, d, amount)
           bonus == V1_MARKETS[c].liquidation_bonus
           seized == collateral_to_seize(repaid, prices, d, c, bonus)
           remaining == saturating_sub(actual[d].debt, repaid)
<1>1. /\ amount \in Nat /\ d # c
      /\ can_accrue(d) /\ can_accrue(c)
      /\ actual_position_ok(position[u], states)
      /\ health_factor_ok(actual, prices, V1_MARKETS)
      /\ is_liquidatable(calculate_health_factor(actual, prices, V1_MARKETS))
      /\ price_per_native(prices, d) # 0
      /\ price_per_native(prices, c) # 0
      /\ repaid # 0
      /\ Seize(l, u, d, c, amount, states, repaid, seized, remaining)
  BY ControllerAssumption
  DEF Liquidate, LiquidateAt, liquidate_ok, LiquidationStates,
      liquidation_amounts_ok
<1>2. states \in [Markets -> InterestStates]
  BY <1>1, LiquidationStatesAdvance
<1>3. prices \in [Markets -> Nat] /\ position[u] \in [Markets -> Positions]
  BY PricesType, StateTypes
<1>4. bonus \in Nat
  BY ControllerAssumption DEF MarketConfigs
<1> HIDE DEF states, bonus
<1>5. \A m \in Markets : /\ actual[m].debt = debt_owed(position[u], states, m)
                         /\ actual[m].debt \in Nat /\ actual[m].collateral \in Nat
  <2>1. \A m \in Markets : position[u][m].collateral \in Nat
    BY StateTypes
  <2> QED BY <1>1, <1>2, <1>3, <2>1, ActualPositionType
<1>12. ~(total_debt_usd(actual, prices)
            <= weighted_collateral(actual, prices, thresholds(V1_MARKETS)))
  BY <1>1, <1>3, <1>5, LiquidatableInsolvent
<1> HIDE DEF prices
<1>6. /\ interest' = [states EXCEPT ![d] = book_repay(states[d], repaid)]
      /\ cash' = [cash EXCEPT ![d] = @ + repaid]
      /\ held' = [held EXCEPT ![d] = @ + (amount - repaid), ![c] = @ - seized]
      /\ seized <= position[u][c].collateral /\ seized <= held[c]
      /\ position' = [position EXCEPT ![u] =
            liquidated(position[u], d, c,
                       remaining_debt(remaining, states[d].borrow_index),
                       states[d].borrow_index, seized)]
  BY <1>1, <1>2 DEF Seize, seize_ok, seized_position
<1>7. \A m \in Markets : interest'[m].borrow_index = states[m].borrow_index
  <2>1. states[d] \in InterestStates
    BY <1>2
  <2>2. book_repay(states[d], repaid).borrow_index = states[d].borrow_index
    BY <2>1 DEF book_repay, InterestStates
  <2> QED BY <1>2, <1>6, <2>2
<1>8. /\ actual_position(position[u], interest') = actual
      /\ debt_owed(position[u], interest', d) = actual[d].debt
  <2>1. \A m \in Markets : debt_owed(position[u], interest', m)
                               = debt_owed(position[u], states, m)
    BY <1>7 DEF debt_owed
  <2> QED BY <1>5, <2>1 DEF actual_position, actual, Markets
<1>13. ~SolventAt(position[u], interest')
  BY <1>8, <1>12 DEF SolventAt, prices
<1> HIDE DEF actual
<1>9. /\ repaid \in Nat /\ repaid <= actual[d].debt /\ repaid <= amount
      /\ 2 * asset_usd_value(repaid, prices, d) <= total_debt_usd(actual, prices)
  BY <1>1, <1>3, <1>5, RepaidOwed, RepaidBound
<1> HIDE DEF repaid
<1>10. /\ seized \in Nat
       /\ asset_usd_value(seized, prices, c) * BPS
             <= asset_usd_value(repaid, prices, d) * (BPS + bonus)
  BY <1>1, <1>3, <1>4, <1>9, SeizedType, SeizedWorth
<1> HIDE DEF seized
<1>11. remaining = actual[d].debt - repaid
  BY <1>5, <1>9 DEF saturating_sub
<1> QED BY <1>1, <1>5, <1>6, <1>7, <1>8, <1>9, <1>10, <1>11, <1>13 DEF prices, bonus, states

\* What `liquidated` does to each market of a position.
LEMMA LiquidatedMarkets ==
    ASSUME NEW pos \in [Markets -> Positions],
           NEW d \in Markets, NEW c \in Markets, d # c,
           NEW debt, NEW index, NEW seized,
           NEW post, post = liquidated(pos, d, c, debt, index, seized)
    PROVE  /\ post[d].debt = debt /\ post[d].user_borrow_index = index
           /\ post[d].collateral = pos[d].collateral
           /\ post[c].debt = pos[c].debt
           /\ post[c].user_borrow_index = pos[c].user_borrow_index
           /\ post[c].collateral = saturating_sub(pos[c].collateral, seized)
           /\ \A k \in Markets \ {c, d} : post[k] = pos[k]
<1> DEFINE left == saturating_sub(pos[c].collateral, seized)
           pd == with_debt(pos[d], debt, index)
           pc == [pos[c] EXCEPT !.collateral = left]
<1>1. post = [pos EXCEPT ![d] = pd, ![c] = pc]
  BY DEF liquidated
<1>2. /\ pd.debt = debt /\ pd.user_borrow_index = index
      /\ pd.collateral = pos[d].collateral
  BY DEF Positions, with_debt
<1>3. /\ pc.debt = pos[c].debt /\ pc.collateral = left
      /\ pc.user_borrow_index = pos[c].user_borrow_index
  BY DEF Positions
<1> HIDE DEF pd, pc, left
<1> QED BY <1>1, <1>2, <1>3 DEF left

LEMMA LiquidateCharges ==
    ASSUME Inv, Inv', NEW l \in Accounts, NEW u \in Accounts,
           NEW d \in Markets, NEW c \in Markets, NEW amount \in Amounts,
           Liquidate(l, u, d, c, amount), NEW v \in Accounts, NEW k \in Markets
    PROVE  ChargedFairly(v, k)
<1> DEFINE index == interest'[d].borrow_index
           debt == debt_owed(position[u], interest', d)
<1>1. PICK repaid \in Nat, seized \in Nat :
         /\ d # c /\ debt \in Nat /\ repaid <= debt
         /\ position' = [position EXCEPT ![u] =
               liquidated(position[u], d, c, remaining_debt(debt - repaid, index),
                          index, seized)]
         /\ cash' = [cash EXCEPT ![d] = @ + repaid]
  BY LiquidateFacts
<1> HIDE DEF debt, index
<1>2. cash \in [Markets -> Nat] /\ position \in [Accounts -> [Markets -> Positions]]
  BY DEF Inv, TypeOK
<1>3. position'[u] = liquidated(position[u], d, c, remaining_debt(debt - repaid, index),
                                index, seized)
  BY <1>1, <1>2
<1>4. /\ position'[u][d].debt = remaining_debt(debt - repaid, index)
      /\ position'[u][d].user_borrow_index = index
      /\ position'[u][c].debt = position[u][c].debt
      /\ position'[u][c].user_borrow_index = position[u][c].user_borrow_index
      /\ \A j \in Markets \ {c, d} : position'[u][j] = position[u][j]
  BY <1>1, <1>2, <1>3, LiquidatedMarkets
<1>5. CASE v = u /\ k = d
  <2>1. owed(u, d)' <= debt - repaid
    BY <1>1, <1>4, RemainingOwes DEF index
  <2>2. cash[d] - cash'[d] = 0 - repaid /\ debt + (0 - repaid) = debt - repaid
    BY <1>1, <1>2
  <2> QED BY <1>5, <2>1, <2>2 DEF ChargedFairly, debt
<1>6. CASE v = u /\ k = c
  <2>1. cash'[c] = cash[c]
    BY <1>1, <1>2
  <2> QED BY <1>4, <1>6, <2>1, SameDebt
<1>7. CASE ~(v = u /\ k \in {c, d})
  <2>1. position'[v][k] = position[v][k]
    BY <1>1, <1>2, <1>4, <1>7
  <2> QED BY <2>1 DEF ChargedFairly
<1> QED BY <1>5, <1>6, <1>7

\* The other actions change no debt, nor any cash where they change a position.
LEMMA OthersCharge ==
    ASSUME Inv, Inv', NEW u \in Accounts, NEW m \in Markets, NEW amount \in Amounts,
           \/ Supply(u, m, amount) \/ Withdraw(u, m, amount)
           \/ DepositCollateral(u, m, amount) \/ WithdrawCollateral(u, m, amount),
           NEW v \in Accounts, NEW k \in Markets
    PROVE  ChargedFairly(v, k)
<1>1. CASE Supply(u, m, amount) \/ Withdraw(u, m, amount)
  BY <1>1 DEF Supply, SupplyAt, Withdraw, WithdrawAt, ChargedFairly
<1>2. CASE DepositCollateral(u, m, amount) \/ WithdrawCollateral(u, m, amount)
  <2>1. cash' = cash
    BY <1>2 DEF DepositCollateral, WithdrawCollateral
  <2>2. /\ position'[v][k].debt = position[v][k].debt
        /\ position'[v][k].user_borrow_index = position[v][k].user_borrow_index
    <3>1. position \in [Accounts -> [Markets -> Positions]]
      BY DEF Inv, TypeOK
    <3>2. CASE DepositCollateral(u, m, amount)
      BY <3>1, <3>2 DEF DepositCollateral, Positions
    <3>3. CASE WithdrawCollateral(u, m, amount)
      <4>1. position' = [position EXCEPT ![u] =
                             [position[u] EXCEPT ![m].collateral = @ - amount]]
        BY <3>1, <3>3 DEF WithdrawCollateral, without_collateral
      <4> QED BY <3>1, <4>1 DEF Positions
    <3> QED BY <1>2, <3>2, <3>3
  <2> QED BY <2>1, <2>2, SameDebt
<1> QED BY <1>1, <1>2

LEMMA NextCharges ==
    ASSUME Inv, Inv', [Next]_vars
    PROVE  [\A u \in Accounts, m \in Markets : ChargedFairly(u, m)]_vars
<1>1. SUFFICES ASSUME Next, NEW v \in Accounts, NEW k \in Markets
               PROVE  ChargedFairly(v, k)
  OBVIOUS
<1>2. CASE Tick \/ \E prices \in PriceVectors : PostPrices(prices)
  BY <1>2 DEF Tick, PostPrices, ChargedFairly
<1> QED BY <1>1, <1>2, BorrowCharges, RepayCharges, LiquidateCharges, OthersCharge DEF Next

(***************************************************************************)
(* No call charges an account more than it owed with its interest and was  *)
(* lent, less what was repaid: rewriting a debt only ever rounds it down,  *)
(* and a seizure of collateral leaves the debt of its market as it was     *)
(* (handle_borrow, handle_repay, handle_liquidate).                        *)
(***************************************************************************)
THEOREM NeverOverchargedCorrect == Spec => NeverOvercharged
<1>1. Inv /\ Inv' /\ [Next]_vars
         => [\A u \in Accounts, m \in Markets : ChargedFairly(u, m)]_vars
  BY NextCharges
<1> QED BY Inductive, <1>1, PTL DEF Spec, NeverOvercharged

(***************************************************************************)
(* Liquidations are bounded.                                               *)
(***************************************************************************)

\* A step that takes no collateral, or fills no vault, is no liquidation.
LEMMA NothingSeized ==
    ASSUME Inv, NEW u \in Accounts, NEW c \in Markets, NEW d \in Markets,
           \/ position'[u][c].collateral = position[u][c].collateral
           \/ ~(cash'[d] > cash[d])
    PROVE  SeizedFairly(u, c, d)
<1>1. CASE position'[u][c].collateral = position[u][c].collateral
  <2>1. position[u][c].collateral - position'[u][c].collateral = 0
    BY <1>1, StateTypes
  <2>2. price_per_native(get_all_prices(feed), c) \in Nat
    BY PricesType, UsdValueType
  <2>3. asset_usd_value(0, get_all_prices(feed), c) = 0
    BY <2>2 DEF asset_usd_value
  <2> QED BY <2>1, <2>3 DEF SeizedFairly
<1>2. CASE ~(cash'[d] > cash[d])
  BY <1>2 DEF SeizedFairly
<1> QED BY <1>1, <1>2

LEMMA LiquidateBounded ==
    ASSUME Inv, Inv', NEW l \in Accounts, NEW u \in Accounts,
           NEW d \in Markets, NEW c \in Markets, NEW amount \in Amounts,
           Liquidate(l, u, d, c, amount),
           NEW v \in Accounts, NEW k \in Markets, NEW j \in Markets
    PROVE  SeizedFairly(v, k, j)
<1> DEFINE index == interest'[d].borrow_index
           debt == debt_owed(position[u], interest', d)
           actual == actual_position(position[u], interest')
           prices == get_all_prices(feed)
           bonus == V1_MARKETS[c].liquidation_bonus
<1>1. PICK repaid \in Nat, seized \in Nat :
         /\ d # c
         /\ 2 * asset_usd_value(repaid, prices, d) <= total_debt_usd(actual, prices)
         /\ asset_usd_value(seized, prices, c) * BPS
               <= asset_usd_value(repaid, prices, d) * (BPS + bonus)
         /\ seized <= position[u][c].collateral
         /\ position' = [position EXCEPT ![u] =
               liquidated(position[u], d, c, remaining_debt(debt - repaid, index),
                          index, seized)]
         /\ cash' = [cash EXCEPT ![d] = @ + repaid]
  BY LiquidateFacts
<1> HIDE DEF debt, index, actual, prices, bonus
<1>2. cash \in [Markets -> Nat] /\ position \in [Accounts -> [Markets -> Positions]]
  BY DEF Inv, TypeOK
<1>3. /\ position'[u][d].collateral = position[u][d].collateral
      /\ position'[u][c].collateral = saturating_sub(position[u][c].collateral, seized)
      /\ \A i \in Markets \ {c, d} : position'[u][i] = position[u][i]
  <2>1. position'[u] = liquidated(position[u], d, c,
                                  remaining_debt(debt - repaid, index), index, seized)
    BY <1>1, <1>2
  <2> QED BY <1>1, <1>2, <2>1, LiquidatedMarkets
<1>4. CASE v = u /\ k = c /\ j = d
  <2>1. position[u][c].collateral - position'[u][c].collateral = seized
    BY <1>1, <1>3, StateTypes DEF saturating_sub
  <2>2. cash'[d] - cash[d] = repaid
    BY <1>1, <1>2
  <2> QED BY <1>1, <1>4, <2>1, <2>2 DEF SeizedFairly, actual, prices, bonus
<1>5. CASE v # u \/ k # c
  <2>1. position'[v][k].collateral = position[v][k].collateral
    BY <1>1, <1>2, <1>3, <1>5
  <2> QED BY <2>1, NothingSeized
<1>6. CASE j # d
  <2>1. cash'[j] = cash[j] /\ cash[j] \in Nat
    BY <1>1, <1>2, <1>6
  <2> QED BY <2>1, NothingSeized
<1> QED BY <1>4, <1>5, <1>6

\* The other actions seize nothing.
LEMMA OthersSeize ==
    ASSUME Inv, Inv', NEW u \in Accounts, NEW m \in Markets, NEW amount \in Amounts,
           \/ Supply(u, m, amount) \/ Withdraw(u, m, amount)
           \/ DepositCollateral(u, m, amount) \/ WithdrawCollateral(u, m, amount)
           \/ Borrow(u, m, amount) \/ Repay(u, m, amount),
           NEW v \in Accounts, NEW k \in Markets, NEW j \in Markets
    PROVE  SeizedFairly(v, k, j)
<1>1. CASE Supply(u, m, amount) \/ Withdraw(u, m, amount)
  BY <1>1, NothingSeized DEF Supply, SupplyAt, Withdraw, WithdrawAt
<1>2. CASE DepositCollateral(u, m, amount) \/ WithdrawCollateral(u, m, amount)
  <2>1. cash'[j] = cash[j] /\ cash[j] \in Nat
    BY <1>2, StateTypes DEF DepositCollateral, WithdrawCollateral
  <2> QED BY <2>1, NothingSeized
<1>3. ASSUME NEW debt, NEW index,
             position' = [position EXCEPT ![u][m] = with_debt(@, debt, index)]
      PROVE  SeizedFairly(v, k, j)
  <2>1. position'[v][k].collateral = position[v][k].collateral
    BY <1>3 DEF with_debt, Inv, TypeOK, Positions
  <2> QED BY <2>1, NothingSeized
<1>4. CASE Borrow(u, m, amount)
  BY <1>3, <1>4, BorrowFacts
<1>5. CASE Repay(u, m, amount)
  BY <1>3, <1>5, RepayFacts
<1> QED BY <1>1, <1>2, <1>4, <1>5

LEMMA NextSeizes ==
    ASSUME Inv, Inv', [Next]_vars
    PROVE  [\A u \in Accounts, c, d \in Markets : SeizedFairly(u, c, d)]_vars
<1>1. SUFFICES ASSUME Next, NEW v \in Accounts, NEW k \in Markets, NEW j \in Markets
               PROVE  SeizedFairly(v, k, j)
  OBVIOUS
<1>2. CASE Tick \/ \E prices \in PriceVectors : PostPrices(prices)
  BY <1>2, NothingSeized DEF Tick, PostPrices
<1> QED BY <1>1, <1>2, LiquidateBounded, OthersSeize DEF Next

(***************************************************************************)
(* A liquidation repays at most half of what the position owes and seizes  *)
(* at most the value repaid plus the bonus, whatever the prices: the       *)
(* truncations of handle_liquidate all favour the borrower.                *)
(***************************************************************************)
THEOREM LiquidationBoundedCorrect == Spec => LiquidationBounded
<1>1. Inv /\ Inv' /\ [Next]_vars
         => [\A u \in Accounts, c, d \in Markets : SeizedFairly(u, c, d)]_vars
  BY NextSeizes
<1> QED BY Inductive, <1>1, PTL DEF Spec, LiquidationBounded

(***************************************************************************)
(* Cash leaves a vault to who gives up as much for it.  A borrow whose     *)
(* market is worth nothing per unit is worth nothing, and then asks for no *)
(* capacity: prices have to be worth something to the unit, as the ones    *)
(* of any listed asset are.                                                *)
(***************************************************************************)
PricedPerUnit ==
    /\ \A prices \in PriceVectors, m \in Markets : ASSET_UNIT[m] <= prices[m]
    /\ ASSET_UNIT[ASSET_RLUSD] <= RLUSD_FIXED_PRICE

\* What the feed holds was published, or nothing was.
Published == feed = NoPrices \/ feed.prices \in PriceVectors

LEMMA PublishedAlways == Spec => []Published
<1>1. Init => Published
  BY DEF Init, Published
<1>2. ASSUME Next
      PROVE  feed' = feed \/ \E prices \in PriceVectors : feed'.prices = prices
  <2>1. ASSUME NEW u \in Accounts, NEW m \in Markets, NEW amount \in Amounts,
               \/ Supply(u, m, amount) \/ Withdraw(u, m, amount)
               \/ DepositCollateral(u, m, amount) \/ WithdrawCollateral(u, m, amount)
               \/ Borrow(u, m, amount) \/ Repay(u, m, amount)
        PROVE  feed' = feed
    BY <2>1 DEF Supply, SupplyAt, Withdraw, WithdrawAt, DepositCollateral,
                WithdrawCollateral, Borrow, BorrowAt, Repay, RepayAt
  <2>2. ASSUME NEW l \in Accounts, NEW u \in Accounts, NEW d \in Markets,
               NEW c \in Markets, NEW amount \in Amounts, Liquidate(l, u, d, c, amount)
        PROVE  feed' = feed
    BY <2>2 DEF Liquidate, LiquidateAt, Seize
  <2>3. CASE Tick
    BY <2>3 DEF Tick
  <2>4. ASSUME NEW prices \in PriceVectors, PostPrices(prices)
        PROVE  feed'.prices = prices
    BY <2>4 DEF PostPrices
  <2> QED BY <1>2, <2>1, <2>2, <2>3, <2>4 DEF Next
<1>3. Published /\ [Next]_vars => Published'
  BY <1>2 DEF Published, vars
<1> QED BY <1>1, <1>3, PTL DEF Spec

\* A price that passes the oracle's checks is worth something to the unit.
LEMMA PriceWorth ==
    ASSUME PricedPerUnit, Inv, Published, all_prices_ok(feed, now), NEW m \in Markets
    PROVE  price_per_native(get_all_prices(feed), m) \in Nat \ {0}
<1> DEFINE price == get_all_prices(feed)[m]
<1>1. feed.prices[m] # 0
  BY DEF all_prices_ok, asset_price_ok
<1>2. feed.prices \in PriceVectors
  BY <1>1 DEF Published, NoPrices
<1>3. ASSET_UNIT[m] <= price
  BY <1>2 DEF PricedPerUnit, get_all_prices, get_asset_price
<1>4. price \in Nat /\ ASSET_UNIT[m] \in Nat \ {0}
  BY PricesType, HealthAssumption
<1> HIDE DEF price
<1>5. price \div ASSET_UNIT[m] \in Nat /\ price \div ASSET_UNIT[m] >= 1
  BY <1>3, <1>4, DivBounds, DivAtLeast
<1> QED BY <1>5 DEF price_per_native, price

\* A position with its debts brought up to date, whether or not they fit.
LEMMA ActualFields ==
    ASSUME NEW pos \in [Markets -> Positions], NEW states, NEW m \in Markets
    PROVE  /\ actual_position(pos, states)[m].debt = debt_owed(pos, states, m)
           /\ actual_position(pos, states)[m].collateral = pos[m].collateral
<1> DEFINE d0 == debt_owed(pos, states, ASSET_XRP)
           d1 == debt_owed(pos, states, ASSET_RLUSD)
           d2 == debt_owed(pos, states, ASSET_WBTC)
           actual == [pos EXCEPT ![ASSET_XRP].debt = d0,
                                 ![ASSET_RLUSD].debt = d1,
                                 ![ASSET_WBTC].debt = d2]
<1>1. actual_position(pos, states) = actual
  BY DEF actual_position
<1>2. actual[ASSET_XRP].debt = d0 /\ actual[ASSET_RLUSD].debt = d1
      /\ actual[ASSET_WBTC].debt = d2
  <2> HIDE DEF d0, d1, d2
  <2> QED BY DEF Markets, ASSET_XRP, ASSET_RLUSD, ASSET_WBTC, Positions
<1>3. \A k \in Markets : actual[k].collateral = pos[k].collateral
  <2> HIDE DEF d0, d1, d2
  <2> QED BY DEF Markets, ASSET_XRP, ASSET_RLUSD, ASSET_WBTC, Positions
<1> QED BY <1>1, <1>2, <1>3 DEF Markets

\* One debt grows by at most an amount: so does the total by its value.
LEMMA TotalGrows ==
    ASSUME NEW prices \in [Markets -> Nat], NEW old, NEW new,
           NEW m \in Markets, NEW amount \in Nat,
           \A k \in Markets : old[k].debt \in Nat /\ new[k].debt \in Nat,
           \A k \in Markets \ {m} : new[k].debt = old[k].debt,
           new[m].debt <= old[m].debt + amount
    PROVE  total_debt_usd(new, prices)
               <= total_debt_usd(old, prices) + asset_usd_value(amount, prices, m)
<1> DEFINE before(k) == asset_usd_value(old[k].debt, prices, k)
           after(k) == asset_usd_value(new[k].debt, prices, k)
           value == asset_usd_value(amount, prices, m)
<1>1. /\ total_debt_usd(new, prices) = after(0) + after(1) + after(2)
      /\ total_debt_usd(old, prices) = before(0) + before(1) + before(2)
  BY DEF total_debt_usd, OverMarkets, Markets, ASSET_XRP, ASSET_RLUSD, ASSET_WBTC
<1>2. value \in Nat /\ \A k \in Markets : before(k) \in Nat /\ after(k) \in Nat
  BY UsdValueType
<1>3. \A k \in Markets \ {m} : after(k) = before(k)
  OBVIOUS
<1>4. after(m) <= before(m) + value
  <2> DEFINE price == price_per_native(prices, m)
  <2>1. price \in Nat
    BY UsdValueType
  <2>2. /\ after(m) = new[m].debt * price /\ before(m) = old[m].debt * price
        /\ value = amount * price
    BY DEF asset_usd_value
  <2> HIDE DEF price
  <2>3. new[m].debt * price <= (old[m].debt + amount) * price
    BY <2>1, MulMono
  <2>4. (old[m].debt + amount) * price = old[m].debt * price + amount * price
    BY <2>1
  <2> QED BY <2>2, <2>3, <2>4
<1> HIDE DEF before, after, value
<1>5. Markets = {0, 1, 2}
  BY DEF Markets, ASSET_XRP, ASSET_RLUSD, ASSET_WBTC
<1>6. after(0) + after(1) + after(2) <= before(0) + before(1) + before(2) + value
  BY <1>2, <1>3, <1>4, <1>5
<1> QED BY <1>1, <1>6 DEF value

LEMMA WithdrawLeaves ==
    ASSUME Inv, NEW u \in Accounts, NEW m \in Markets, NEW burned \in Amounts,
           Withdraw(u, m, burned), NEW k \in Markets
    PROVE  CashLeft(k)
<1> DEFINE state == accrued(m)
           amount == wad_mul(burned, state.supply_index)
<1>1. /\ burned \in Nat /\ burned > 0 /\ can_accrue(m)
      /\ shares' = [shares EXCEPT ![u][m] = @ - burned]
      /\ interest' = [interest EXCEPT ![m] = book_withdraw(state, amount)]
      /\ wallet' = [wallet EXCEPT ![u][m] = @ + amount]
      /\ cash' = [cash EXCEPT ![m] = @ - amount]
  BY ControllerAssumption DEF Withdraw, WithdrawAt, withdraw_ok, redeemed
<1>2. state \in InterestStates
  BY <1>1, AccruedMarket DEF Advanced
<1> HIDE DEF state
<1>3. amount \in Nat
  <2>1. state.supply_index \in Nat
    BY <1>2 DEF InterestStates, U128
  <2> QED BY <1>1, <2>1, WadMulType
<1>4. interest'[m].supply_index = state.supply_index
  <2>1. interest'[m] = book_withdraw(state, amount)
    BY <1>1 DEF Inv, TypeOK
  <2> QED BY <1>2, <2>1 DEF book_withdraw, InterestStates
<1>5. amount = wad_mul(burned, interest'[m].supply_index)
  BY <1>4
<1> HIDE DEF amount
<1>6. /\ shares[u][m] - shares'[u][m] = burned /\ shares'[u][m] < shares[u][m]
      /\ wallet'[u][m] - wallet[u][m] = amount
      /\ cash[m] - cash'[m] = amount
      /\ k # m => cash'[k] = cash[k]
  <2>1. /\ shares \in [Accounts -> [Markets -> U128]]
        /\ wallet \in [Accounts -> [Markets -> Nat]] /\ cash \in [Markets -> Nat]
    BY DEF Inv, TypeOK
  <2>2. /\ shares'[u][m] = shares[u][m] - burned /\ wallet'[u][m] = wallet[u][m] + amount
        /\ cash'[m] = cash[m] - amount /\ (k # m => cash'[k] = cash[k])
    BY <1>1, <2>1
  <2>3. /\ shares[u][m] \in Nat /\ wallet[u][m] \in Nat /\ cash[m] \in Nat
        /\ burned \in Nat /\ burned > 0
    BY <1>1, StateTypes
  <2> QED BY <1>3, <2>2, <2>3
<1>7. CASE k = m
  BY <1>5, <1>6, <1>7 DEF CashLeft
<1>8. CASE k # m
  BY <1>6, <1>8, StateTypes DEF CashLeft
<1> QED BY <1>7, <1>8

LEMMA BorrowLeaves ==
    ASSUME PricedPerUnit, Published, Inv, Inv',
           NEW u \in Accounts, NEW m \in Markets, NEW amount \in Amounts,
           Borrow(u, m, amount), NEW k \in Markets
    PROVE  CashLeft(k)
<1> DEFINE states == [interest EXCEPT ![m] = accrued(m)]
           old == actual_position(position[u], states)
           new == actual_position(position'[u], interest')
           prices == get_all_prices(feed)
           weight == ltvs(V1_MARKETS)
           value == asset_usd_value(amount, prices, m)
           index == interest'[m].borrow_index
           debt == debt_owed(position[u], interest', m) + amount
<1>1. /\ amount \in Nat /\ amount > 0
      /\ cash' = [cash EXCEPT ![m] = @ - amount]
      /\ wallet' = [wallet EXCEPT ![u][m] = @ + amount]
      /\ position' = [position EXCEPT ![u][m] =
                          with_debt(@, to_scaled_debt(debt, index), index)]
      /\ \A j \in Markets \ {m} : interest'[j] = interest[j]
      /\ UNCHANGED <<now, feed, shares, held>>
  BY BorrowFacts
<1>2. /\ all_prices_ok(feed, now) /\ can_accrue(m)
      /\ actual_position_ok(position[u], states)
      /\ value <= calculate_borrow_capacity(old, prices, V1_MARKETS)
  BY DEF Borrow, BorrowAt, borrow_ok
<1>3. /\ interest \in [Markets -> InterestStates]
      /\ position \in [Accounts -> [Markets -> Positions]]
      /\ position' \in [Accounts -> [Markets -> Positions]]
      /\ cash \in [Markets -> Nat] /\ wallet \in [Accounts -> [Markets -> Nat]]
  BY DEF Inv, TypeOK
<1>4. prices \in [Markets -> Nat]
  BY PricesType
<1>5. weight \in [Markets -> Nat]
  BY ControllerAssumption DEF ltvs, MarketConfigs
<1>6. states \in [Markets -> InterestStates]
  BY <1>2, <1>3, AccruedMarket DEF Advanced
<1>7. \A j \in Markets : interest'[j].borrow_index = states[j].borrow_index
  <2>1. BorrowAt(u, m, amount, states)
    BY DEF Borrow
  <2>2. interest'[m] = book_borrow(states[m], amount)
    BY <1>6, <2>1 DEF BorrowAt
  <2>3. interest'[m].borrow_index = states[m].borrow_index
    BY <1>6, <2>2 DEF book_borrow, InterestStates
  <2> QED BY <1>1, <1>3, <2>3
<1> HIDE DEF states
<1>8. \A j \in Markets : /\ old[j].debt = debt_owed(position[u], interest', j)
                         /\ old[j].debt \in Nat
                         /\ old[j].collateral = position[u][j].collateral
  <2>1. \A j \in Markets : debt_owed(position[u], states, j)
                               = debt_owed(position[u], interest', j)
    BY <1>7 DEF debt_owed
  <2> QED BY <1>2, <1>3, <1>6, <2>1, ActualPositionType
<1>9. \A j \in Markets : /\ new[j].debt = owed(u, j)' /\ new[j].debt \in Nat
                         /\ new[j].collateral = position'[u][j].collateral
  <2>1. \A j \in Markets : WAD <= position'[u][j].user_borrow_index
    BY DEF Inv, IndexesOrdered
  <2>2. interest' \in [Markets -> InterestStates]
    BY DEF Inv, TypeOK
  <2>3. \A j \in Markets : debt_owed(position'[u], interest', j) \in Nat
    BY <1>3, <2>1, <2>2, OwedType
  <2>4. \A j \in Markets : /\ new[j].debt = debt_owed(position'[u], interest', j)
                           /\ new[j].collateral = position'[u][j].collateral
    BY <1>3, ActualFields
  <2> QED BY <2>3, <2>4 DEF owed
<1> HIDE DEF old, new, debt, index
<1>10. /\ \A j \in Markets : new[j].collateral = old[j].collateral
       /\ \A j \in Markets \ {m} : position'[u][j] = position[u][j]
  BY <1>1, <1>3, <1>8, <1>9 DEF with_debt, Positions
<1>11. \A j \in Markets \ {m} : new[j].debt = old[j].debt
  BY <1>8, <1>9, <1>10 DEF owed, debt_owed, debt_at
<1>12. new[m].debt <= old[m].debt + amount
  <2>1. debt \in Nat
    BY <1>1, <1>8 DEF debt
  <2>2. /\ position'[u][m].debt = to_scaled_debt(debt, index)
        /\ position'[u][m].user_borrow_index = index
    BY <1>1, <1>3 DEF with_debt, Positions
  <2> QED BY <1>8, <1>9, <2>1, <2>2, RewrittenOwes DEF debt, index
<1>13. total_debt_usd(new, prices) <= total_debt_usd(old, prices) + value
  BY <1>1, <1>4, <1>8, <1>9, <1>11, <1>12, TotalGrows
<1>14. weighted_collateral(new, prices, weight) = weighted_collateral(old, prices, weight)
  BY <1>10 DEF weighted_collateral
<1>15. value \in Nat \ {0}
  <2>1. price_per_native(prices, m) \in Nat \ {0}
    BY <1>2, PriceWorth
  <2> QED BY <1>1, <2>1 DEF asset_usd_value
<1>16. total_debt_usd(old, prices) + value <= weighted_collateral(old, prices, weight)
  <2>1. /\ total_debt_usd(old, prices) \in Nat
        /\ weighted_collateral(old, prices, weight) \in Nat
    BY <1>3, <1>4, <1>5, <1>8, TotalDebtType, WeightedType, StateTypes
  <2> QED BY <1>2, <1>15, <2>1 DEF calculate_borrow_capacity, saturating_sub
<1>17. WithinLtv(u)'
  <2>1. total_debt_usd(new, prices) \in Nat
    BY <1>4, <1>9, TotalDebtType
  <2>2. /\ total_debt_usd(old, prices) \in Nat
        /\ weighted_collateral(old, prices, weight) \in Nat
    BY <1>3, <1>4, <1>5, <1>8, TotalDebtType, WeightedType, StateTypes
  <2>3. total_debt_usd(new, prices) <= weighted_collateral(new, prices, weight)
    BY <1>13, <1>14, <1>15, <1>16, <2>1, <2>2
  <2> QED BY <1>1, <2>3 DEF WithinLtv, new, prices, weight
<1>18. /\ wallet'[u][m] - wallet[u][m] = amount /\ cash[m] - cash'[m] = amount
       /\ k # m => cash'[k] = cash[k]
  BY <1>1, <1>3
<1>19. CASE k = m
  BY <1>1, <1>2, <1>17, <1>18, <1>19 DEF CashLeft
<1>20. CASE k # m
  BY <1>18, <1>20, StateTypes DEF CashLeft
<1> QED BY <1>19, <1>20

\* The other actions take no cash.
LEMMA NoCashLeft ==
    ASSUME Inv, NEW k \in Markets, ~(cash'[k] < cash[k])
    PROVE  CashLeft(k)
  BY DEF CashLeft

LEMMA OthersLeave ==
    ASSUME Inv, NEW u \in Accounts, NEW m \in Markets, NEW amount \in Amounts,
           \/ Supply(u, m, amount) \/ Repay(u, m, amount)
           \/ DepositCollateral(u, m, amount) \/ WithdrawCollateral(u, m, amount),
           NEW k \in Markets
    PROVE  CashLeft(k)
<1>1. cash \in [Markets -> Nat] /\ amount \in Nat
  BY ControllerAssumption DEF Inv, TypeOK
<1>2. CASE Supply(u, m, amount)
  BY <1>1, <1>2, NoCashLeft DEF Supply, SupplyAt
<1>3. CASE DepositCollateral(u, m, amount) \/ WithdrawCollateral(u, m, amount)
  BY <1>1, <1>3, NoCashLeft DEF DepositCollateral, WithdrawCollateral
<1>4. CASE Repay(u, m, amount)
  <2> DEFINE repaid == repayment(amount, debt_owed(position[u], interest', m))
  <2>1. cash' = [cash EXCEPT ![m] = @ + repaid]
    BY <1>4, RepayFacts
  <2>2. debt_owed(position[u], interest', m) \in Nat
    BY <1>4, RepayStep, OwedBefore
  <2>3. repaid \in Nat
    BY <1>1, <2>2 DEF repayment, Min2
  <2> HIDE DEF repaid
  <2> QED BY <1>1, <2>1, <2>3, NoCashLeft
<1> QED BY <1>2, <1>3, <1>4

LEMMA NextLeaves ==
    ASSUME PricedPerUnit, Published, Inv, Inv', [Next]_vars
    PROVE  [\A m \in Markets : CashLeft(m)]_vars
<1>1. SUFFICES ASSUME Next, NEW k \in Markets
               PROVE  CashLeft(k)
  OBVIOUS
<1>2. CASE Tick \/ \E prices \in PriceVectors : PostPrices(prices)
  BY <1>2, NoCashLeft DEF Tick, PostPrices, Inv, TypeOK
<1>3. ASSUME NEW l \in Accounts, NEW u \in Accounts, NEW d \in Markets,
             NEW c \in Markets, NEW amount \in Amounts, Liquidate(l, u, d, c, amount)
      PROVE  CashLeft(k)
  <2>1. PICK repaid \in Nat : cash' = [cash EXCEPT ![d] = @ + repaid]
    BY <1>3, LiquidateFacts
  <2>2. cash \in [Markets -> Nat]
    BY DEF Inv, TypeOK
  <2> QED BY <2>1, <2>2, NoCashLeft
<1> QED BY <1>1, <1>2, <1>3, WithdrawLeaves, BorrowLeaves, OthersLeave DEF Next

(***************************************************************************)
(* Cash leaves a vault only to an account that burns shares worth it, or   *)
(* to a borrower whose debts then fit its LTV capacity, when no price is   *)
(* so small that a unit of its asset is worth nothing.  The borrower's     *)
(* other debts count at the indexes as they are stored (handle_borrow).    *)
(***************************************************************************)
THEOREM CashLeavesSafelyCorrect ==
    ASSUME PricedPerUnit
    PROVE  Spec => CashLeavesSafely
<1>1. Published /\ Inv /\ Inv' /\ [Next]_vars => [\A m \in Markets : CashLeft(m)]_vars
  BY NextLeaves
<1> QED BY Inductive, PublishedAlways, <1>1, PTL DEF Spec, CashLeavesSafely

(***************************************************************************)
(* Collateral, summed over the accounts.                                   *)
(***************************************************************************)
LEMMA CollateralType ==
    ASSUME Inv, NEW k \in Markets
    PROVE  TotalCollateral(k) \in Nat /\ held[k] \in Nat
<1> DEFINE of == [u \in Accounts |-> position[u][k].collateral]
<1>1. of \in [Accounts -> Nat] /\ held[k] \in Nat
  BY StateTypes DEF Inv, TypeOK
<1>2. TotalCollateral(k) = SumFunction(of)
  BY DEF TotalCollateral
<1> HIDE DEF of
<1>3. SumFunction(of) \in Nat
  BY <1>1, AccountsAssumption, SumNat
<1> QED BY <1>1, <1>2, <1>3

LEMMA CollateralTypes == Inv => \A k \in Markets : TotalCollateral(k) \in Nat /\ held[k] \in Nat
  BY CollateralType

\* What one account moves is what the surplus does not gain.
LEMMA SurplusOfOne ==
    ASSUME Inv, Inv', NEW k \in Markets, NEW u \in Accounts,
           \A v \in Accounts \ {u} :
              position'[v][k].collateral = position[v][k].collateral
    PROVE  Surplus(k)' = Surplus(k) + (held'[k] - held[k])
               - (position'[u][k].collateral - position[u][k].collateral)
<1> DEFINE of == [v \in Accounts |-> position[v][k].collateral]
           then == [v \in Accounts |-> position'[v][k].collateral]
<1>1. \A v \in Accounts : position[v][k].collateral \in Nat
  BY StateTypes
<1>2. \A v \in Accounts : position'[v][k].collateral \in Nat
  BY DEF Inv, TypeOK, Positions, U128
<1>3. of \in [Accounts -> Int] /\ then \in [Accounts -> Int]
  BY <1>1, <1>2
<1>4. /\ TotalCollateral(k) = SumFunction(of)
      /\ TotalCollateral(k)' = SumFunction(then)
      /\ of[u] = position[u][k].collateral /\ then[u] = position'[u][k].collateral
      /\ \A v \in Accounts : v # u => then[v] = of[v]
  BY DEF TotalCollateral
<1> HIDE DEF of, then
<1>5. SumFunction(then) = SumFunction(of) + (then[u] - of[u])
  BY <1>3, <1>4, AccountsAssumption, SumChanges
<1>6. SumFunction(of) \in Int
  BY <1>3, AccountsAssumption, SumType
<1>7. held[k] \in Nat /\ held'[k] \in Nat
  BY StateTypes DEF Inv, TypeOK
<1> QED BY <1>1, <1>2, <1>4, <1>5, <1>6, <1>7 DEF Surplus

\* Where nobody's collateral moves, the sum does not.
LEMMA SurplusOfNone ==
    ASSUME Inv, NEW k \in Markets, held'[k] = held[k],
           \A v \in Accounts : position'[v][k].collateral = position[v][k].collateral
    PROVE  Surplus(k)' = Surplus(k)
<1>1. TotalCollateral(k)' = TotalCollateral(k)
  BY DEF TotalCollateral
<1> QED BY <1>1 DEF Surplus

\* A rewritten debt moves no collateral.
LEMMA RewrittenSurplus ==
    ASSUME Inv, NEW u \in Accounts, NEW m \in Markets, NEW debt, NEW index,
           position' = [position EXCEPT ![u][m] = with_debt(@, debt, index)],
           held' = held, NEW k \in Markets
    PROVE  Surplus(k)' = Surplus(k)
<1>1. \A v \in Accounts : position'[v][k].collateral = position[v][k].collateral
  BY DEF with_debt, Inv, TypeOK, Positions
<1> QED BY <1>1, SurplusOfNone

LEMMA MovedSurplus ==
    ASSUME Inv, Inv', NEW u \in Accounts, NEW m \in Markets, NEW amount \in Amounts,
           DepositCollateral(u, m, amount) \/ WithdrawCollateral(u, m, amount),
           NEW k \in Markets
    PROVE  Surplus(k)' = Surplus(k)
<1>1. /\ position \in [Accounts -> [Markets -> Positions]] /\ held \in [Markets -> Nat]
      /\ amount \in Nat
  BY ControllerAssumption DEF Inv, TypeOK
<1>2. /\ position[u][k].collateral \in Nat /\ held[k] \in Nat
      /\ position[u][m].collateral \in Nat
  BY StateTypes
<1>3. \E delta \in Int :
         /\ \A v \in Accounts : position'[v][k].collateral =
                position[v][k].collateral + (IF v = u /\ k = m THEN delta ELSE 0)
         /\ held'[k] = held[k] + (IF k = m THEN delta ELSE 0)
  <2>1. \A v \in Accounts : position[v][k].collateral \in Nat
    BY StateTypes
  <2>2. CASE DepositCollateral(u, m, amount)
    <3>1. /\ position' = [position EXCEPT ![u][m].collateral = @ + amount]
          /\ held' = [held EXCEPT ![m] = @ + amount]
      BY <2>2 DEF DepositCollateral
    <3>2. \A v \in Accounts : position'[v][k].collateral =
                position[v][k].collateral + (IF v = u /\ k = m THEN amount ELSE 0)
      BY <1>1, <2>1, <3>1 DEF Positions
    <3>3. held'[k] = held[k] + (IF k = m THEN amount ELSE 0)
      BY <1>1, <1>2, <3>1
    <3> QED BY <1>1, <3>2, <3>3
  <2>3. CASE WithdrawCollateral(u, m, amount)
    <3>1. /\ position' = [position EXCEPT ![u] =
                             [position[u] EXCEPT ![m].collateral = @ - amount]]
          /\ held' = [held EXCEPT ![m] = @ - amount]
      BY <1>1, <2>3 DEF WithdrawCollateral, without_collateral
    <3>2. \A v \in Accounts : position'[v][k].collateral =
                position[v][k].collateral + (IF v = u /\ k = m THEN 0 - amount ELSE 0)
      BY <1>1, <2>1, <3>1 DEF Positions
    <3>3. held'[k] = held[k] + (IF k = m THEN 0 - amount ELSE 0)
      BY <1>1, <1>2, <3>1
    <3> QED BY <1>1, <3>2, <3>3
  <2> QED BY <2>2, <2>3
<1>4. \A v \in Accounts \ {u} : position'[v][k].collateral = position[v][k].collateral
  BY <1>3, StateTypes
<1>5. TotalCollateral(k) \in Nat
  BY CollateralType
<1>6. held'[k] - held[k] = position'[u][k].collateral - position[u][k].collateral
  BY <1>2, <1>3
<1>7. /\ position'[u][k].collateral \in Nat /\ held'[k] \in Nat
  BY DEF Inv, TypeOK, Positions, U128
<1>8. Surplus(k)' = Surplus(k) + (held'[k] - held[k])
               - (position'[u][k].collateral - position[u][k].collateral)
  BY <1>4, SurplusOfOne
<1> QED BY <1>2, <1>5, <1>6, <1>7, <1>8 DEF Surplus

\* A repayment makes the principal that is stored smaller, at whatever index it
\* was stored before.
LEMMA RepaidPrincipal ==
    ASSUME NEW principal \in Nat \ {0}, NEW user_index \in Nat, WAD <= user_index,
           NEW index \in Nat, WAD <= index, NEW repaid \in Nat \ {0},
           repaid <= get_actual_debt(principal, user_index, index)
    PROVE  remaining_debt(get_actual_debt(principal, user_index, index) - repaid, index)
               # principal
<1> DEFINE product == principal * index
           actual == product \div user_index
           left == actual - repaid
<1>1. user_index \in Nat \ {0} /\ index \in Nat \ {0}
  BY Scales
<1>2. product \in Nat
  BY MulNat
<1>3. get_actual_debt(principal, user_index, index) = actual
  BY DEF get_actual_debt
<1> HIDE DEF product
<1>4. actual \in Nat /\ actual * user_index <= product
  BY <1>1, <1>2, DivBounds, DivTimes
<1> HIDE DEF actual
<1>5. left \in Nat /\ left < actual
  BY <1>3, <1>4
<1> HIDE DEF left
<1>6. left * WAD < principal * index
  <2>1. left * WAD <= left * user_index
    <3>1. WAD * left <= user_index * left
      BY <1>1, <1>5, MulMono, Scales
    <3>2. WAD * left = left * WAD /\ user_index * left = left * user_index
      BY <1>5, Scales
    <3> QED BY <3>1, <3>2
  <2>2. left * user_index < actual * user_index
    <3>1. (left + 1) * user_index <= actual * user_index
      BY <1>1, <1>4, <1>5, MulMono
    <3>2. (left + 1) * user_index = left * user_index + user_index
      BY <1>1, <1>5
    <3>3. left * user_index \in Nat /\ actual * user_index \in Nat
      BY <1>1, <1>4, <1>5, MulNat
    <3> QED BY <1>1, <3>1, <3>2, <3>3
  <2>3. /\ left * WAD \in Nat /\ left * user_index \in Nat
        /\ actual * user_index \in Nat
    BY <1>1, <1>4, <1>5, MulNat, Scales
  <2> QED BY <1>2, <1>4, <2>1, <2>2, <2>3 DEF product
<1>7. to_scaled_debt(left, index) < principal
  <2> DEFINE scaled == left * WAD
  <2>1. scaled \in Nat /\ scaled < principal * index
    BY <1>5, <1>6, MulNat, Scales
  <2> HIDE DEF scaled
  <2>2. scaled \div index < principal
    BY <1>1, <2>1, DivBelow
  <2> QED BY <2>2 DEF to_scaled_debt, scaled
<1>8. remaining_debt(left, index) # principal
  BY <1>7 DEF remaining_debt
<1> QED BY <1>3, <1>8 DEF left

LEMMA LiquidateSurplus ==
    ASSUME Inv, Inv', NEW l \in Accounts, NEW u \in Accounts,
           NEW d \in Markets, NEW c \in Markets, NEW amount \in Amounts,
           Liquidate(l, u, d, c, amount), NEW k \in Markets
    PROVE  SurplusGained(k) /\ Surplus(k)' >= Surplus(k)
<1> DEFINE index == interest'[d].borrow_index
           debt == debt_owed(position[u], interest', d)
<1>1. PICK repaid \in Nat, seized \in Nat :
         /\ d # c /\ amount \in Nat /\ debt \in Nat
         /\ repaid # 0 /\ repaid <= debt /\ repaid <= amount
         /\ ~SolventAt(position[u], interest')
         /\ seized <= position[u][c].collateral
         /\ position' = [position EXCEPT ![u] =
               liquidated(position[u], d, c, remaining_debt(debt - repaid, index),
                          index, seized)]
         /\ held' = [held EXCEPT ![d] = @ + (amount - repaid), ![c] = @ - seized]
         /\ cash' = [cash EXCEPT ![d] = @ + repaid]
  BY LiquidateFacts
<1>2. /\ position \in [Accounts -> [Markets -> Positions]]
      /\ held \in [Markets -> Nat] /\ cash \in [Markets -> Nat]
  BY DEF Inv, TypeOK
<1>3. position[u][d].debt # 0
  BY DEF Liquidate, LiquidateAt, liquidate_ok
<1>4. position'[u][d].debt # position[u][d].debt
  <2> DEFINE principal == position[u][d].debt
             user_index == position[u][d].user_borrow_index
  <2>1. /\ principal \in Nat /\ user_index \in Nat /\ WAD <= user_index
        /\ index \in Nat /\ WAD <= index
    BY DEF Inv, TypeOK, IndexesOrdered, InterestStates, Positions, U128
  <2>2. debt = get_actual_debt(principal, user_index, index)
    BY DEF debt_owed, debt_at
  <2>3. position'[u] = liquidated(position[u], d, c, remaining_debt(debt - repaid, index),
                                  index, seized)
    BY <1>1, <1>2
  <2> HIDE DEF debt, index
  <2>4. position'[u][d].debt = remaining_debt(debt - repaid, index)
    BY <1>1, <1>2, <2>3, LiquidatedMarkets
  <2> HIDE DEF principal, user_index
  <2>5. principal # 0
    BY <1>3 DEF principal
  <2>6. remaining_debt(debt - repaid, index) # principal
    BY <1>1, <2>1, <2>2, <2>5, RepaidPrincipal
  <2> QED BY <2>4, <2>6 DEF principal
<1> HIDE DEF debt, index
<1>5. /\ position'[u][d].collateral = position[u][d].collateral
      /\ position'[u][c].collateral = saturating_sub(position[u][c].collateral, seized)
      /\ \A j \in Markets \ {c, d} : position'[u][j] = position[u][j]
  <2>1. position'[u] = liquidated(position[u], d, c, remaining_debt(debt - repaid, index),
                                  index, seized)
    BY <1>1, <1>2
  <2> QED BY <1>1, <1>2, <2>1, LiquidatedMarkets
<1>6. position'[u][c].collateral = position[u][c].collateral - seized
  BY <1>1, <1>5, StateTypes DEF saturating_sub
<1>7. /\ TotalCollateral(k) \in Nat /\ held[k] \in Nat /\ position[u][k].collateral \in Nat
      /\ Surplus(k) \in Int
  BY CollateralType, StateTypes DEF Surplus
<1>8. Surplus(k)' = Surplus(k) + (held'[k] - held[k])
               - (position'[u][k].collateral - position[u][k].collateral)
  <2>1. \A v \in Accounts \ {u} : position'[v][k].collateral = position[v][k].collateral
    BY <1>1, <1>2
  <2> QED BY <2>1, SurplusOfOne
<1>9. CASE k = d
  <2>1. held'[d] = held[d] + (amount - repaid) /\ cash'[d] = cash[d] + repaid
    BY <1>1, <1>2
  <2>2. Surplus(d)' = Surplus(d) + (amount - repaid)
    BY <1>1, <1>5, <1>7, <1>8, <1>9, <2>1
  <2>3. cash'[d] > cash[d]
    BY <1>1, <1>2, <2>1
  <2>4. Surplus(d)' >= Surplus(d)
    BY <1>1, <1>7, <1>9, <2>2
  <2>5. Surplus(d)' # Surplus(d) => Surplus(d)' > Surplus(d)
    BY <1>1, <1>7, <1>9, <2>2
  <2> QED BY <1>1, <1>4, <1>9, <2>3, <2>4, <2>5 DEF SurplusGained
<1>10. CASE k # d
  <2>1. held'[k] - held[k] = position'[u][k].collateral - position[u][k].collateral
    <3>1. CASE k = c
      <4>1. held'[c] = held[c] - seized
        BY <1>1, <1>2
      <4> QED BY <1>1, <1>6, <1>7, <3>1, <4>1
    <3>2. CASE k # c
      <4>1. held'[k] = held[k] /\ position'[u][k] = position[u][k]
        BY <1>1, <1>2, <1>5, <1>10, <3>2
      <4> QED BY <1>7, <4>1
    <3> QED BY <3>1, <3>2
  <2>2. position'[u][k].collateral \in Nat
    BY DEF Inv, TypeOK, Positions, U128
  <2>3. Surplus(k)' = Surplus(k)
    BY <1>7, <1>8, <2>1, <2>2
  <2> QED BY <1>7, <2>3 DEF SurplusGained
<1> QED BY <1>9, <1>10

LEMMA NextSurplus ==
    ASSUME Inv, Inv', [Next]_vars, NEW k \in Markets
    PROVE  SurplusGained(k) /\ Surplus(k)' >= Surplus(k)
<1>1. Surplus(k) \in Int
  BY CollateralType DEF Surplus
<1>2. SUFFICES ASSUME Next,
                      ~ \E l, u \in Accounts, d, c \in Markets, amount \in Amounts :
                            Liquidate(l, u, d, c, amount)
               PROVE  Surplus(k)' = Surplus(k)
  <2>1. CASE UNCHANGED vars
    BY <1>1, <2>1, SurplusOfNone DEF vars, SurplusGained
  <2> QED BY <1>1, <1>2, <2>1, LiquidateSurplus DEF SurplusGained
<1>3. CASE Tick \/ \E prices \in PriceVectors : PostPrices(prices)
  BY <1>3, SurplusOfNone DEF Tick, PostPrices
<1>4. ASSUME NEW u \in Accounts, NEW m \in Markets, NEW amount \in Amounts,
             Supply(u, m, amount) \/ Withdraw(u, m, amount)
      PROVE  Surplus(k)' = Surplus(k)
  BY <1>4, SurplusOfNone DEF Supply, SupplyAt, Withdraw, WithdrawAt
<1>5. ASSUME NEW u \in Accounts, NEW m \in Markets, NEW amount \in Amounts,
             Borrow(u, m, amount) \/ Repay(u, m, amount)
      PROVE  Surplus(k)' = Surplus(k)
  <2>1. CASE Borrow(u, m, amount)
    <3>1. /\ held' = held
          /\ \E debt, index : position' = [position EXCEPT ![u][m] = with_debt(@, debt, index)]
      BY <2>1, BorrowFacts
    <3> QED BY <3>1, RewrittenSurplus
  <2>2. CASE Repay(u, m, amount)
    <3>1. /\ held' = held
          /\ \E debt, index : position' = [position EXCEPT ![u][m] = with_debt(@, debt, index)]
      BY <2>2, RepayFacts
    <3> QED BY <3>1, RewrittenSurplus
  <2> QED BY <1>5, <2>1, <2>2
<1> QED BY <1>2, <1>3, <1>4, <1>5, MovedSurplus DEF Next

(***************************************************************************)
(* Tokens nobody is owed come from liquidations only, and stay: a          *)
(* liquidator that attaches more than half of the debt leaves the rest     *)
(* with the contract account (handle_liquidate).                           *)
(***************************************************************************)
THEOREM SurplusOnlyFromLiquidationCorrect == Spec => SurplusOnlyFromLiquidation
<1>1. Inv /\ Inv' /\ [Next]_vars => [\A m \in Markets : SurplusGained(m)]_vars
  BY NextSurplus
<1> QED BY Inductive, <1>1, PTL DEF Spec, SurplusOnlyFromLiquidation

(***************************************************************************)
(* The contract account can always transfer the collateral it owes, all of *)
(* it together, for any number of accounts (handle_withdraw_collateral,    *)
(* handle_liquidate).                                                      *)
(***************************************************************************)
THEOREM CollateralBackedCorrect == Spec => []CollateralBacked
<1>1. Init => CollateralBacked
  <2> SUFFICES ASSUME Init, NEW m \in Markets PROVE TotalCollateral(m) <= held[m]
    BY DEF CollateralBacked
  <2>1. [u \in Accounts |-> position[u][m].collateral] = [u \in Accounts |-> 0]
    BY DEF Init, EmptyPosition
  <2>2. TotalCollateral(m) = 0
    BY <2>1, AccountsAssumption, SumZero DEF TotalCollateral
  <2> QED BY <2>2 DEF Init
<1>2. Inv /\ Inv' /\ CollateralBacked /\ [Next]_vars => CollateralBacked'
  <2> SUFFICES ASSUME Inv, Inv', CollateralBacked, [Next]_vars, NEW m \in Markets
               PROVE  (TotalCollateral(m) <= held[m])'
    BY DEF CollateralBacked
  <2>1. Surplus(m)' >= Surplus(m)
    BY NextSurplus
  <2>2. TotalCollateral(m) \in Nat /\ held[m] \in Nat /\ TotalCollateral(m) <= held[m]
    BY CollateralType DEF CollateralBacked
  <2>3. (Inv => \A k \in Markets : TotalCollateral(k) \in Nat /\ held[k] \in Nat)'
    BY CollateralTypes, PTL
  <2>4. TotalCollateral(m)' \in Nat /\ held'[m] \in Nat
    BY <2>3
  <2> QED BY <2>1, <2>2, <2>4 DEF Surplus
<1> QED BY Inductive, <1>1, <1>2, PTL DEF Spec

(***************************************************************************)
(* Debts, summed over the accounts.                                        *)
(***************************************************************************)
\* What v owes in k before and after a step, at the indexes after it.
OwedThen(v, k) == debt_owed(position[v], interest', k)

LEMMA OwedAfter ==
    ASSUME Inv', NEW v \in Accounts, NEW k \in Markets
    PROVE  owed(v, k)' \in Nat
<1>1. position'[v] \in [Markets -> Positions] /\ WAD <= position'[v][k].user_borrow_index
  BY DEF Inv, TypeOK, IndexesOrdered
<1>2. interest' \in [Markets -> InterestStates]
  BY DEF Inv, TypeOK
<1> QED BY <1>1, <1>2, OwedType DEF owed

\* Where one account's debt is rewritten, the sum of all changes as much.
LEMMA OwedOfOne ==
    ASSUME Inv, Inv', NEW k \in Markets, NEW u \in Accounts,
           \A v \in Accounts \ {u} : owed(v, k)' = OwedThen(v, k)
    PROVE  TotalOwed(interest, k)' - TotalOwed(interest', k) = owed(u, k)' - OwedThen(u, k)
<1> DEFINE before == [v \in Accounts |-> debt_owed(position[v], interest', k)]
           after == [v \in Accounts |-> debt_owed(position'[v], interest', k)]
<1>1. \A v \in Accounts : OwedThen(v, k) \in Nat /\ owed(v, k)' \in Nat
  BY OwedBefore, OwedAfter DEF OwedThen
<1>2. before \in [Accounts -> Int] /\ after \in [Accounts -> Int]
  BY <1>1 DEF OwedThen, owed
<1>3. /\ TotalOwed(interest', k) = SumFunction(before)
      /\ TotalOwed(interest, k)' = SumFunction(after)
  BY DEF TotalOwed
<1>4. /\ \A v \in Accounts : v # u => after[v] = before[v]
      /\ before[u] = OwedThen(u, k) /\ after[u] = owed(u, k)'
  BY DEF OwedThen, owed
<1> HIDE DEF before, after
<1>5. SumFunction(after) = SumFunction(before) + (after[u] - before[u])
  BY <1>2, <1>4, AccountsAssumption, SumChanges
<1>6. SumFunction(before) \in Int
  BY <1>2, AccountsAssumption, SumType
<1> QED BY <1>1, <1>3, <1>4, <1>5, <1>6

\* Where no debt is rewritten, nothing is to be booked.
LEMMA OwedOfNone ==
    ASSUME Inv, Inv', NEW k \in Markets,
           \A v \in Accounts :
              /\ position'[v][k].debt = position[v][k].debt
              /\ position'[v][k].user_borrow_index = position[v][k].user_borrow_index
    PROVE  TotalOwed(interest, k)' - TotalOwed(interest', k) = 0
<1> DEFINE before == [v \in Accounts |-> debt_owed(position[v], interest', k)]
<1>1. \A v \in Accounts : debt_owed(position[v], interest', k) \in Nat
  BY OwedBefore
<1>2. before \in [Accounts -> Int]
  BY <1>1
<1>3. [v \in Accounts |-> debt_owed(position'[v], interest', k)] = before
  BY DEF debt_owed, debt_at
<1>4. /\ TotalOwed(interest', k) = SumFunction(before)
      /\ TotalOwed(interest, k)' = SumFunction(before)
  BY <1>3 DEF TotalOwed
<1> HIDE DEF before
<1>5. SumFunction(before) \in Int
  BY <1>2, AccountsAssumption, SumType
<1> QED BY <1>4, <1>5

(***************************************************************************)
(* The borrows a market has booked when a call comes to book its own.      *)
(***************************************************************************)
LEMMA AccruedNow ==
    ASSUME Inv, NEW m \in Markets
    PROVE  /\ accrued(m).last_update_timestamp = now
           /\ interest[m].last_update_timestamp = now => accrued(m) = interest[m]
<1>1. /\ interest[m] \in InterestStates /\ now \in Nat
      /\ interest[m].last_update_timestamp \in Nat
      /\ interest[m].last_update_timestamp <= now
  BY DEF Inv, TypeOK, IndexesOrdered, InterestStates, U128
<1>2. elapsed(interest[m], now) = now - interest[m].last_update_timestamp
  BY <1>1 DEF elapsed, saturating_sub
<1>3. CASE elapsed(interest[m], now) = 0
  BY <1>1, <1>2, <1>3 DEF accrued, update_interest_indexes
<1>4. CASE elapsed(interest[m], now) # 0
  <2>1. accrued(m) = accrued_state(interest[m], V1_MARKETS[m], now)
    BY <1>4 DEF accrued, update_interest_indexes
  <2>2. accrued(m).last_update_timestamp = now
    BY <2>1 DEF accrued_state
  <2> QED BY <1>1, <1>2, <1>4, <2>2
<1> QED BY <1>3, <1>4

\* In a market that is left alone, or accrued only, no borrows are booked.
LEMMA NothingBooked ==
    ASSUME Inv, Inv', NEW k \in Markets,
           \/ interest'[k] = interest[k]
           \/ /\ interest'[k].last_update_timestamp = accrued(k).last_update_timestamp
              /\ interest'[k].total_borrows = accrued(k).total_borrows,
           \A v \in Accounts :
              /\ position'[v][k].debt = position[v][k].debt
              /\ position'[v][k].user_borrow_index = position[v][k].user_borrow_index
    PROVE  DebtBooked(k)
<1>1. BorrowsBefore(k) = interest'[k].total_borrows
  BY AccruedNow DEF BorrowsBefore
<1>2. interest'[k].total_borrows \in Nat
  BY DEF Inv, TypeOK, InterestStates, U128
<1>3. TotalOwed(interest, k)' - TotalOwed(interest', k) = 0
  BY OwedOfNone
<1> QED BY <1>1, <1>2, <1>3 DEF DebtBooked

LEMMA SupplyBooks ==
    ASSUME Inv, Inv', NEW u \in Accounts, NEW m \in Markets, NEW amount \in Amounts,
           Supply(u, m, amount) \/ Withdraw(u, m, amount), NEW k \in Markets
    PROVE  DebtBooked(k)
<1> DEFINE state == accrued(m)
<1>1. interest \in [Markets -> InterestStates] /\ state \in InterestStates
  BY AccruedMarket DEF Inv, TypeOK, Advanced, Supply, SupplyAt, supply_ok,
                       Withdraw, WithdrawAt, withdraw_ok
<1>2. \E total : interest' = [interest EXCEPT ![m] = [state EXCEPT !.total_supply = total]]
  BY DEF Supply, SupplyAt, Withdraw, WithdrawAt, book_supply, book_withdraw
<1>3. position' = position
  BY DEF Supply, SupplyAt, Withdraw, WithdrawAt
<1> HIDE DEF state
<1>4. /\ k # m => interest'[k] = interest[k]
      /\ interest'[m].last_update_timestamp = state.last_update_timestamp
      /\ interest'[m].total_borrows = state.total_borrows
  BY <1>1, <1>2 DEF InterestStates
<1> QED BY <1>3, <1>4, NothingBooked DEF state

LEMMA CollateralBooks ==
    ASSUME Inv, Inv', NEW u \in Accounts, NEW m \in Markets, NEW amount \in Amounts,
           DepositCollateral(u, m, amount) \/ WithdrawCollateral(u, m, amount),
           NEW k \in Markets
    PROVE  DebtBooked(k)
<1>1. position \in [Accounts -> [Markets -> Positions]]
  BY DEF Inv, TypeOK
<1>2. interest' = interest
  BY DEF DepositCollateral, WithdrawCollateral
<1>3. \E left : position' = [position EXCEPT ![u] = [position[u] EXCEPT ![m] =
                                 [position[u][m] EXCEPT !.collateral = left]]]
  BY <1>1 DEF DepositCollateral, WithdrawCollateral, without_collateral
<1>4. \A v \in Accounts :
         /\ position'[v][k].debt = position[v][k].debt
         /\ position'[v][k].user_borrow_index = position[v][k].user_borrow_index
  BY <1>1, <1>3 DEF Positions
<1> QED BY <1>2, <1>4, NothingBooked

LEMMA BorrowBooks ==
    ASSUME Inv, Inv', NEW u \in Accounts, NEW m \in Markets, NEW amount \in Amounts,
           Borrow(u, m, amount), NEW k \in Markets
    PROVE  DebtBooked(k)
<1> DEFINE state == accrued(m)
<1>1. /\ amount \in Nat /\ can_accrue(m)
      /\ interest'[m] = book_borrow(state, amount)
      /\ \A j \in Markets \ {m} : interest'[j] = interest[j]
      /\ \E debt, index : position' = [position EXCEPT ![u][m] = with_debt(@, debt, index)]
      /\ cash' = [cash EXCEPT ![m] = @ - amount]
  BY BorrowFacts
<1>2. position \in [Accounts -> [Markets -> Positions]] /\ cash \in [Markets -> Nat]
  BY DEF Inv, TypeOK
<1>3. state \in InterestStates
  BY <1>1, AccruedMarket DEF Advanced
<1>4. state.last_update_timestamp = now
  BY AccruedNow
<1> HIDE DEF state
<1>5. CASE k = m
  <2>1. \A v \in Accounts \ {u} : position'[v] = position[v]
    BY <1>1, <1>2
  <2>2. \A v \in Accounts \ {u} : owed(v, m)' = OwedThen(v, m)
    BY <2>1 DEF owed, OwedThen
  <2>3. TotalOwed(interest, m)' - TotalOwed(interest', m) = owed(u, m)' - OwedThen(u, m)
    BY <2>2, OwedOfOne
  <2>4. ChargedFairly(u, m) /\ cash[m] - cash'[m] = amount
    BY <1>1, <1>2, BorrowCharges
  <2>5. owed(u, m)' \in Nat /\ OwedThen(u, m) \in Nat
    BY OwedBefore, OwedAfter DEF OwedThen
  <2>6. owed(u, m)' - OwedThen(u, m) <= amount
    <3>1. position'[u][m] = position[u][m] => owed(u, m)' = OwedThen(u, m)
      BY DEF owed, OwedThen, debt_owed
    <3> QED BY <1>1, <2>4, <2>5, <3>1 DEF ChargedFairly, OwedThen
  <2>7. /\ interest'[m].last_update_timestamp = now
        /\ interest'[m].total_borrows = state.total_borrows + amount
        /\ state.total_borrows \in Nat
    BY <1>1, <1>3, <1>4 DEF book_borrow, InterestStates, U128
  <2>8. BorrowsBefore(m) = state.total_borrows
    BY <2>7 DEF BorrowsBefore, state
  <2>9. interest'[m].total_borrows - BorrowsBefore(m) = amount
    BY <1>1, <2>7, <2>8
  <2> QED BY <1>5, <2>3, <2>6, <2>9 DEF DebtBooked
<1>6. CASE k # m
  <2>1. \A v \in Accounts : position'[v][k] = position[v][k]
    BY <1>1, <1>2, <1>6
  <2> QED BY <1>1, <1>6, <2>1, NothingBooked
<1> QED BY <1>5, <1>6

\* A repayment takes off the borrows of a market no more than off its debts.
LEMMA RepaymentBooks ==
    ASSUME Inv, Inv', NEW u \in Accounts, NEW m \in Markets, NEW repaid \in Nat,
           can_accrue(m), interest'[m] = book_repay(accrued(m), repaid),
           \A v \in Accounts \ {u} : position'[v][m] = position[v][m],
           owed(u, m)' <= OwedThen(u, m) - repaid
    PROVE  DebtBooked(m)
<1> DEFINE state == accrued(m)
<1>1. state \in InterestStates
  BY AccruedMarket DEF Advanced
<1>2. state.last_update_timestamp = now
  BY AccruedNow
<1> HIDE DEF state
<1>3. /\ interest'[m].last_update_timestamp = now
      /\ interest'[m].total_borrows = saturating_sub(state.total_borrows, repaid)
      /\ state.total_borrows \in Nat
  BY <1>1, <1>2 DEF book_repay, InterestStates, U128, state
<1>4. BorrowsBefore(m) = state.total_borrows
  BY <1>3 DEF BorrowsBefore, state
<1>5. interest'[m].total_borrows - BorrowsBefore(m) >= 0 - repaid
  BY <1>3, <1>4 DEF saturating_sub
<1>6. TotalOwed(interest, m)' - TotalOwed(interest', m) = owed(u, m)' - OwedThen(u, m)
  <2>1. \A v \in Accounts \ {u} : owed(v, m)' = OwedThen(v, m)
    BY DEF owed, OwedThen, debt_owed
  <2> QED BY <2>1, OwedOfOne
<1>7. owed(u, m)' \in Nat /\ OwedThen(u, m) \in Nat
  BY OwedBefore, OwedAfter DEF OwedThen
<1>8. interest'[m].total_borrows - BorrowsBefore(m) \in Int
  BY <1>3, <1>4 DEF saturating_sub
<1> QED BY <1>5, <1>6, <1>7, <1>8 DEF DebtBooked

LEMMA RepayBooks ==
    ASSUME Inv, Inv', NEW u \in Accounts, NEW m \in Markets, NEW amount \in Amounts,
           Repay(u, m, amount), NEW k \in Markets
    PROVE  DebtBooked(k)
<1> DEFINE index == interest'[m].borrow_index
           actual == debt_owed(position[u], interest', m)
           repaid == repayment(amount, actual)
<1>1. /\ amount \in Nat /\ can_accrue(m)
      /\ interest'[m] = book_repay(accrued(m), repaid)
      /\ \A j \in Markets \ {m} : interest'[j] = interest[j]
      /\ position' = [position EXCEPT ![u][m] =
                          with_debt(@, remaining_debt(actual - repaid, index), index)]
  BY RepayFacts
<1>2. position \in [Accounts -> [Markets -> Positions]]
  BY DEF Inv, TypeOK
<1>3. actual \in Nat
  BY OwedBefore
<1> HIDE DEF actual, index
<1>4. repaid \in Nat /\ actual - repaid \in Nat
  BY <1>1, <1>3 DEF repayment, Min2
<1> HIDE DEF repaid
<1>5. CASE k = m
  <2>1. /\ position'[u][m].debt = remaining_debt(actual - repaid, index)
        /\ position'[u][m].user_borrow_index = index
    BY <1>1, <1>2 DEF with_debt, Positions
  <2>2. owed(u, m)' <= OwedThen(u, m) - repaid
    BY <1>4, <2>1, RemainingOwes DEF index, actual, OwedThen
  <2>3. \A v \in Accounts \ {u} : position'[v][m] = position[v][m]
    BY <1>1, <1>2
  <2> QED BY <1>1, <1>4, <1>5, <2>2, <2>3, RepaymentBooks
<1>6. CASE k # m
  <2>1. \A v \in Accounts : position'[v][k] = position[v][k]
    BY <1>1, <1>2, <1>6
  <2> QED BY <1>1, <1>6, <2>1, NothingBooked
<1> QED BY <1>5, <1>6

LEMMA LiquidateBooks ==
    ASSUME Inv, Inv', NEW l \in Accounts, NEW u \in Accounts,
           NEW d \in Markets, NEW c \in Markets, NEW amount \in Amounts,
           Liquidate(l, u, d, c, amount), NEW k \in Markets
    PROVE  DebtBooked(k)
<1> DEFINE index == interest'[d].borrow_index
           debt == debt_owed(position[u], interest', d)
           states == LiquidationStates(d, c)
<1>1. PICK repaid \in Nat, seized \in Nat :
         /\ d # c /\ debt \in Nat /\ repaid <= debt
         /\ position' = [position EXCEPT ![u] =
               liquidated(position[u], d, c, remaining_debt(debt - repaid, index),
                          index, seized)]
         /\ interest' = [states EXCEPT ![d] = book_repay(states[d], repaid)]
  BY LiquidateFacts
<1>2. /\ position \in [Accounts -> [Markets -> Positions]]
      /\ interest \in [Markets -> InterestStates]
  BY DEF Inv, TypeOK
<1>3. can_accrue(d) /\ can_accrue(c)
  BY DEF Liquidate, LiquidateAt, liquidate_ok
<1>4. /\ states \in [Markets -> InterestStates]
      /\ states[d] = accrued(d) /\ states[c] = accrued(c)
      /\ \A j \in Markets \ {c, d} : states[j] = interest[j]
  <2>1. states \in [Markets -> InterestStates]
    BY <1>1, <1>3, LiquidationStatesAdvance
  <2> QED BY <1>1, <1>2, <2>1 DEF LiquidationStates
<1> HIDE DEF debt, index, states
<1>5. /\ interest'[d] = book_repay(accrued(d), repaid)
      /\ interest'[c] = accrued(c)
      /\ \A j \in Markets \ {c, d} : interest'[j] = interest[j]
  BY <1>1, <1>4
<1>6. /\ position'[u][d].debt = remaining_debt(debt - repaid, index)
      /\ position'[u][d].user_borrow_index = index
      /\ position'[u][c].debt = position[u][c].debt
      /\ position'[u][c].user_borrow_index = position[u][c].user_borrow_index
      /\ \A j \in Markets \ {c, d} : position'[u][j] = position[u][j]
  <2>1. position'[u] = liquidated(position[u], d, c, remaining_debt(debt - repaid, index),
                                  index, seized)
    BY <1>1, <1>2
  <2> QED BY <1>1, <1>2, <2>1, LiquidatedMarkets
<1>7. \A v \in Accounts \ {u} : position'[v] = position[v]
  BY <1>1, <1>2
<1>8. CASE k = d
  <2>1. owed(u, d)' <= OwedThen(u, d) - repaid
    <3>1. debt - repaid \in Nat /\ debt = OwedThen(u, d)
      BY <1>1 DEF debt, OwedThen
    <3>2. owed(u, d)' <= debt - repaid
      BY <1>6, <3>1, RemainingOwes DEF index
    <3> QED BY <3>1, <3>2
  <2> QED BY <1>3, <1>5, <1>7, <1>8, <2>1, RepaymentBooks
<1>9. CASE k # d
  <2>1. \A v \in Accounts :
           /\ position'[v][k].debt = position[v][k].debt
           /\ position'[v][k].user_borrow_index = position[v][k].user_borrow_index
    BY <1>6, <1>7, <1>9
  <2> QED BY <1>5, <1>9, <2>1, NothingBooked
<1> QED BY <1>8, <1>9

LEMMA NextBooks ==
    ASSUME Inv, Inv', [Next]_vars
    PROVE  [\A m \in Markets : DebtBooked(m)]_vars
<1>1. SUFFICES ASSUME Next, NEW k \in Markets
               PROVE  DebtBooked(k)
  OBVIOUS
<1>2. CASE Tick \/ \E prices \in PriceVectors : PostPrices(prices)
  BY <1>2, NothingBooked DEF Tick, PostPrices
<1> QED BY <1>1, <1>2, SupplyBooks, CollateralBooks, BorrowBooks, RepayBooks,
           LiquidateBooks DEF Next

(***************************************************************************)
(* Calls keep total_borrows up with the debts they make and take, for any  *)
(* number of borrowers: what the two drift apart by comes from accruals    *)
(* alone, which round the market and each account on their own.            *)
(***************************************************************************)
THEOREM DebtsBookedCorrect == Spec => DebtsBooked
<1>1. Inv /\ Inv' /\ [Next]_vars => [\A m \in Markets : DebtBooked(m)]_vars
  BY NextBooks
<1> QED BY Inductive, <1>1, PTL DEF Spec, DebtsBooked

(***************************************************************************)
(* Collateral leaves a position that stays covered.  A health factor of    *)
(* 1.0 means covered, unless wad_ratio has rounded up to it: its second    *)
(* branch divides remainder and denominator by the same scale.             *)
(***************************************************************************)

\* If u is under water at the given states, it is so by more than the scale at
\* which wad_ratio divides: one part in U128_MAX / WAD, some 10^20.
ClearAt(u, states) ==
    LET actual   == actual_position(position[u], states)
        prices   == get_all_prices(feed)
        weighted == weighted_collateral(actual, prices, thresholds(V1_MARKETS))
        debt     == total_debt_usd(actual, prices)
    IN  weighted < debt =>
            Fits(weighted * WAD) \/ weighted + ratio_scale(weighted) <= debt

ClearBooks == \A u \in Accounts : ClearAt(u, interest)

\* A position that passes the check of health is covered.
LEMMA HealthyCovered ==
    ASSUME Inv, NEW u \in Accounts, ClearAt(u, interest),
           NEW actual, actual = actual_position(position[u], interest),
           NEW prices, prices = get_all_prices(feed),
           ~is_liquidatable(calculate_health_factor(actual, prices, V1_MARKETS))
    PROVE  SolventAt(position[u], interest)
<1> DEFINE weighted == weighted_collateral(actual, prices, thresholds(V1_MARKETS))
           debt == total_debt_usd(actual, prices)
<1>1. /\ position[u] \in [Markets -> Positions]
      /\ interest \in [Markets -> InterestStates]
      /\ \A m \in Markets : WAD <= position[u][m].user_borrow_index
  BY DEF Inv, TypeOK, IndexesOrdered
<1>2. \A m \in Markets : /\ actual[m].debt = debt_owed(position[u], interest, m)
                         /\ debt_owed(position[u], interest, m) \in Nat
                         /\ actual[m].collateral = position[u][m].collateral
  BY <1>1, ActualFields, OwedType
<1>3. \A m \in Markets : position[u][m].collateral \in Nat
  BY StateTypes
<1>4. prices \in [Markets -> Nat] /\ thresholds(V1_MARKETS) \in [Markets -> Nat]
  BY ControllerAssumption, PricesType DEF thresholds, MarketConfigs
<1>5. debt \in Nat /\ weighted \in Nat
  BY <1>2, <1>3, <1>4, TotalDebtType, WeightedType
<1>6. SUFFICES ASSUME weighted < debt
               PROVE  FALSE
  BY <1>5 DEF SolventAt
<1>7. Fits(weighted * WAD) \/ weighted + ratio_scale(weighted) <= debt
  BY <1>6 DEF ClearAt
<1>8. calculate_health_factor(actual, prices, V1_MARKETS)
          = IF debt = 0 THEN U128_MAX ELSE wad_ratio(weighted, debt)
  BY DEF calculate_health_factor
<1> HIDE DEF weighted, debt
<1>9. wad_ratio(weighted, debt) < WAD
  BY <1>5, <1>6, <1>7, RatioBelowOne
<1> QED BY <1>5, <1>6, <1>8, <1>9 DEF is_liquidatable

\* How u's collateral in c may shrink.
CollateralLeft(u, c) ==
    position'[u][c].collateral < position[u][c].collateral =>
        \/ /\ cash' = cash
           /\ wallet'[u][c] > wallet[u][c]
           /\ SolventAt(position[u], interest)'
        \/ /\ ~SolventAt(position[u], interest')
           /\ \E d \in Markets \ {c} : cash'[d] > cash[d]

HealthyIsCovered ==
    \A u \in Accounts :
        ~is_liquidatable(calculate_health_factor(
             actual_position(position[u], interest), get_all_prices(feed), V1_MARKETS))
        => SolventAt(position[u], interest)

LEMMA HealthyAreCovered == Inv /\ ClearBooks => HealthyIsCovered
  BY HealthyCovered DEF ClearBooks, HealthyIsCovered

\* The owner takes collateral out.
LEMMA WithdrawalLeaves ==
    ASSUME Inv, Inv', ClearBooks', NEW u \in Accounts, NEW m \in Markets, NEW amount \in Amounts,
           WithdrawCollateral(u, m, amount), NEW v \in Accounts, NEW c \in Markets
    PROVE  CollateralLeft(v, c)
<1> DEFINE post == without_collateral(position[u], m, amount)
           actual == actual_position(post, interest)
<1>1. /\ amount \in Nat /\ amount > 0
      /\ ~is_liquidatable(calculate_health_factor(actual, get_all_prices(feed), V1_MARKETS))
      /\ position' = [position EXCEPT ![u] = post]
      /\ wallet' = [wallet EXCEPT ![u][m] = @ + amount]
      /\ UNCHANGED <<feed, interest, cash>>
  BY ControllerAssumption DEF WithdrawCollateral, withdraw_collateral_ok
<1>2. /\ position \in [Accounts -> [Markets -> Positions]]
      /\ wallet \in [Accounts -> [Markets -> Nat]]
  BY DEF Inv, TypeOK
<1>3. post = [position[u] EXCEPT ![m].collateral = @ - amount]
  BY DEF without_collateral
<1>4. position'[u] = post
  BY <1>1, <1>2
<1>5. SolventAt(position[u], interest)'
  <2>1. (Inv /\ ClearBooks => HealthyIsCovered)'
    BY HealthyAreCovered, PTL
  <2>2. ~is_liquidatable(calculate_health_factor(
             actual_position(position'[u], interest'), get_all_prices(feed'), V1_MARKETS))
    BY <1>1, <1>4
  <2> QED BY <2>1, <2>2 DEF HealthyIsCovered
<1>6. CASE v = u /\ c = m
  <2>1. wallet'[u][m] > wallet[u][m]
    BY <1>1, <1>2
  <2> QED BY <1>1, <1>5, <1>6, <2>1 DEF CollateralLeft
<1>7. CASE ~(v = u /\ c = m)
  <2> HIDE DEF post
  <2>1. position'[v][c].collateral = position[v][c].collateral
    BY <1>1, <1>2, <1>3, <1>7 DEF Positions
  <2>2. position[v][c].collateral \in Nat
    BY StateTypes
  <2> QED BY <2>1, <2>2 DEF CollateralLeft
<1> QED BY <1>6, <1>7

\* No collateral of anyone shrinks.
LEMMA NothingLeaves ==
    ASSUME Inv, NEW v \in Accounts, NEW c \in Markets,
           \/ position'[v][c].collateral = position[v][c].collateral
           \/ position'[v][c].collateral \in Nat
              /\ position'[v][c].collateral >= position[v][c].collateral
    PROVE  CollateralLeft(v, c)
<1>1. position[v][c].collateral \in Nat
  BY StateTypes
<1> QED BY <1>1 DEF CollateralLeft

LEMMA OthersLeaveCollateral ==
    ASSUME Inv, Inv', NEW u \in Accounts, NEW m \in Markets, NEW amount \in Amounts,
           \/ Supply(u, m, amount) \/ Withdraw(u, m, amount)
           \/ DepositCollateral(u, m, amount)
           \/ Borrow(u, m, amount) \/ Repay(u, m, amount),
           NEW v \in Accounts, NEW c \in Markets
    PROVE  CollateralLeft(v, c)
<1>1. CASE Supply(u, m, amount) \/ Withdraw(u, m, amount)
  BY <1>1, NothingLeaves DEF Supply, SupplyAt, Withdraw, WithdrawAt
<1>2. CASE DepositCollateral(u, m, amount)
  <2>1. /\ position' = [position EXCEPT ![u][m].collateral = @ + amount] /\ amount \in Nat
        /\ position \in [Accounts -> [Markets -> Positions]]
    BY <1>2, ControllerAssumption DEF DepositCollateral, Inv, TypeOK
  <2>2. position[v][c].collateral \in Nat /\ position[v][c] \in Positions
    BY <2>1, StateTypes
  <2>3. position'[v][c].collateral \in Nat
        /\ position'[v][c].collateral >= position[v][c].collateral
    BY <2>1, <2>2 DEF Positions
  <2> QED BY <2>3, NothingLeaves
<1>3. ASSUME NEW debt, NEW index,
             position' = [position EXCEPT ![u][m] = with_debt(@, debt, index)]
      PROVE  CollateralLeft(v, c)
  <2>1. position'[v][c].collateral = position[v][c].collateral
    BY <1>3 DEF with_debt, Inv, TypeOK, Positions
  <2> QED BY <2>1, NothingLeaves
<1>4. CASE Borrow(u, m, amount)
  BY <1>3, <1>4, BorrowFacts
<1>5. CASE Repay(u, m, amount)
  BY <1>3, <1>5, RepayFacts
<1> QED BY <1>1, <1>2, <1>4, <1>5

\* A liquidation seizes collateral of one position, against its debt.
LEMMA LiquidationLeaves ==
    ASSUME Inv, NEW l \in Accounts, NEW u \in Accounts,
           NEW d \in Markets, NEW c \in Markets, NEW amount \in Amounts,
           Liquidate(l, u, d, c, amount), NEW v \in Accounts, NEW k \in Markets
    PROVE  CollateralLeft(v, k)
<1> DEFINE index == interest'[d].borrow_index
           debt == debt_owed(position[u], interest', d)
<1>1. PICK repaid \in Nat, seized \in Nat :
         /\ d # c /\ repaid # 0
         /\ ~SolventAt(position[u], interest')
         /\ position' = [position EXCEPT ![u] =
               liquidated(position[u], d, c, remaining_debt(debt - repaid, index),
                          index, seized)]
         /\ cash' = [cash EXCEPT ![d] = @ + repaid]
  BY LiquidateFacts
<1>2. /\ position \in [Accounts -> [Markets -> Positions]]
      /\ cash \in [Markets -> Nat]
  BY DEF Inv, TypeOK
<1> DEFINE post == liquidated(position[u], d, c, remaining_debt(debt - repaid, index),
                              index, seized)
<1>3. position[u] \in [Markets -> Positions]
  BY <1>2
<1>4. \A j \in Markets \ {c} : post[j].collateral = position[u][j].collateral
  BY <1>1, <1>3, LiquidatedMarkets
<1> HIDE DEF post
<1>5. CASE v = u /\ k = c
  <2>1. cash'[d] > cash[d]
    BY <1>1, <1>2
  <2> QED BY <1>1, <1>5, <2>1 DEF CollateralLeft
<1>6. CASE ~(v = u /\ k = c)
  <2>1. position'[v][k].collateral = position[v][k].collateral
    BY <1>1, <1>2, <1>4, <1>6 DEF post
  <2> QED BY <2>1, NothingLeaves
<1> QED BY <1>5, <1>6

LEMMA NextLeavesCollateral ==
    ASSUME Inv, Inv', ClearBooks', [Next]_vars
    PROVE  [\A u \in Accounts, c \in Markets : CollateralLeft(u, c)]_vars
<1>1. SUFFICES ASSUME Next, NEW v \in Accounts, NEW k \in Markets
               PROVE  CollateralLeft(v, k)
  OBVIOUS
<1>2. CASE Tick \/ \E prices \in PriceVectors : PostPrices(prices)
  BY <1>2, NothingLeaves DEF Tick, PostPrices
<1> QED BY <1>1, <1>2, WithdrawalLeaves, OthersLeaveCollateral, LiquidationLeaves DEF Next

(***************************************************************************)
(* Collateral leaves a position in two ways only: withdrawn by its owner,  *)
(* who stays covered at the indexes booked, or seized from a position that *)
(* is not covered, against a repayment of its debt                         *)
(* (handle_withdraw_collateral, handle_liquidate).  ClearBooks leaves out  *)
(* only positions as close to 1.0 as wad_ratio is exact.                   *)
(***************************************************************************)
THEOREM CollateralLeavesSafelyCorrect ==
    Spec /\ []ClearBooks => CollateralLeavesSafely
<1>1. Inv /\ Inv' /\ ClearBooks' /\ [Next]_vars
         => [\A u \in Accounts, c \in Markets :
               position'[u][c].collateral < position[u][c].collateral =>
                 \/ /\ cash' = cash
                    /\ wallet'[u][c] > wallet[u][c]
                    /\ SolventAt(position[u], interest)'
                 \/ /\ ~SolventAt(position[u], interest')
                    /\ \E d \in Markets \ {c} : cash'[d] > cash[d]]_vars
  BY NextLeavesCollateral DEF CollateralLeft
<1> QED BY Inductive, <1>1, PTL DEF Spec, CollateralLeavesSafely
=============================================================================
