---------------------------- MODULE LendingProofs ----------------------------
(***************************************************************************)
(* Safety of the lending controller for every set of accounts, amounts and *)
(* prices, every scale and every market configuration.                     *)
(*                                                                         *)
(* Inv is inductive.  CashBacked needs the types, since an amount booked   *)
(* has to be a number; the types need the guards that precede every        *)
(* division; and the order of the indexes needs that a market advances.    *)
(***************************************************************************)
EXTENDS LendingProperties, ArithmeticLemmas

Inv == TypeOK /\ CashBacked /\ IndexesOrdered

(***************************************************************************)
(* Initial states.                                                         *)
(***************************************************************************)
LEMMA InitInv == Init => Inv
<1> SUFFICES ASSUME Init PROVE Inv
  OBVIOUS
<1> USE Scales
<1>1. FreshInterest \in InterestStates
  BY DEF FreshInterest, InterestStates
<1>2. EmptyPosition \in Positions
  BY DEF EmptyPosition, Positions
<1>3. NoPrices \in Feeds
  BY DEF NoPrices, Feeds
<1>4. TypeOK
  BY <1>1, <1>2, <1>3, ControllerAssumption DEF Init, TypeOK
<1>5. CashBacked
  BY DEF Init, CashBacked, FreshInterest
<1>6. IndexesOrdered
  BY DEF Init, IndexesOrdered, FreshInterest, EmptyPosition
<1> QED BY <1>4, <1>5, <1>6 DEF Inv

(***************************************************************************)
(* What the state holds.                                                   *)
(***************************************************************************)
LEMMA StateTypes ==
    ASSUME Inv, NEW m \in Markets, NEW u \in Accounts
    PROVE  /\ now \in Nat /\ V1_MARKETS[m] \in MarketConfigs
           /\ interest[m] \in InterestStates
           /\ interest[m].total_supply \in Nat
           /\ interest[m].total_supply = cash[m]
           /\ position[u] \in [Markets -> Positions]
           /\ position[u][m].collateral \in Nat /\ position[u][m].debt \in Nat
           /\ position[u][m].user_borrow_index \in Nat
           /\ shares[u][m] \in Nat /\ wallet[u][m] \in Nat
           /\ held[m] \in Nat /\ cash[m] \in Nat
  BY ControllerAssumption
  DEF Inv, TypeOK, CashBacked, InterestStates, Positions, U128

(***************************************************************************)
(* Accrual of one market of the state.                                     *)
(***************************************************************************)
\* What an accrual, or none, may make of a market's state.
Advanced(state, m) ==
    /\ state \in InterestStates
    /\ state.borrow_index >= interest[m].borrow_index
    /\ state.supply_index >= interest[m].supply_index
    /\ state.last_update_timestamp >= interest[m].last_update_timestamp
    /\ state.last_update_timestamp <= now

LEMMA AccruedMarket ==
    ASSUME Inv, NEW m \in Markets, can_accrue(m)
    PROVE  Advanced(accrued(m), m) /\ accrued(m).total_supply = cash[m]
<1>1. /\ interest[m] \in InterestStates /\ V1_MARKETS[m] \in MarketConfigs
      /\ now \in Nat /\ interest[m].total_supply = cash[m]
      /\ interest[m].last_update_timestamp <= now
  BY ControllerAssumption DEF Inv, TypeOK, CashBacked, IndexesOrdered
<1> QED BY <1>1, AccrualCorrect DEF can_accrue, accrued, Advanced

LEMMA CurrentMarket ==
    ASSUME Inv, NEW m \in Markets
    PROVE  Advanced(interest[m], m) /\ interest[m].total_supply = cash[m]
  BY DEF Inv, TypeOK, CashBacked, IndexesOrdered, Advanced, InterestStates, U128

(***************************************************************************)
(* Every handler replaces the states of markets by advanced ones, and      *)
(* leaves positions at old indexes or at the index of their market.        *)
(***************************************************************************)
LEMMA OrderKept ==
    ASSUME Inv, now' = now,
           interest' \in [Markets -> InterestStates],
           position' \in [Accounts -> [Markets -> Positions]],
           \A m \in Markets : Advanced(interest'[m], m),
           \A u \in Accounts, m \in Markets :
              \/ position'[u][m].user_borrow_index
                    = position[u][m].user_borrow_index
              \/ position'[u][m].user_borrow_index = interest'[m].borrow_index
    PROVE  IndexesOrdered' /\ MarketsAdvance
<1> USE Scales
<1>1. ASSUME NEW m \in Markets
      PROVE  /\ WAD <= interest'[m].supply_index
             /\ WAD <= interest'[m].borrow_index
             /\ interest[m].borrow_index <= interest'[m].borrow_index
             /\ interest[m].supply_index <= interest'[m].supply_index
             /\ interest'[m].last_update_timestamp <= now'
             /\ interest'[m].last_update_timestamp
                   \in interest[m].last_update_timestamp .. now
  BY DEF Inv, TypeOK, IndexesOrdered, Advanced, InterestStates, U128
<1>2. ASSUME NEW u \in Accounts, NEW m \in Markets
      PROVE  /\ WAD <= position'[u][m].user_borrow_index
             /\ position'[u][m].user_borrow_index <= interest'[m].borrow_index
  <2>1. /\ interest[m].borrow_index \in Nat /\ interest'[m].borrow_index \in Nat
        /\ position[u][m].user_borrow_index \in Nat
        /\ WAD <= position[u][m].user_borrow_index
        /\ position[u][m].user_borrow_index <= interest[m].borrow_index
    BY DEF Inv, TypeOK, IndexesOrdered, InterestStates, Positions, U128
  <2> QED BY <1>1, <2>1
<1> QED BY <1>1, <1>2 DEF IndexesOrdered, MarketsAdvance

(***************************************************************************)
(* One lemma per action.                                                   *)
(***************************************************************************)
LEMMA SupplyStep ==
    ASSUME Inv, NEW u \in Accounts, NEW m \in Markets, NEW amount \in Amounts,
           Supply(u, m, amount)
    PROVE  Inv' /\ MarketsAdvance
<1> DEFINE state == accrued(m)
           mint == wad_div(amount, state.supply_index)
           booked == book_supply(state, amount)
<1>1. /\ amount \in Nat /\ amount <= wallet[u][m] /\ can_accrue(m)
      /\ wad_div_ok(amount, state.supply_index)
      /\ shares[u][m] + mint <= U128_MAX
      /\ state.total_supply + amount <= U128_MAX
      /\ shares' = [shares EXCEPT ![u][m] = @ + mint]
      /\ interest' = [interest EXCEPT ![m] = booked]
      /\ wallet' = [wallet EXCEPT ![u][m] = @ - amount]
      /\ cash' = [cash EXCEPT ![m] = @ + amount]
      /\ UNCHANGED <<now, feed, position, held>>
  BY ControllerAssumption DEF Supply, SupplyAt, supply_ok, minted, attached, Fits
<1>2. Advanced(state, m) /\ state.total_supply = cash[m]
  BY <1>1, AccruedMarket
<1> HIDE DEF state
<1>3. mint \in Nat
  <2>1. state.supply_index \in Nat
    BY <1>2 DEF Advanced, InterestStates, U128
  <2> QED BY <1>1, <2>1, WadDivType DEF U128
<1>4. /\ Advanced(booked, m) /\ booked \in InterestStates
      /\ booked.total_supply = cash[m] + amount
  BY <1>1, <1>2, Scales DEF Advanced, InterestStates, U128, book_supply
<1> HIDE DEF mint, booked
<1>5. TypeOK'
  BY <1>1, <1>3, <1>4, Scales DEF Inv, TypeOK, U128
<1>6. CashBacked'
  BY <1>1, <1>4 DEF Inv, TypeOK, CashBacked
<1>7. IndexesOrdered' /\ MarketsAdvance
  BY <1>1, <1>4, <1>5, CurrentMarket, OrderKept DEF Inv, TypeOK
<1> QED BY <1>5, <1>6, <1>7 DEF Inv

LEMMA WithdrawStep ==
    ASSUME Inv, NEW u \in Accounts, NEW m \in Markets, NEW burned \in Amounts,
           Withdraw(u, m, burned)
    PROVE  Inv' /\ MarketsAdvance
<1> DEFINE state == accrued(m)
           amount == wad_mul(burned, state.supply_index)
           booked == book_withdraw(state, amount)
<1>1. /\ burned \in Nat /\ burned <= shares[u][m] /\ can_accrue(m)
      /\ amount <= state.total_supply /\ amount <= cash[m]
      /\ shares' = [shares EXCEPT ![u][m] = @ - burned]
      /\ interest' = [interest EXCEPT ![m] = booked]
      /\ wallet' = [wallet EXCEPT ![u][m] = @ + amount]
      /\ cash' = [cash EXCEPT ![m] = @ - amount]
      /\ UNCHANGED <<now, feed, position, held>>
  BY ControllerAssumption DEF Withdraw, WithdrawAt, withdraw_ok, redeemed
<1>2. Advanced(state, m) /\ state.total_supply = cash[m]
  BY <1>1, AccruedMarket
<1> HIDE DEF state
<1>3. amount \in Nat
  <2>1. state.supply_index \in Nat
    BY <1>2 DEF Advanced, InterestStates, U128
  <2> QED BY <1>1, <2>1, WadMulType
<1> HIDE DEF amount
<1>4. /\ Advanced(booked, m) /\ booked \in InterestStates
      /\ booked.total_supply = cash[m] - amount
  BY <1>1, <1>2, <1>3, Scales DEF Advanced, InterestStates, U128, book_withdraw
<1> HIDE DEF booked
<1>5. TypeOK'
  BY <1>1, <1>3, <1>4, Scales DEF Inv, TypeOK, U128
<1>6. CashBacked'
  BY <1>1, <1>4 DEF Inv, TypeOK, CashBacked
<1>7. IndexesOrdered' /\ MarketsAdvance
  BY <1>1, <1>4, <1>5, CurrentMarket, OrderKept DEF Inv, TypeOK
<1> QED BY <1>5, <1>6, <1>7 DEF Inv

LEMMA DepositCollateralStep ==
    ASSUME Inv, NEW u \in Accounts, NEW m \in Markets, NEW amount \in Amounts,
           DepositCollateral(u, m, amount)
    PROVE  Inv' /\ MarketsAdvance
<1>1. /\ amount \in Nat /\ amount <= wallet[u][m]
      /\ position[u][m].collateral + amount <= U128_MAX
      /\ position' = [position EXCEPT ![u][m].collateral = @ + amount]
      /\ wallet' = [wallet EXCEPT ![u][m] = @ - amount]
      /\ held' = [held EXCEPT ![m] = @ + amount]
      /\ UNCHANGED <<now, feed, interest, shares, cash>>
  BY ControllerAssumption DEF DepositCollateral, deposit_ok, attached, Fits
<1>2. position' \in [Accounts -> [Markets -> Positions]]
  <2> DEFINE pos == position[u][m]
             moved == [pos EXCEPT !.collateral = @ + amount]
  <2>1. pos \in Positions /\ pos.collateral + amount \in U128
    BY <1>1, Scales DEF Inv, TypeOK, Positions, U128
  <2>2. position' = [position EXCEPT ![u] = [position[u] EXCEPT ![m] = moved]]
    BY <1>1 DEF Inv, TypeOK
  <2> HIDE DEF pos
  <2>3. moved \in Positions
    BY <2>1 DEF Positions
  <2> HIDE DEF moved
  <2> QED BY <2>2, <2>3 DEF Inv, TypeOK
<1>3. TypeOK'
  BY <1>1, <1>2, Scales DEF Inv, TypeOK
<1>4. CashBacked'
  BY <1>1 DEF Inv, CashBacked
<1>5. \A v \in Accounts, k \in Markets :
         position'[v][k].user_borrow_index = position[v][k].user_borrow_index
  BY <1>1 DEF Inv, TypeOK, Positions
<1>6. IndexesOrdered' /\ MarketsAdvance
  BY <1>1, <1>3, <1>5, CurrentMarket, OrderKept DEF TypeOK
<1> QED BY <1>3, <1>4, <1>6 DEF Inv

LEMMA WithdrawCollateralStep ==
    ASSUME Inv, NEW u \in Accounts, NEW m \in Markets, NEW amount \in Amounts,
           WithdrawCollateral(u, m, amount)
    PROVE  Inv' /\ MarketsAdvance
<1>1. /\ amount \in Nat /\ amount <= position[u][m].collateral
      /\ amount <= held[m]
      /\ position' = [position EXCEPT ![u] =
                         [position[u] EXCEPT ![m].collateral = @ - amount]]
      /\ wallet' = [wallet EXCEPT ![u][m] = @ + amount]
      /\ held' = [held EXCEPT ![m] = @ - amount]
      /\ UNCHANGED <<now, feed, interest, shares, cash>>
  BY ControllerAssumption DEF WithdrawCollateral, withdraw_collateral_ok, without_collateral
<1>2. position' \in [Accounts -> [Markets -> Positions]]
  <2> DEFINE pos == position[u][m]
             moved == [pos EXCEPT !.collateral = @ - amount]
  <2>1. pos \in Positions /\ pos.collateral - amount \in U128
    BY <1>1, Scales DEF Inv, TypeOK, Positions, U128
  <2>2. position' = [position EXCEPT ![u] = [position[u] EXCEPT ![m] = moved]]
    BY <1>1 DEF Inv, TypeOK
  <2> HIDE DEF pos
  <2>3. moved \in Positions
    BY <2>1 DEF Positions
  <2> HIDE DEF moved
  <2> QED BY <2>2, <2>3 DEF Inv, TypeOK
<1>3. TypeOK'
  BY <1>1, <1>2, Scales DEF Inv, TypeOK
<1>4. CashBacked'
  BY <1>1 DEF Inv, CashBacked
<1>5. \A v \in Accounts, k \in Markets :
         position'[v][k].user_borrow_index = position[v][k].user_borrow_index
  BY <1>1 DEF Inv, TypeOK, Positions
<1>6. IndexesOrdered' /\ MarketsAdvance
  BY <1>1, <1>3, <1>5, CurrentMarket, OrderKept DEF TypeOK
<1> QED BY <1>3, <1>4, <1>6 DEF Inv

LEMMA TickStep ==
    ASSUME Inv, Tick
    PROVE  Inv' /\ MarketsAdvance
<1>1. now' = now + 1 /\ now \in Nat
      /\ UNCHANGED <<feed, interest, position, shares, wallet, held, cash>>
  BY DEF Tick, Inv, TypeOK
<1>2. TypeOK' /\ CashBacked'
  BY <1>1 DEF Inv, TypeOK, CashBacked
<1>3. \A m \in Markets :
         /\ interest[m].last_update_timestamp \in Nat
         /\ interest[m].last_update_timestamp <= now
         /\ interest[m].borrow_index \in Nat /\ interest[m].supply_index \in Nat
  BY DEF Inv, TypeOK, IndexesOrdered, InterestStates, U128
<1>4. IndexesOrdered' /\ MarketsAdvance
  BY <1>1, <1>3 DEF Inv, IndexesOrdered, MarketsAdvance
<1> QED BY <1>2, <1>4 DEF Inv

LEMMA PostPricesStep ==
    ASSUME Inv, NEW prices \in PriceVectors, PostPrices(prices)
    PROVE  Inv' /\ MarketsAdvance
<1>1. /\ feed' = [prices |-> prices, last_update_time |-> now]
      /\ UNCHANGED <<now, interest, position, shares, wallet, held, cash>>
  BY DEF PostPrices
<1>2. feed' \in Feeds
  BY <1>1, ControllerAssumption DEF Inv, TypeOK, Feeds
<1>3. TypeOK' /\ CashBacked'
  BY <1>1, <1>2 DEF Inv, TypeOK, CashBacked
<1>4. IndexesOrdered' /\ MarketsAdvance
  BY <1>1, <1>3, CurrentMarket, OrderKept DEF TypeOK
<1> QED BY <1>3, <1>4 DEF Inv

LEMMA StutterStep ==
    ASSUME Inv, UNCHANGED vars
    PROVE  Inv'
  BY DEF Inv, TypeOK, CashBacked, IndexesOrdered, vars

(***************************************************************************)
(* Debts with their interest.                                              *)
(***************************************************************************)
LEMMA ActualPositionType ==
    ASSUME NEW pos \in [Markets -> Positions],
           NEW states \in [Markets -> InterestStates],
           actual_position_ok(pos, states)
    PROVE  \A m \in Markets :
              /\ actual_position(pos, states)[m].debt = debt_owed(pos, states, m)
              /\ actual_position(pos, states)[m].debt \in Nat
              /\ actual_position(pos, states)[m].collateral = pos[m].collateral
<1>1. ASSUME NEW m \in Markets
      PROVE  debt_owed(pos, states, m) \in Nat
  <2>1. /\ pos[m].debt \in Nat /\ pos[m].user_borrow_index \in Nat
        /\ states[m].borrow_index \in Nat
    BY DEF Positions, InterestStates, U128
  <2>2. actual_debt_ok(pos[m].debt, pos[m].user_borrow_index,
                       states[m].borrow_index)
    BY DEF actual_position_ok
  <2> QED BY <2>1, <2>2, ActualDebtType DEF debt_owed, debt_at
<1> DEFINE d0 == debt_owed(pos, states, ASSET_XRP)
           d1 == debt_owed(pos, states, ASSET_RLUSD)
           d2 == debt_owed(pos, states, ASSET_WBTC)
           actual == [pos EXCEPT ![ASSET_XRP].debt = d0,
                                 ![ASSET_RLUSD].debt = d1,
                                 ![ASSET_WBTC].debt = d2]
<1>2. actual_position(pos, states) = actual
  BY DEF actual_position
<1>3. actual[ASSET_XRP].debt = d0 /\ actual[ASSET_RLUSD].debt = d1
      /\ actual[ASSET_WBTC].debt = d2
  <2> HIDE DEF d0, d1, d2
  <2> QED BY DEF Markets, ASSET_XRP, ASSET_RLUSD, ASSET_WBTC, Positions
<1>4. \A m \in Markets : actual[m].collateral = pos[m].collateral
  <2> HIDE DEF d0, d1, d2
  <2> QED BY DEF Markets, ASSET_XRP, ASSET_RLUSD, ASSET_WBTC, Positions
<1> QED BY <1>1, <1>2, <1>3, <1>4 DEF Markets

\* A position whose debt is rewritten at the index of its market.
Rewritten(u, m, debt, index) ==
    [position EXCEPT ![u][m] = with_debt(@, debt, index)]

LEMMA RewrittenDebt ==
    ASSUME Inv, NEW u \in Accounts, NEW m \in Markets,
           NEW debt \in U128, NEW index \in U128,
           position' = Rewritten(u, m, debt, index)
    PROVE  /\ position' \in [Accounts -> [Markets -> Positions]]
           /\ \A v \in Accounts, k \in Markets :
                 \/ position'[v][k].user_borrow_index
                       = position[v][k].user_borrow_index
                 \/ k = m /\ position'[v][k].user_borrow_index = index
<1> DEFINE pos == position[u][m]
           rewritten == with_debt(pos, debt, index)
<1>1. pos \in Positions
  BY DEF Inv, TypeOK
<1>2. position' = [position EXCEPT ![u] = [position[u] EXCEPT ![m] = rewritten]]
  BY DEF Inv, TypeOK, Rewritten
<1> HIDE DEF pos
<1>3. rewritten \in Positions /\ rewritten.user_borrow_index = index
  BY <1>1 DEF Positions, with_debt
<1> HIDE DEF rewritten
<1>4. position' \in [Accounts -> [Markets -> Positions]]
  BY <1>2, <1>3 DEF Inv, TypeOK
<1>5. ASSUME NEW v \in Accounts, NEW k \in Markets
      PROVE  position'[v][k] = IF v = u /\ k = m THEN rewritten
                               ELSE position[v][k]
  BY <1>2 DEF Inv, TypeOK
<1> QED BY <1>3, <1>4, <1>5

LEMMA BorrowStep ==
    ASSUME Inv, NEW u \in Accounts, NEW m \in Markets, NEW amount \in Amounts,
           Borrow(u, m, amount)
    PROVE  Inv' /\ MarketsAdvance
<1> DEFINE state == accrued(m)
           states == [interest EXCEPT ![m] = state]
           actual == actual_position(position[u], states)
           debt == debt_owed(position[u], states, m) + amount
           booked == book_borrow(state, amount)
<1>1. interest \in [Markets -> InterestStates] /\ states[m] = state
  BY DEF Inv, TypeOK
<1>2. /\ amount \in Nat /\ can_accrue(m)
      /\ actual_position_ok(position[u], states)
      /\ amount <= state.total_supply /\ amount <= cash[m]
      /\ scaled_debt_ok(debt, state.borrow_index)
      /\ state.total_borrows + amount <= U128_MAX
      /\ position' = Rewritten(u, m, to_scaled_debt(debt, state.borrow_index),
                               state.borrow_index)
      /\ interest' = [states EXCEPT ![m] = book_borrow(@, amount)]
      /\ wallet' = [wallet EXCEPT ![u][m] = @ + amount]
      /\ cash' = [cash EXCEPT ![m] = @ - amount]
      /\ UNCHANGED <<now, feed, shares, held>>
  <2>1. actual[m].debt = debt_owed(position[u], states, m)
    <3>1. position[u] \in [Markets -> Positions]
      BY DEF Inv, TypeOK
    <3> QED BY <3>1 DEF actual_position, Markets, Positions,
                        ASSET_XRP, ASSET_RLUSD, ASSET_WBTC
  <2> QED BY <1>1, <2>1, ControllerAssumption
          DEF Borrow, BorrowAt, borrow_ok, borrowed, debt_owed, Fits, Rewritten
<1>3. Advanced(state, m) /\ state.total_supply = cash[m]
  BY <1>2, AccruedMarket
<1> HIDE DEF state
<1>4. interest' = [interest EXCEPT ![m] = booked]
  BY <1>1, <1>2, <1>3 DEF Advanced
<1>5. states \in [Markets -> InterestStates]
  BY <1>1, <1>3 DEF Advanced
<1>6. debt \in Nat
  <2>1. position[u] \in [Markets -> Positions]
    BY DEF Inv, TypeOK
  <2> HIDE DEF states
  <2> QED BY <1>2, <1>5, <2>1, ActualPositionType
<1> HIDE DEF debt
<1>7. state.borrow_index \in U128 /\ to_scaled_debt(debt, state.borrow_index) \in U128
  <2>1. state.borrow_index \in U128 /\ state.borrow_index \in Nat
    BY <1>3 DEF Advanced, InterestStates, U128
  <2> QED BY <1>2, <1>6, <2>1, ScaledDebtType
<1>8. /\ Advanced(booked, m) /\ booked \in InterestStates
      /\ booked.total_supply = cash[m] - amount
      /\ booked.borrow_index = state.borrow_index
  <2>1. /\ state.total_borrows + amount \in U128
        /\ state.total_supply - amount \in U128
    BY <1>2, <1>3, Scales DEF Advanced, InterestStates, U128
  <2> QED BY <1>3, <2>1 DEF Advanced, InterestStates, book_borrow
<1> HIDE DEF booked
<1>9. /\ position' \in [Accounts -> [Markets -> Positions]]
      /\ \A v \in Accounts, k \in Markets :
            \/ position'[v][k].user_borrow_index
                  = position[v][k].user_borrow_index
            \/ k = m /\ position'[v][k].user_borrow_index = state.borrow_index
  BY <1>2, <1>7, RewrittenDebt
<1>10. TypeOK'
  <2>1. interest' \in [Markets -> InterestStates]
    BY <1>1, <1>4, <1>8
  <2>2. /\ wallet' \in [Accounts -> [Markets -> Nat]]
        /\ cash' \in [Markets -> Nat]
    <3>1. wallet[u][m] + amount \in Nat /\ cash[m] - amount \in Nat
      <4>1. amount \in Nat /\ amount <= cash[m]
        BY <1>2
      <4> QED BY <4>1, StateTypes
    <3>2. /\ wallet' = [wallet EXCEPT ![u][m] = @ + amount]
          /\ cash' = [cash EXCEPT ![m] = @ - amount]
      BY <1>2
    <3> QED BY <3>1, <3>2 DEF Inv, TypeOK
  <2> QED BY <1>2, <1>9, <2>1, <2>2 DEF Inv, TypeOK
<1>11. CashBacked'
  BY <1>2, <1>4, <1>8 DEF Inv, TypeOK, CashBacked
<1>12. IndexesOrdered' /\ MarketsAdvance
  <2>1. interest'[m] = booked
    BY <1>1, <1>4
  <2>2. \A k \in Markets : Advanced(interest'[k], k)
    BY <1>1, <1>4, <1>8, CurrentMarket
  <2> QED BY <1>2, <1>8, <1>9, <1>10, <2>1, <2>2, OrderKept DEF TypeOK
<1> QED BY <1>10, <1>11, <1>12 DEF Inv

\* A debt after a repayment.
LEMMA RemainingDebtType ==
    ASSUME NEW remaining \in Nat, NEW index \in Nat,
           remaining_debt_ok(remaining, index)
    PROVE  remaining_debt(remaining, index) \in U128
  BY ScaledDebtType, Scales DEF remaining_debt, remaining_debt_ok

LEMMA RepayStep ==
    ASSUME Inv, NEW u \in Accounts, NEW m \in Markets, NEW amount \in Amounts,
           Repay(u, m, amount)
    PROVE  Inv' /\ MarketsAdvance
<1> DEFINE pos == position[u][m]
           state == accrued(m)
           index == state.borrow_index
           actual == get_actual_debt(pos.debt, pos.user_borrow_index, index)
           repaid == repayment(amount, actual)
           debt == remaining_debt(actual - repaid, index)
           booked == book_repay(state, repaid)
<1>1. /\ amount \in Nat /\ amount <= wallet[u][m] /\ can_accrue(m)
      /\ actual_debt_ok(pos.debt, pos.user_borrow_index, index)
      /\ remaining_debt_ok(actual - repaid, index)
      /\ state.total_supply + repaid <= U128_MAX
      /\ position' = Rewritten(u, m, debt, index)
      /\ interest' = [interest EXCEPT ![m] = booked]
      /\ wallet' = [wallet EXCEPT ![u][m] = @ - repaid]
      /\ cash' = [cash EXCEPT ![m] = @ + repaid]
      /\ UNCHANGED <<now, feed, shares, held>>
  BY ControllerAssumption DEF Repay, RepayAt, repay_ok, repaid_down, debt_at, attached, Fits, Rewritten
<1>2. Advanced(state, m) /\ state.total_supply = cash[m]
  BY <1>1, AccruedMarket
<1> HIDE DEF state
<1>3. index \in U128 /\ index \in Nat
  BY <1>2 DEF Advanced, InterestStates, U128
<1> HIDE DEF index
<1>4. actual \in Nat
  BY <1>1, <1>3, StateTypes, ActualDebtType
<1> HIDE DEF actual
<1>5. /\ repaid \in Nat /\ repaid <= amount /\ actual - repaid \in Nat
  BY <1>1, <1>4 DEF Min2, repayment
<1> HIDE DEF repaid
<1>6. debt \in U128
  BY <1>1, <1>3, <1>5, RemainingDebtType
<1> HIDE DEF debt
<1>7. /\ Advanced(booked, m) /\ booked \in InterestStates
      /\ booked.total_supply = cash[m] + repaid
      /\ booked.borrow_index = index
  <2>1. /\ state.total_borrows \in Nat
        /\ saturating_sub(state.total_borrows, repaid) \in U128
        /\ state.total_supply + repaid \in U128
    BY <1>1, <1>2, <1>5, Scales, SaturatingSubType
    DEF Advanced, InterestStates, U128, saturating_sub
  <2> QED BY <1>2, <2>1 DEF Advanced, InterestStates, index, book_repay
<1> HIDE DEF booked
<1>8. /\ position' \in [Accounts -> [Markets -> Positions]]
      /\ \A v \in Accounts, k \in Markets :
            \/ position'[v][k].user_borrow_index
                  = position[v][k].user_borrow_index
            \/ k = m /\ position'[v][k].user_borrow_index = index
  BY <1>1, <1>3, <1>6, RewrittenDebt
<1>9. TypeOK'
  <2>1. interest' \in [Markets -> InterestStates]
    BY <1>1, <1>7 DEF Inv, TypeOK
  <2>2. /\ wallet' \in [Accounts -> [Markets -> Nat]]
        /\ cash' \in [Markets -> Nat]
    BY <1>1, <1>5 DEF Inv, TypeOK
  <2> QED BY <1>1, <1>8, <2>1, <2>2 DEF Inv, TypeOK
<1>10. CashBacked'
  BY <1>1, <1>7 DEF Inv, TypeOK, CashBacked
<1>11. IndexesOrdered' /\ MarketsAdvance
  BY <1>1, <1>7, <1>8, <1>9, CurrentMarket, OrderKept DEF Inv, TypeOK
<1> QED BY <1>9, <1>10, <1>11 DEF Inv

(***************************************************************************)
(* The amounts of a liquidation.                                           *)
(***************************************************************************)
LEMMA PricesType == Inv => get_all_prices(feed) \in [Markets -> Nat]
  BY PricesOfFeed DEF Inv, TypeOK

\* A liquidation repays no more than was attached to it.
LEMMA RepaidBound ==
    ASSUME NEW prices \in [Markets -> Nat], NEW actual, NEW d \in Markets,
           \A m \in Markets : actual[m].debt \in Nat,
           NEW amount \in Nat, price_per_native(prices, d) # 0
    PROVE  LET repaid == liquidation_repaid(actual, prices, d, amount)
           IN  repaid \in Nat /\ repaid <= amount
  BY RepaymentBound DEF liquidation_repaid

(***************************************************************************)
(* The position a liquidation leaves behind.                               *)
(***************************************************************************)
LEMMA LiquidatedPosition ==
    ASSUME NEW pos \in [Markets -> Positions],
           NEW d \in Markets, NEW c \in Markets, d # c,
           NEW debt \in U128, NEW index \in U128, NEW seized \in Nat,
           NEW post, post = liquidated(pos, d, c, debt, index, seized)
    PROVE  /\ post \in [Markets -> Positions]
           /\ \A k \in Markets \ {d} :
                 post[k].user_borrow_index = pos[k].user_borrow_index
           /\ post[d].user_borrow_index = index
<1> DEFINE left == saturating_sub(pos[c].collateral, seized)
           pd == with_debt(pos[d], debt, index)
           pc == [pos[c] EXCEPT !.collateral = left]
<1>1. left \in U128
  BY SaturatingSubType, Scales DEF Positions, U128, saturating_sub
<1>2. post = [pos EXCEPT ![d] = pd, ![c] = pc]
  BY DEF liquidated
<1>3. pd \in Positions /\ pd.user_borrow_index = index
  BY DEF Positions, with_debt
<1>4. pc \in Positions /\ pc.user_borrow_index = pos[c].user_borrow_index
  BY <1>1 DEF Positions
<1> HIDE DEF pd, pc
<1> QED BY <1>2, <1>3, <1>4

\* The markets a liquidation accrues.
LiquidationStates(d, c) ==
    [interest EXCEPT ![d] = accrued(d), ![c] = accrued(c)]

LEMMA LiquidationStatesAdvance ==
    ASSUME Inv, NEW d \in Markets, NEW c \in Markets,
           can_accrue(d), can_accrue(c)
    PROVE  /\ LiquidationStates(d, c) \in [Markets -> InterestStates]
           /\ \A m \in Markets :
                 /\ Advanced(LiquidationStates(d, c)[m], m)
                 /\ LiquidationStates(d, c)[m].total_supply = cash[m]
<1> DEFINE sd == accrued(d)
           sc == accrued(c)
           states == [interest EXCEPT ![d] = sd, ![c] = sc]
<1>1. /\ Advanced(sd, d) /\ sd.total_supply = cash[d]
      /\ Advanced(sc, c) /\ sc.total_supply = cash[c]
  BY AccruedMarket
<1> HIDE DEF sd, sc
<1>2. interest \in [Markets -> InterestStates]
  BY DEF Inv, TypeOK
<1>3. states \in [Markets -> InterestStates]
  BY <1>1, <1>2 DEF Advanced
<1>4. ASSUME NEW m \in Markets
      PROVE  Advanced(states[m], m) /\ states[m].total_supply = cash[m]
  BY <1>1, <1>2, CurrentMarket
<1> QED BY <1>3, <1>4 DEF LiquidationStates, sd, sc

\* What Seize leaves behind, whatever numbers it is given.
LEMMA SeizeStep ==
    ASSUME Inv, NEW l \in Accounts, NEW u \in Accounts,
           NEW d \in Markets, NEW c \in Markets, d # c,
           NEW amount \in Nat, amount <= wallet[l][d],
           NEW states \in [Markets -> InterestStates],
           \A m \in Markets : /\ Advanced(states[m], m)
                              /\ states[m].total_supply = cash[m],
           NEW repaid \in Nat, repaid <= amount,
           NEW seized \in Nat, NEW remaining \in Nat,
           Seize(l, u, d, c, amount, states, repaid, seized, remaining)
    PROVE  Inv' /\ MarketsAdvance
<1> DEFINE index == states[d].borrow_index
           debt == remaining_debt(remaining, index)
           post == liquidated(position[u], d, c, debt, index, seized)
           booked == book_repay(states[d], repaid)
<1>1. /\ seized <= held[c] /\ remaining_debt_ok(remaining, index)
      /\ states[d].total_supply + repaid <= U128_MAX
      /\ position' = [position EXCEPT ![u] = post]
      /\ interest' = [states EXCEPT ![d] = booked]
      /\ wallet' = [wallet EXCEPT ![l][d] = @ - amount, ![l][c] = @ + seized]
      /\ held' = [held EXCEPT ![d] = @ + (amount - repaid), ![c] = @ - seized]
      /\ cash' = [cash EXCEPT ![d] = @ + repaid]
      /\ UNCHANGED <<now, feed, shares>>
  BY DEF Seize, seize_ok, seized_position, Fits
<1>2. index \in U128 /\ index \in Nat
  BY DEF InterestStates, U128
<1>3. debt \in U128
  BY <1>1, <1>2, RemainingDebtType
<1>4. position[u] \in [Markets -> Positions]
  BY DEF Inv, TypeOK
<1>5. /\ post \in [Markets -> Positions]
      /\ \A k \in Markets \ {d} :
            post[k].user_borrow_index = position[u][k].user_borrow_index
      /\ post[d].user_borrow_index = index
  <2>1. post = liquidated(position[u], d, c, debt, index, seized)
    OBVIOUS
  <2> HIDE DEF post, booked, debt, index
  <2> QED BY <1>2, <1>3, <1>4, <2>1, LiquidatedPosition
<1>6. /\ Advanced(booked, d) /\ booked \in InterestStates
      /\ booked.total_supply = cash[d] + repaid
      /\ booked.borrow_index = index
  <2>1. /\ states[d] \in InterestStates /\ states[d].total_borrows \in Nat
        /\ states[d].total_supply \in Nat
        /\ saturating_sub(states[d].total_borrows, repaid) \in U128
        /\ states[d].total_supply + repaid \in U128
    BY <1>1, Scales, SaturatingSubType
    DEF InterestStates, U128, saturating_sub
  <2> QED BY <2>1 DEF Advanced, InterestStates, book_repay
<1> HIDE DEF post, booked, debt, index
<1>7. interest' \in [Markets -> InterestStates] /\ interest'[d] = booked
  BY <1>1, <1>6
<1>8. position' \in [Accounts -> [Markets -> Positions]]
  BY <1>1, <1>5 DEF Inv, TypeOK
<1>9. TypeOK'
  <2>1. wallet' \in [Accounts -> [Markets -> Nat]]
    <3>1. /\ wallet \in [Accounts -> [Markets -> Nat]]
          /\ wallet[l][d] - amount \in Nat /\ wallet[l][c] + seized \in Nat
      BY DEF Inv, TypeOK
    <3>2. wallet' = [wallet EXCEPT ![l] = [wallet[l] EXCEPT
                        ![d] = wallet[l][d] - amount,
                        ![c] = wallet[l][c] + seized]]
      BY <1>1, <3>1
    <3> QED BY <3>1, <3>2
  <2>2. /\ held[d] + (amount - repaid) \in Nat /\ held[c] - seized \in Nat
        /\ cash[d] + repaid \in Nat
    BY <1>1 DEF Inv, TypeOK
  <2>3. held' \in [Markets -> Nat] /\ cash' \in [Markets -> Nat]
    BY <1>1, <2>2 DEF Inv, TypeOK
  <2> QED BY <1>1, <1>7, <1>8, <2>3, <2>1, <2>2 DEF Inv, TypeOK
<1>10. CashBacked'
  BY <1>1, <1>6 DEF Inv, TypeOK, CashBacked
<1>11. \A m \in Markets : Advanced(interest'[m], m)
  BY <1>1, <1>6
<1>12. \A v \in Accounts, k \in Markets :
          \/ position'[v][k].user_borrow_index = position[v][k].user_borrow_index
          \/ position'[v][k].user_borrow_index = interest'[k].borrow_index
  BY <1>1, <1>5, <1>6, <1>7 DEF Inv, TypeOK
<1>13. IndexesOrdered' /\ MarketsAdvance
  BY <1>1, <1>7, <1>8, <1>11, <1>12, OrderKept
<1> QED BY <1>9, <1>10, <1>13 DEF Inv

\* Whatever the amount: a caller may compute it.
LEMMA LiquidateStep ==
    ASSUME Inv, NEW l \in Accounts, NEW u \in Accounts,
           NEW d \in Markets, NEW c \in Markets, NEW amount \in Nat,
           Liquidate(l, u, d, c, amount)
    PROVE  Inv' /\ MarketsAdvance
<1> DEFINE states == LiquidationStates(d, c)
           actual == actual_position(position[u], states)
           prices == get_all_prices(feed)
           repaid == liquidation_repaid(actual, prices, d, amount)
           bonus == V1_MARKETS[c].liquidation_bonus
           seized == collateral_to_seize(repaid, prices, d, c, bonus)
           remaining == saturating_sub(actual[d].debt, repaid)
<1>1. /\ amount \in Nat /\ amount <= wallet[l][d] /\ d # c
      /\ can_accrue(d) /\ can_accrue(c)
      /\ actual_position_ok(position[u], states)
      /\ price_per_native(prices, d) # 0
      /\ price_per_native(prices, c) # 0
      /\ Seize(l, u, d, c, amount, states, repaid, seized, remaining)
  BY ControllerAssumption
  DEF Liquidate, LiquidateAt, liquidate_ok, LiquidationStates, attached,
      liquidation_amounts_ok
<1>2. /\ states \in [Markets -> InterestStates]
      /\ \A m \in Markets : /\ Advanced(states[m], m)
                            /\ states[m].total_supply = cash[m]
  BY <1>1, LiquidationStatesAdvance
<1>3. prices \in [Markets -> Nat] /\ position[u] \in [Markets -> Positions]
  BY PricesType, StateTypes
<1>4. bonus \in Nat
  BY ControllerAssumption DEF MarketConfigs
<1> HIDE DEF states, prices, bonus
<1>5. \A m \in Markets : actual[m].debt \in Nat
  BY <1>1, <1>2, <1>3, ActualPositionType
<1> HIDE DEF actual
<1>6. repaid \in Nat /\ repaid <= amount
  BY <1>1, <1>3, <1>5, RepaidBound
<1> HIDE DEF repaid
<1>7. seized \in Nat
  BY <1>1, <1>3, <1>4, <1>6, SeizedType
<1>8. remaining \in Nat
  BY <1>5, <1>6 DEF saturating_sub
<1> HIDE DEF seized, remaining
<1> QED BY <1>1, <1>2, <1>6, <1>7, <1>8, SeizeStep

(***************************************************************************)
(* Every step.                                                             *)
(***************************************************************************)
LEMMA NextStep ==
    ASSUME Inv, [Next]_vars
    PROVE  Inv' /\ [MarketsAdvance]_vars
<1>1. ASSUME NEW u \in Accounts, NEW m \in Markets, NEW amount \in Amounts,
             \/ Supply(u, m, amount)
             \/ Withdraw(u, m, amount)
             \/ DepositCollateral(u, m, amount)
             \/ WithdrawCollateral(u, m, amount)
             \/ Borrow(u, m, amount)
             \/ Repay(u, m, amount)
      PROVE  Inv' /\ MarketsAdvance
  BY <1>1, SupplyStep, WithdrawStep, DepositCollateralStep,
     WithdrawCollateralStep, BorrowStep, RepayStep
<1>2. ASSUME NEW l \in Accounts, NEW u \in Accounts, NEW d \in Markets,
             NEW c \in Markets, NEW amount \in Amounts,
             Liquidate(l, u, d, c, amount)
      PROVE  Inv' /\ MarketsAdvance
  BY <1>2, LiquidateStep, ControllerAssumption
<1>3. CASE Tick
  BY <1>3, TickStep
<1>4. ASSUME NEW prices \in PriceVectors, PostPrices(prices)
      PROVE  Inv' /\ MarketsAdvance
  BY <1>4, PostPricesStep
<1>5. CASE UNCHANGED vars
  BY <1>5, StutterStep
<1> QED BY <1>1, <1>2, <1>3, <1>4, <1>5 DEF Next

LEMMA Inductive == Spec => []Inv
<1>1. Inv /\ [Next]_vars => Inv'
  BY NextStep
<1> QED BY InitInv, <1>1, PTL DEF Spec

(***************************************************************************)
(* The stored state and the ledger keep their types: no handler writes a   *)
(* value that does not fit a u128, and none moves tokens that are not      *)
(* there.                                                                  *)
(***************************************************************************)
THEOREM TypeCorrect == Spec => []TypeOK
<1>1. Inv => TypeOK
  BY DEF Inv
<1> QED BY Inductive, <1>1, PTL

(***************************************************************************)
(* A market's total_supply is the cash of its vault, after any sequence of *)
(* calls: handle_supply, handle_withdraw, handle_borrow, handle_repay and  *)
(* handle_liquidate book what they move.                                   *)
(***************************************************************************)
THEOREM CashBackedCorrect == Spec => []CashBacked
<1>1. Inv => CashBacked
  BY DEF Inv
<1> QED BY Inductive, <1>1, PTL

(***************************************************************************)
(* Every index stays at or above 1.0, no position's index is ahead of its  *)
(* market's, and no market's clock is ahead of the ledger.                 *)
(***************************************************************************)
THEOREM IndexesOrderedCorrect == Spec => []IndexesOrdered
<1>1. Inv => IndexesOrdered
  BY DEF Inv
<1> QED BY Inductive, <1>1, PTL

(***************************************************************************)
(* No step of any handler lowers an index or turns a market's clock back   *)
(* (update_interest_indexes, and every handler that stores its result).    *)
(***************************************************************************)
THEOREM IndexesMonotoneCorrect == Spec => IndexesMonotone
<1>1. Inv /\ [Next]_vars => [MarketsAdvance]_vars
  BY NextStep
<1> QED BY Inductive, <1>1, PTL DEF Spec, IndexesMonotone

(***************************************************************************)
(* The rates of a market after a step are those before it or those of its  *)
(* accrual: what a handler books changes totals only.                      *)
(***************************************************************************)
RatesOf(state) ==
    <<state.borrow_index, state.supply_index, state.borrow_rate_bps, state.supply_rate_bps>>

Rated(m) ==
    \/ RatesOf(interest'[m]) = RatesOf(interest[m])
    \/ can_accrue(m) /\ RatesOf(interest'[m]) = RatesOf(accrued(m))

LEMMA BookedRates ==
    ASSUME NEW state \in InterestStates, NEW amount
    PROVE  /\ RatesOf(book_supply(state, amount)) = RatesOf(state)
           /\ RatesOf(book_withdraw(state, amount)) = RatesOf(state)
           /\ RatesOf(book_borrow(state, amount)) = RatesOf(state)
           /\ RatesOf(book_repay(state, amount)) = RatesOf(state)
  BY DEF RatesOf, book_supply, book_withdraw, book_borrow, book_repay, InterestStates

\* A handler that accrues one market.
LEMMA RatesOfOne ==
    ASSUME Inv, NEW m \in Markets, can_accrue(m), NEW booked,
           RatesOf(booked) = RatesOf(accrued(m)),
           interest' = [interest EXCEPT ![m] = booked]
    PROVE  \A n \in Markets : Rated(n)
<1>1. interest \in [Markets -> InterestStates]
  BY DEF Inv, TypeOK
<1> DEFINE state == accrued(m)
<1>2. SUFFICES ASSUME NEW n \in Markets PROVE Rated(n)
  OBVIOUS
<1>3. CASE n = m
  <2>1. interest'[n] = booked
    BY <1>1, <1>3
  <2> QED BY <1>3, <2>1 DEF Rated
<1>4. CASE n # m
  <2>1. interest'[n] = interest[n]
    BY <1>1, <1>4
  <2> QED BY <2>1 DEF Rated
<1> QED BY <1>3, <1>4

LEMMA RatesStep ==
    ASSUME Inv, Next
    PROVE  \A n \in Markets : Rated(n)
<1>1. ASSUME NEW u \in Accounts, NEW m \in Markets, NEW amount \in Amounts,
             Supply(u, m, amount)
      PROVE  \A n \in Markets : Rated(n)
  <2>1. can_accrue(m) /\ interest' = [interest EXCEPT ![m] = book_supply(accrued(m), amount)]
    BY <1>1 DEF Supply, SupplyAt, supply_ok
  <2>2. accrued(m) \in InterestStates
    BY <2>1, AccruedMarket DEF Advanced
  <2> QED BY <2>1, <2>2, BookedRates, RatesOfOne
<1>2. ASSUME NEW u \in Accounts, NEW m \in Markets, NEW burned \in Amounts,
             Withdraw(u, m, burned)
      PROVE  \A n \in Markets : Rated(n)
  <2> DEFINE amount == redeemed(burned, accrued(m))
  <2>1. can_accrue(m) /\ interest' = [interest EXCEPT ![m] = book_withdraw(accrued(m), amount)]
    BY <1>2 DEF Withdraw, WithdrawAt, withdraw_ok
  <2>2. accrued(m) \in InterestStates
    BY <2>1, AccruedMarket DEF Advanced
  <2> HIDE DEF amount
  <2> QED BY <2>1, <2>2, BookedRates, RatesOfOne
<1>3. ASSUME NEW u \in Accounts, NEW m \in Markets, NEW amount \in Amounts,
             Borrow(u, m, amount)
      PROVE  \A n \in Markets : Rated(n)
  <2> DEFINE state == accrued(m)
             states == [interest EXCEPT ![m] = state]
  <2>1. can_accrue(m) /\ interest' = [states EXCEPT ![m] = book_borrow(@, amount)]
    BY <1>3 DEF Borrow, BorrowAt, borrow_ok
  <2>2. state \in InterestStates /\ interest \in [Markets -> InterestStates]
    BY <2>1, AccruedMarket DEF Advanced, Inv, TypeOK
  <2> HIDE DEF state
  <2>3. interest' = [interest EXCEPT ![m] = book_borrow(state, amount)]
    BY <2>1, <2>2
  <2> QED BY <2>1, <2>2, <2>3, BookedRates, RatesOfOne DEF state
<1>4. ASSUME NEW u \in Accounts, NEW m \in Markets, NEW amount \in Amounts,
             Repay(u, m, amount)
      PROVE  \A n \in Markets : Rated(n)
  <2> DEFINE repaid == repayment(amount, debt_at(position[u][m], accrued(m).borrow_index))
  <2>1. can_accrue(m) /\ interest' = [interest EXCEPT ![m] = book_repay(accrued(m), repaid)]
    BY <1>4 DEF Repay, RepayAt, repay_ok
  <2>2. accrued(m) \in InterestStates
    BY <2>1, AccruedMarket DEF Advanced
  <2> HIDE DEF repaid
  <2> QED BY <2>1, <2>2, BookedRates, RatesOfOne
<1>5. ASSUME NEW l \in Accounts, NEW u \in Accounts, NEW d \in Markets, NEW c \in Markets,
             NEW amount \in Amounts, Liquidate(l, u, d, c, amount)
      PROVE  \A n \in Markets : Rated(n)
  <2> DEFINE states == LiquidationStates(d, c)
             prices == get_all_prices(feed)
             repaid == liquidation_repaid(actual_position(position[u], states), prices, d, amount)
  <2>1. can_accrue(d) /\ can_accrue(c) /\ interest' = [states EXCEPT ![d] = book_repay(@, repaid)]
    BY <1>5 DEF Liquidate, LiquidateAt, liquidate_ok, Seize, LiquidationStates
  <2>2. states \in [Markets -> InterestStates] /\ interest \in [Markets -> InterestStates]
    BY <2>1, LiquidationStatesAdvance DEF Inv, TypeOK
  <2> DEFINE sd == accrued(d)
             sc == accrued(c)
  <2>3. states = [interest EXCEPT ![d] = sd, ![c] = sc]
    BY DEF LiquidationStates
  <2> HIDE DEF repaid, states, sd, sc
  <2>4. ASSUME NEW n \in Markets PROVE Rated(n)
    <3>1. RatesOf(interest'[n]) = RatesOf(states[n])
      <4>1. CASE n = d
        <5>1. interest'[n] = book_repay(states[n], repaid)
          BY <2>1, <2>2, <4>1
        <5> QED BY <2>2, <5>1, BookedRates
      <4>2. CASE n # d
        <5>1. interest'[n] = states[n]
          BY <2>1, <2>2, <4>2
        <5> QED BY <5>1
      <4> QED BY <4>1, <4>2
    <3>2. \/ n = d /\ states[n] = sd
          \/ n = c /\ states[n] = sc
          \/ states[n] = interest[n]
      BY <2>2, <2>3
    <3> QED BY <2>1, <3>1, <3>2 DEF Rated, sd, sc
  <2> QED BY <2>4
<1>6. ASSUME interest' = interest PROVE \A n \in Markets : Rated(n)
  BY <1>6 DEF Rated
<1> QED BY <1>1, <1>2, <1>3, <1>4, <1>5, <1>6
        DEF Next, DepositCollateral, WithdrawCollateral, Tick, PostPrices

LEMMA MarketTypes ==
    ASSUME Inv, NEW m \in Markets
    PROVE  interest[m] \in InterestStates /\ V1_MARKETS[m] \in MarketConfigs /\ now \in Nat
  BY ControllerAssumption DEF Inv, TypeOK

\* No stored supply rate is above 100%: what update_interest_indexes takes for the
\* reserve factor of the next period.
RatesBelowFull == \A m \in Markets : interest[m].supply_rate_bps <= BPS

\* No market charges more than its curve's end, nor pays suppliers a rate above the
\* one it charges: a rate of 100% or more is one of the curve, not of its wrapping.
RatesWithinCurve == \A m \in Markets : WithinCurve(interest[m], V1_MARKETS[m])

(***************************************************************************)
(* What update_interest_indexes stores stays within the curve, on every    *)
(* curve, also where a period's growth was computed with a reserve factor  *)
(* that wraps: of the growth, the new rates see the utilization only.      *)
(***************************************************************************)
THEOREM RatesWithinCurveCorrect == Spec => []RatesWithinCurve
<1>1. Init => RatesWithinCurve
  <2> SUFFICES ASSUME Init, NEW m \in Markets
               PROVE  WithinCurve(interest[m], V1_MARKETS[m])
    BY DEF RatesWithinCurve
  <2>1. V1_MARKETS[m] \in MarketConfigs
    BY ControllerAssumption
  <2>2. CurveEnd(V1_MARKETS[m]) \in Nat
    BY <2>1 DEF CurveEnd, MarketConfigs
  <2>3. interest[m].supply_rate_bps = 0 /\ interest[m].borrow_rate_bps = 0
    BY DEF Init, FreshInterest
  <2> QED BY <2>2, <2>3 DEF WithinCurve
<1>2. Inv /\ RatesWithinCurve /\ [Next]_vars => RatesWithinCurve'
  <2> SUFFICES ASSUME Inv, RatesWithinCurve, [Next]_vars, NEW m \in Markets
               PROVE  WithinCurve(interest'[m], V1_MARKETS[m])
    BY DEF RatesWithinCurve
  <2>1. WithinCurve(interest[m], V1_MARKETS[m])
    BY DEF RatesWithinCurve
  <2>2. CASE UNCHANGED vars
    BY <2>1, <2>2 DEF vars
  <2>3. CASE Next
    <3>1. WithinCurve(accrued(m), V1_MARKETS[m])
      BY <2>1, MarketTypes, AccruedRateBound DEF accrued
    <3> QED BY <2>1, <2>3, <3>1, RatesStep DEF Rated, RatesOf, WithinCurve
  <2> QED BY <2>2, <2>3
<1> QED BY <1>1, <1>2, Inductive, PTL DEF Spec

\* The markets whose curve ends at 100% or less, as RLUSD's does, keep the index of
\* suppliers at or below the index of borrowers.
SteadyMarkets ==
    \A m \in Markets :
        CurveEnd(V1_MARKETS[m]) <= BPS => interest[m].supply_index <= interest[m].borrow_index

(***************************************************************************)
(* Whatever the other markets' curves are, and what they do to them, a     *)
(* market whose own curve ends at 100% or less promises its suppliers no   *)
(* more than its borrowers pay (update_interest_indexes).                  *)
(***************************************************************************)
THEOREM SteadyMarketsCorrect == Spec => []SteadyMarkets
<1>1. Init => SteadyMarkets
  BY Scales DEF Init, SteadyMarkets, FreshInterest
<1>2. Inv /\ RatesWithinCurve /\ SteadyMarkets /\ [Next]_vars => SteadyMarkets'
  <2> SUFFICES ASSUME Inv, RatesWithinCurve, SteadyMarkets, [Next]_vars, NEW m \in Markets,
                      CurveEnd(V1_MARKETS[m]) <= BPS
               PROVE  interest'[m].supply_index <= interest'[m].borrow_index
    BY DEF SteadyMarkets
  <2>1. interest[m].supply_index <= interest[m].borrow_index
    BY DEF SteadyMarkets
  <2>2. CASE UNCHANGED vars
    BY <2>1, <2>2 DEF vars
  <2>3. CASE Next
    <3>1. interest[m].supply_rate_bps <= BPS
      <4>1. /\ interest[m].supply_rate_bps \in Nat /\ interest[m].borrow_rate_bps \in Nat
            /\ CurveEnd(V1_MARKETS[m]) \in Nat /\ BPS \in Nat
        BY MarketTypes, Scales DEF InterestStates, MarketConfigs, CurveEnd
      <4> QED BY <4>1 DEF RatesWithinCurve, WithinCurve
    <3>2. accrued(m).supply_index <= accrued(m).borrow_index
      BY <2>1, <3>1, MarketTypes, AccrualKeepsOrder DEF accrued
    <3> QED BY <2>1, <2>3, <3>2, RatesStep DEF Rated, RatesOf
  <2> QED BY <2>2, <2>3
<1> QED BY <1>1, <1>2, RatesWithinCurveCorrect, Inductive, PTL DEF Spec

(***************************************************************************)
(* The supply index never outgrows the borrow index, whatever the curves,  *)
(* as long as no supply rate above 100% is stored: in a market whose curve *)
(* ends above it, as long as it is not lent out that far.  Once one is,    *)
(* BPS - reserve_factor wraps, and what suppliers earn has no bound        *)
(* (calculate_supply_rate, MCFrozen).                                      *)
(***************************************************************************)
THEOREM SupplyNeverOutgrowsBorrowCorrect ==
    Spec /\ []RatesBelowFull => []SupplyNeverOutgrowsBorrow
<1>1. Init => SupplyNeverOutgrowsBorrow
  BY Scales DEF Init, SupplyNeverOutgrowsBorrow, FreshInterest
<1>2. Inv /\ RatesBelowFull /\ SupplyNeverOutgrowsBorrow /\ [Next]_vars
        => SupplyNeverOutgrowsBorrow'
  <2> SUFFICES ASSUME Inv, RatesBelowFull, SupplyNeverOutgrowsBorrow, [Next]_vars,
                      NEW m \in Markets
               PROVE  interest'[m].supply_index <= interest'[m].borrow_index
    BY DEF SupplyNeverOutgrowsBorrow
  <2>1. CASE UNCHANGED vars
    BY <2>1 DEF SupplyNeverOutgrowsBorrow, vars
  <2>2. CASE Next
    <3>1. /\ interest[m].supply_rate_bps <= BPS
          /\ interest[m].supply_index <= interest[m].borrow_index
      BY DEF RatesBelowFull, SupplyNeverOutgrowsBorrow
    <3>2. accrued(m).supply_index <= accrued(m).borrow_index
      BY <3>1, MarketTypes, AccrualKeepsOrder DEF accrued
    <3> QED BY <2>2, <3>1, <3>2, RatesStep DEF Rated, RatesOf
  <2> QED BY <2>1, <2>2
<1> QED BY <1>1, <1>2, Inductive, PTL DEF Spec

\* At most 100% interest since a market was last accrued.
TouchedInTime ==
    \A m \in Markets : stored_rate(interest[m]) * elapsed(interest[m], now) <= WAD

\* Indexes and borrows could be three times as large, with the scale of a product.
RoomToGrow ==
    \A m \in Markets : /\ Fits(3 * WAD * interest[m].borrow_index)
                       /\ Fits(3 * WAD * interest[m].supply_index)
                       /\ Fits(3 * WAD * interest[m].total_borrows)

(***************************************************************************)
(* No market freezes (update_interest_indexes fails with                   *)
(* InterestAccrualFailed) while its supply rate is at most 100%, it earned *)
(* at most 100% since it was last accrued, and its numbers have room to    *)
(* grow to three times their size: but for the subtraction that wraps      *)
(* (MCFrozen), only long neglect or sheer size can close a market.         *)
(***************************************************************************)
THEOREM NeverFrozenCorrect ==
    Spec /\ []RatesBelowFull /\ []TouchedInTime /\ []RoomToGrow => []NeverFrozen
<1>1. Inv /\ RatesBelowFull /\ TouchedInTime /\ RoomToGrow => NeverFrozen
  <2> SUFFICES ASSUME Inv, RatesBelowFull, TouchedInTime, RoomToGrow, NEW m \in Markets
               PROVE  accrual_ok(interest[m], now)
    BY DEF NeverFrozen
  <2>1. WAD <= interest[m].borrow_index
    BY DEF Inv, IndexesOrdered
  <2> QED BY <2>1, MarketTypes, AccrualPossible DEF RatesBelowFull, TouchedInTime, RoomToGrow
<1> QED BY <1>1, Inductive, PTL

\* What the two exits compute of an account in a market is a u128.
ExitFits(u, m) ==
    LET pos   == position[u][m]
        state == accrued(m)
    IN  /\ Fits(pos.debt * state.borrow_index)
        /\ Fits(debt_at(pos, state.borrow_index) * WAD)
        /\ Fits(cash[m] + debt_at(pos, state.borrow_index))
        /\ Fits(shares[u][m] * state.supply_index + HALF_WAD)

\* Only the wallet can keep a debtor from repaying, and only the vault a lender
\* from withdrawing.
ExitsOpen ==
    \A u \in Accounts, m \in Markets, amount \in Amounts :
        amount > 0 /\ ExitFits(u, m) =>
            /\ position[u][m].debt > 0 => repay_ok(u, m, amount, accrued(m))
            /\ amount <= shares[u][m] /\ redeemed(amount, accrued(m)) <= cash[m]
                  => withdraw_ok(u, m, amount, accrued(m))

LEMMA RepayOpen ==
    ASSUME Inv, NEW u \in Accounts, NEW m \in Markets, NEW amount \in Amounts,
           amount > 0, can_accrue(m), ExitFits(u, m), position[u][m].debt > 0
    PROVE  repay_ok(u, m, amount, accrued(m))
<1> DEFINE pos == position[u][m]
           index == accrued(m).borrow_index
           actual == debt_at(pos, index)
<1> USE Scales
<1>1. /\ pos.debt \in Nat /\ pos.user_borrow_index \in Nat /\ pos.user_borrow_index >= WAD
      /\ index \in Nat /\ index >= WAD
  <2>1. /\ accrued(m) \in InterestStates /\ accrued(m).borrow_index >= interest[m].borrow_index
        /\ interest[m] \in InterestStates /\ interest[m].borrow_index >= WAD
    BY AccruedMarket, MarketTypes DEF Advanced, Inv, IndexesOrdered
  <2>2. pos.debt \in Nat /\ pos.user_borrow_index \in Nat /\ pos.user_borrow_index >= WAD
    BY StateTypes DEF Inv, IndexesOrdered
  <2> QED BY <2>1, <2>2 DEF InterestStates, U128
<1>2. amount \in Nat /\ cash[m] \in Nat /\ accrued(m).total_supply = cash[m]
  BY AccruedMarket, StateTypes, ControllerAssumption
<1>3. actual \in Nat
  <2>1. pos.user_borrow_index \in Nat \ {0}
    BY <1>1
  <2> HIDE DEF pos, index
  <2> QED BY <1>1, <2>1, DebtType DEF actual, debt_at
<1>4. /\ Fits(pos.debt * index) /\ actual * WAD <= U128_MAX
      /\ cash[m] + actual <= U128_MAX /\ U128_MAX \in Nat
  BY WadMathAssumption DEF ExitFits, Fits
<1> HIDE DEF pos, index, actual
<1>5. /\ repayment(amount, actual) \in 0 .. actual
      /\ actual - repayment(amount, actual) \in 0 .. actual
  BY <1>2, <1>3 DEF repayment, Min2
<1>6. Fits(accrued(m).total_supply + repayment(amount, actual))
  BY <1>2, <1>3, <1>4, <1>5 DEF Fits
<1>7. remaining_debt_ok(actual - repayment(amount, actual), index)
  <2>1. \A n \in 0 .. actual : n * WAD <= actual * WAD
    BY <1>3, MulMono
  <2>2. \A n \in 0 .. actual : n * WAD \in Nat /\ n * WAD <= U128_MAX
    BY <1>3, <1>4, <2>1
  <2> QED BY <1>1, <1>5, <2>2 DEF remaining_debt_ok, scaled_debt_ok, Fits
<1>8. actual_debt_ok(pos.debt, pos.user_borrow_index, index)
  BY <1>1, <1>4 DEF actual_debt_ok
<1>9. pos.debt # 0
  BY <1>1 DEF pos
<1> QED BY <1>6, <1>7, <1>8, <1>9 DEF repay_ok, pos, index, actual

LEMMA WithdrawOpen ==
    ASSUME Inv, NEW u \in Accounts, NEW m \in Markets, NEW amount \in Amounts,
           amount > 0, can_accrue(m), ExitFits(u, m), amount <= shares[u][m],
           redeemed(amount, accrued(m)) <= cash[m]
    PROVE  withdraw_ok(u, m, amount, accrued(m))
<1> USE Scales
<1>1. /\ accrued(m).supply_index \in Nat /\ accrued(m).total_supply = cash[m]
      /\ amount \in Nat /\ shares[u][m] \in Nat
  BY AccruedMarket, StateTypes, ControllerAssumption DEF Advanced, InterestStates, U128
<1>2. amount * accrued(m).supply_index <= shares[u][m] * accrued(m).supply_index
  BY <1>1, MulMono
<1>3. /\ amount * accrued(m).supply_index \in Nat
      /\ shares[u][m] * accrued(m).supply_index \in Nat
      /\ HALF_WAD \in Nat /\ U128_MAX \in Nat
  BY <1>1, MulNat, WadMathAssumption DEF HALF_WAD
<1>4. Fits(shares[u][m] * accrued(m).supply_index + HALF_WAD)
  BY DEF ExitFits
<1>5. Fits(amount * accrued(m).supply_index + HALF_WAD)
  BY ONLY <1>2, <1>3, <1>4 DEF Fits
<1> QED BY <1>1, <1>5 DEF withdraw_ok, wad_mul_ok

(***************************************************************************)
(* Whatever the oracle says, a debtor's repayment and a lender's           *)
(* withdrawal of what the vault holds pass every check of handle_repay and *)
(* handle_withdraw, in every market that can accrue and at every size that *)
(* a u128 holds.  This is ExitsStayOpen without ENABLED.                   *)
(***************************************************************************)
THEOREM ExitsOpenCorrect == Spec /\ []NeverFrozen => []ExitsOpen
<1>1. Inv /\ NeverFrozen => ExitsOpen
  <2> SUFFICES ASSUME Inv, NeverFrozen, NEW u \in Accounts, NEW m \in Markets,
                      NEW amount \in Amounts, amount > 0, ExitFits(u, m)
               PROVE  /\ position[u][m].debt > 0 => repay_ok(u, m, amount, accrued(m))
                      /\ amount <= shares[u][m] /\ redeemed(amount, accrued(m)) <= cash[m]
                            => withdraw_ok(u, m, amount, accrued(m))
    BY DEF ExitsOpen
  <2>1. can_accrue(m)
    BY DEF NeverFrozen, can_accrue
  <2> QED BY <2>1, RepayOpen, WithdrawOpen
<1> QED BY <1>1, Inductive, PTL
=============================================================================
