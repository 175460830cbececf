-------------------------- MODULE LendingController --------------------------
(***************************************************************************)
(* The lending controller contract (contracts/lending-controller): one     *)
(* action per entry point that changes state, over the storage the entry   *)
(* points load and store, plus the ledger around it.                       *)
(*                                                                         *)
(* A call that fails rolls the transaction back (rollback_tx traps), so it *)
(* changes nothing: the source's error returns are the guards of the       *)
(* actions, the cheapest to evaluate first.  XRPL applies transactions one *)
(* after the other, so an entry point is one atomic step.                  *)
(*                                                                         *)
(* The ledger is external and modelled from how the handlers use it: the   *)
(* asset of supply, deposit, repay and liquidate is attached to the call   *)
(* (it moves from the caller's wallet to the contract account before the   *)
(* handler runs), HostContext::vault_deposit and vault_withdraw move it    *)
(* between the contract account and the market's XLS-65 vault, transfer_to *)
(* moves it from the contract account to a wallet, and a move the source   *)
(* account cannot pay fails.  The vaults have been registered.             *)
(***************************************************************************)
EXTENDS InterestModel, Health, FiniteSets

CONSTANTS
    Accounts,         \* callers: lenders, borrowers and liquidators alike
    V1_MARKETS,       \* the MarketConfig of each market
    INITIAL_WALLETS,  \* tokens of each account in each market's asset
    Amounts,          \* amounts a caller may pass to an entry point
    PriceVectors,     \* what the oracle may publish
    MaxTime           \* bound on the ledger close time

ASSUME ControllerAssumption ==
    /\ V1_MARKETS \in [Markets -> MarketConfigs]
    /\ INITIAL_WALLETS \in [Accounts -> [Markets -> Nat]]
    /\ Amounts \subseteq Nat
    /\ PriceVectors \subseteq [Markets -> U128]
    /\ MaxTime \in Nat

\* An account id is 20 bytes.
ASSUME AccountsAssumption == IsFiniteSet(Accounts)

VARIABLES
    now,       \* ledger close time (HostContext::current_time)
    feed,      \* the DIA Oracle object
    interest,  \* mkt:{i}:int:*    InterestState of each market
    position,  \* pos:{u}:{i}:co, :de, :bi   collateral and debt of each account
    shares,    \* pos:{u}:{i}:sh   scaled supply shares of each account
    wallet,    \* tokens held by each account
    held,      \* tokens held by the contract account
    cash       \* tokens held by each market's supply vault

vars == <<now, feed, interest, position, shares, wallet, held, cash>>

Positions ==
    [collateral : U128, debt : U128, user_borrow_index : U128]

EmptyPosition == [collateral |-> 0, debt |-> 0, user_borrow_index |-> WAD]

NoPrices == [prices |-> [m \in Markets |-> 0], last_update_time |-> 0]

Init ==
    /\ now = 1
    /\ feed = NoPrices
    /\ interest = [m \in Markets |-> FreshInterest]
    /\ position = [u \in Accounts |-> [m \in Markets |-> EmptyPosition]]
    /\ shares = [u \in Accounts |-> [m \in Markets |-> 0]]
    /\ wallet = INITIAL_WALLETS
    /\ held = [m \in Markets |-> 0]
    /\ cash = [m \in Markets |-> 0]

(***************************************************************************)
(* Shared by the handlers.                                                 *)
(***************************************************************************)

\* Faulty variant: every accrual starts over from an index of 1.0.
accrued_from_one(m) ==
    update_interest_indexes([interest[m] EXCEPT !.borrow_index = WAD],
                            V1_MARKETS[m], now)

\* A market's interest state after accruing it up to now.  A handler that
\* accrues is an operator of that state: TLC evaluates an argument once, and a
\* definition of a LET in an action at each of its uses.
accrued(m) == update_interest_indexes(interest[m], V1_MARKETS[m], now)

\* Faulty variant: reads the prices whenever it accrues.
can_accrue_priced(m) == all_prices_ok(feed, now) /\ accrual_ok(interest[m], now)

can_accrue(m) == accrual_ok(interest[m], now)

\* The debt of a position in one market at an index of that market.
debt_at(pos, index) == get_actual_debt(pos.debt, pos.user_borrow_index, index)

debt_owed(pos, states, m) == debt_at(pos[m], states[m].borrow_index)

\* A position with the interest of the given markets' indexes in its debts.
actual_position(pos, states) ==
    [pos EXCEPT ![ASSET_XRP].debt = debt_owed(pos, states, ASSET_XRP),
                ![ASSET_RLUSD].debt = debt_owed(pos, states, ASSET_RLUSD),
                ![ASSET_WBTC].debt = debt_owed(pos, states, ASSET_WBTC)]

actual_position_ok(pos, states) ==
    \A m \in Markets :
        actual_debt_ok(pos[m].debt, pos[m].user_borrow_index,
                       states[m].borrow_index)

attached(u, m, amount) == amount <= wallet[u][m]

\* What each handler books in its market once it is accrued.
book_supply(state, amount) == [state EXCEPT !.total_supply = @ + amount]

book_withdraw(state, amount) == [state EXCEPT !.total_supply = @ - amount]

\* Faulty variant: does not book the cash that leaves.
book_borrow_keeps_cash(state, amount) ==
    [state EXCEPT !.total_borrows = @ + amount]

\* Faulty variant: does not book the debt that is made.
book_borrow_keeps_debt(state, amount) ==
    [state EXCEPT !.total_supply = @ - amount]

book_borrow(state, amount) ==
    [state EXCEPT !.total_borrows = @ + amount, !.total_supply = @ - amount]

book_repay(state, amount) ==
    [state EXCEPT !.total_borrows = saturating_sub(@, amount),
                  !.total_supply = @ + amount]

\* A debt rewritten, at the index it is relative to.
with_debt(pos, debt, index) ==
    [pos EXCEPT !.debt = debt, !.user_borrow_index = index]

(***************************************************************************)
(* supply: mint scaled shares for cash.                                    *)
(***************************************************************************)
minted(amount, state) == wad_div(amount, state.supply_index)

supply_ok(u, m, amount, state) ==
    /\ amount > 0
    /\ can_accrue(m)
    /\ wad_div_ok(amount, state.supply_index)
    /\ Fits(shares[u][m] + minted(amount, state))
    /\ Fits(state.total_supply + amount)

SupplyAt(u, m, amount, state) ==
    /\ attached(u, m, amount)
    /\ supply_ok(u, m, amount, state)
    /\ shares' = [shares EXCEPT ![u][m] = @ + minted(amount, state)]
    /\ interest' = [interest EXCEPT ![m] = book_supply(state, amount)]
    /\ wallet' = [wallet EXCEPT ![u][m] = @ - amount]
    /\ cash' = [cash EXCEPT ![m] = @ + amount]
    /\ UNCHANGED <<now, feed, position, held>>

Supply(u, m, amount) == SupplyAt(u, m, amount, accrued(m))

(***************************************************************************)
(* withdraw: burn shares for the cash they stand for.                      *)
(***************************************************************************)
redeemed(burned, state) == wad_mul(burned, state.supply_index)

withdraw_ok(u, m, burned, state) ==
    /\ burned > 0
    /\ burned <= shares[u][m]
    /\ can_accrue(m)
    /\ wad_mul_ok(burned, state.supply_index)
    /\ redeemed(burned, state) <= state.total_supply
    /\ redeemed(burned, state) <= cash[m]

WithdrawAt(u, m, burned, state) ==
    LET amount == redeemed(burned, state)
    IN  /\ withdraw_ok(u, m, burned, state)
        /\ shares' = [shares EXCEPT ![u][m] = @ - burned]
        /\ interest' = [interest EXCEPT ![m] = book_withdraw(state, amount)]
        /\ wallet' = [wallet EXCEPT ![u][m] = @ + amount]
        /\ cash' = [cash EXCEPT ![m] = @ - amount]
        /\ UNCHANGED <<now, feed, position, held>>

Withdraw(u, m, burned) == WithdrawAt(u, m, burned, accrued(m))

\* Faulty variant: keeps the asset and credits nothing.
DepositUncredited(u, m, amount) ==
    /\ attached(u, m, amount)
    /\ amount > 0
    /\ wallet' = [wallet EXCEPT ![u][m] = @ - amount]
    /\ held' = [held EXCEPT ![m] = @ + amount]
    /\ UNCHANGED <<now, feed, interest, position, shares, cash>>

(***************************************************************************)
(* deposit_collateral: the contract account itself keeps the asset.        *)
(***************************************************************************)
deposit_ok(u, m, amount) ==
    /\ amount > 0
    /\ V1_MARKETS[m].collateral_enabled
    /\ Fits(position[u][m].collateral + amount)

DepositCollateral(u, m, amount) ==
    /\ attached(u, m, amount)
    /\ deposit_ok(u, m, amount)
    /\ position' = [position EXCEPT ![u][m].collateral = @ + amount]
    /\ wallet' = [wallet EXCEPT ![u][m] = @ - amount]
    /\ held' = [held EXCEPT ![m] = @ + amount]
    /\ UNCHANGED <<now, feed, interest, shares, cash>>

(***************************************************************************)
(* withdraw_collateral: the health check uses the debts at the indexes as  *)
(* they are stored; no market is accrued.                                  *)
(***************************************************************************)
without_collateral(pos, m, amount) == [pos EXCEPT ![m].collateral = @ - amount]

withdraw_collateral_ok(u, m, amount) ==
    LET post   == without_collateral(position[u], m, amount)
        actual == actual_position(post, interest)
        prices == get_all_prices(feed)
    IN  /\ amount > 0
        /\ amount <= position[u][m].collateral
        /\ all_prices_ok(feed, now)
        /\ actual_position_ok(post, interest)
        /\ health_factor_ok(actual, prices, V1_MARKETS)
        /\ ~is_liquidatable(calculate_health_factor(actual, prices, V1_MARKETS))
        /\ amount <= held[m]

WithdrawCollateral(u, m, amount) ==
    /\ withdraw_collateral_ok(u, m, amount)
    /\ position' = [position EXCEPT ![u] = without_collateral(@, m, amount)]
    /\ wallet' = [wallet EXCEPT ![u][m] = @ + amount]
    /\ held' = [held EXCEPT ![m] = @ - amount]
    /\ UNCHANGED <<now, feed, interest, shares, cash>>

(***************************************************************************)
(* borrow: only the borrowed market is accrued; the position's other debts *)
(* are taken at their stored indexes.                                      *)
(***************************************************************************)
borrow_ok(u, m, amount, states) ==
    LET actual == actual_position(position[u], states)
        prices == get_all_prices(feed)
        debt   == actual[m].debt + amount
    IN  /\ amount > 0
        /\ V1_MARKETS[m].borrow_enabled
        /\ amount <= cash[m]
        /\ all_prices_ok(feed, now)
        /\ can_accrue(m)
        /\ actual_position_ok(position[u], states)
        /\ usd_totals_ok(actual, prices, ltvs(V1_MARKETS))
        /\ Fits(asset_usd_value(amount, prices, m))
        /\ asset_usd_value(amount, prices, m)
              <= calculate_borrow_capacity(actual, prices, V1_MARKETS)
        /\ amount <= states[m].total_supply
        /\ scaled_debt_ok(debt, states[m].borrow_index)
        /\ Fits(states[m].total_borrows + amount)

\* A position in m that owes `amount` more.
borrowed(pos, amount, index) ==
    with_debt(pos, to_scaled_debt(debt_at(pos, index) + amount, index), index)

BorrowAt(u, m, amount, states) ==
    /\ borrow_ok(u, m, amount, states)
    /\ position' = [position EXCEPT
          ![u][m] = borrowed(@, amount, states[m].borrow_index)]
    /\ interest' = [states EXCEPT ![m] = book_borrow(@, amount)]
    /\ wallet' = [wallet EXCEPT ![u][m] = @ + amount]
    /\ cash' = [cash EXCEPT ![m] = @ - amount]
    /\ UNCHANGED <<now, feed, shares, held>>

Borrow(u, m, amount) ==
    BorrowAt(u, m, amount, [interest EXCEPT ![m] = accrued(m)])

(***************************************************************************)
(* A debt rewritten after a repayment: cleared, or renormalised.           *)
(***************************************************************************)
remaining_debt_ok(remaining, index) ==
    remaining # 0 => scaled_debt_ok(remaining, index)

remaining_debt(remaining, index) ==
    IF remaining = 0 THEN 0 ELSE to_scaled_debt(remaining, index)

\* A position in one market that owes what remains.
repaid_down(pos, remaining, index) ==
    with_debt(pos, remaining_debt(remaining, index), index)

\* Faulty variant: takes all of the amount.
repayment_uncapped(amount, actual) == amount

\* What repay takes of the amount attached.
repayment(amount, actual) == Min2(amount, actual)

(***************************************************************************)
(* repay: what exceeds the debt returns to the caller.  No oracle.         *)
(***************************************************************************)
repay_ok(u, m, amount, state) ==
    LET pos    == position[u][m]
        index  == state.borrow_index
        actual == debt_at(pos, index)
    IN  /\ amount > 0
        /\ pos.debt # 0
        /\ can_accrue(m)
        /\ actual_debt_ok(pos.debt, pos.user_borrow_index, index)
        /\ remaining_debt_ok(actual - repayment(amount, actual), index)
        /\ Fits(state.total_supply + repayment(amount, actual))

RepayAt(u, m, amount, state) ==
    LET index  == state.borrow_index
        actual == debt_at(position[u][m], index)
        repaid == repayment(amount, actual)
    IN  /\ attached(u, m, amount)
        /\ repay_ok(u, m, amount, state)
        /\ position' = [position EXCEPT ![u][m] = repaid_down(@, actual - repaid, index)]
        /\ interest' = [interest EXCEPT ![m] = book_repay(state, repaid)]
        /\ wallet' = [wallet EXCEPT ![u][m] = @ - repaid]
        /\ cash' = [cash EXCEPT ![m] = @ + repaid]
        /\ UNCHANGED <<now, feed, shares, held>>

Repay(u, m, amount) == RepayAt(u, m, amount, accrued(m))

(***************************************************************************)
(* liquidate: l repays debt of u in market d, up to half of u's debt over  *)
(* all markets, and seizes u's collateral in market c.  Only d and c are   *)
(* accrued.  The attached amount beyond the repaid debt stays with the     *)
(* contract account.                                                       *)
(***************************************************************************)

\* What the call repays: the amount, the close factor and the debt in d cap it.
liquidation_repaid(actual, prices, d, amount) ==
    Min2(Min2(asset_usd_value(amount, prices, d),
              calculate_max_liquidation(total_debt_usd(actual, prices))),
         asset_usd_value(actual[d].debt, prices, d))
      \div price_per_native(prices, d)

\* Faulty variant: seizes without taking it off the position.
liquidated_keeps_collateral(pos, d, c, debt, index, seized) ==
    [pos EXCEPT ![d] = with_debt(@, debt, index)]

\* Faulty variant: stores the index of the debt with the collateral.
liquidated_wrong_index(pos, d, c, debt, index, seized) ==
    [pos EXCEPT ![d].debt = debt,
                ![c].user_borrow_index = index,
                ![c].collateral = saturating_sub(@, seized)]

\* A position whose debt in d is rewritten and whose collateral in c is seized.
liquidated(pos, d, c, debt, index, seized) ==
    [pos EXCEPT ![d] = with_debt(@, debt, index),
                ![c].collateral = saturating_sub(@, seized)]

seized_position(u, d, c, states, seized, remaining) ==
    LET index == states[d].borrow_index
    IN  liquidated(position[u], d, c, remaining_debt(remaining, index), index,
                   seized)

\* The second half of handle_liquidate, once the amounts are known.
seize_ok(u, d, c, states, repaid, seized, remaining) ==
    LET post == seized_position(u, d, c, states, seized, remaining)
    IN  /\ seized <= position[u][c].collateral
        /\ seized <= held[c]
        /\ remaining_debt_ok(remaining, states[d].borrow_index)
        /\ Fits(states[d].total_supply + repaid)
        /\ actual_position_ok(post, states)
        /\ health_factor_ok(actual_position(post, states),
                            get_all_prices(feed), V1_MARKETS)

Seize(l, u, d, c, amount, states, repaid, seized, remaining) ==
    /\ seize_ok(u, d, c, states, repaid, seized, remaining)
    /\ position' = [position EXCEPT
          ![u] = seized_position(u, d, c, states, seized, remaining)]
    /\ interest' = [states EXCEPT ![d] = book_repay(@, repaid)]
    /\ wallet' = [wallet EXCEPT ![l][d] = @ - amount, ![l][c] = @ + seized]
    /\ held' = [held EXCEPT ![d] = @ + (amount - repaid), ![c] = @ - seized]
    /\ cash' = [cash EXCEPT ![d] = @ + repaid]
    /\ UNCHANGED <<now, feed, shares>>

liquidate_ok(u, d, c, amount, states, actual, prices, repaid) ==
    /\ amount > 0
    /\ d # c
    /\ position[u][d].debt # 0
    /\ all_prices_ok(feed, now)
    /\ can_accrue(d)
    /\ can_accrue(c)
    /\ actual_position_ok(position[u], states)
    /\ health_factor_ok(actual, prices, V1_MARKETS)
    /\ is_liquidatable(calculate_health_factor(actual, prices, V1_MARKETS))
    /\ actual[d].debt # 0
    /\ Fits(asset_usd_value(amount, prices, d))
    /\ price_per_native(prices, d) # 0
    /\ repaid # 0
    /\ liquidation_amounts_ok(repaid, prices, d, c,
                              V1_MARKETS[c].liquidation_bonus)

LiquidateAt(l, u, d, c, amount, states, actual, prices, repaid) ==
    /\ attached(l, d, amount)
    /\ liquidate_ok(u, d, c, amount, states, actual, prices, repaid)
    /\ Seize(l, u, d, c, amount, states, repaid,
             collateral_to_seize(repaid, prices, d, c,
                                 V1_MARKETS[c].liquidation_bonus),
             saturating_sub(actual[d].debt, repaid))

Liquidate(l, u, d, c, amount) ==
    LET states == [interest EXCEPT ![d] = accrued(d), ![c] = accrued(c)]
        actual == actual_position(position[u], states)
        prices == get_all_prices(feed)
    IN  LiquidateAt(l, u, d, c, amount, states, actual, prices,
                    liquidation_repaid(actual, prices, d, amount))

(***************************************************************************)
(* The ledger: a new close time, a new set of prices.                      *)
(***************************************************************************)
Tick ==
    /\ now < MaxTime
    /\ now' = now + 1
    /\ UNCHANGED <<feed, interest, position, shares, wallet, held, cash>>

PostPrices(prices) ==
    /\ feed' = [prices |-> prices, last_update_time |-> now]
    /\ UNCHANGED <<now, interest, position, shares, wallet, held, cash>>

Next ==
    \/ \E u \in Accounts, m \in Markets, amount \in Amounts :
          \/ Supply(u, m, amount)
          \/ Withdraw(u, m, amount)
          \/ DepositCollateral(u, m, amount)
          \/ WithdrawCollateral(u, m, amount)
          \/ Borrow(u, m, amount)
          \/ Repay(u, m, amount)
    \/ \E l, u \in Accounts, d, c \in Markets, amount \in Amounts :
          Liquidate(l, u, d, c, amount)
    \/ Tick
    \/ \E prices \in PriceVectors : PostPrices(prices)

Spec == Init /\ [][Next]_vars
=============================================================================
