-------------------------- MODULE LendingProperties --------------------------
(***************************************************************************)
(* What the lending controller must keep true, stated over the state of    *)
(* LendingController.                                                      *)
(***************************************************************************)
EXTENDS LendingController, FiniteSetsExt

(***************************************************************************)
(* The shape of the contract's storage and of the ledger around it.        *)
(***************************************************************************)
TypeOK ==
    /\ now \in Nat
    /\ feed \in Feeds
    /\ interest \in [Markets -> InterestStates]
    /\ position \in [Accounts -> [Markets -> Positions]]
    /\ shares \in [Accounts -> [Markets -> U128]]
    /\ wallet \in [Accounts -> [Markets -> Nat]]
    /\ held \in [Markets -> Nat]
    /\ cash \in [Markets -> Nat]

(***************************************************************************)
(* A market's total_supply, from which handle_withdraw and handle_borrow   *)
(* decide what may leave, is the cash its vault holds: no handler books a  *)
(* payment it does not make, or makes one it does not book.                *)
(***************************************************************************)
CashBacked == \A m \in Markets : interest[m].total_supply = cash[m]

TotalCollateral(m) ==
    SumFunction([u \in Accounts |-> position[u][m].collateral])

(***************************************************************************)
(* The contract account always holds every account's collateral, so that   *)
(* handle_withdraw_collateral and handle_liquidate can always transfer it. *)
(***************************************************************************)
CollateralBacked == \A m \in Markets : TotalCollateral(m) <= held[m]

(***************************************************************************)
(* Indexes start at 1.0 and positions never run ahead of their market, nor *)
(* a market ahead of the ledger: the divisions of get_actual_debt,         *)
(* to_scaled_debt and wad_div are by at least WAD, and no debt is taken at *)
(* an index its market has yet to reach.                                   *)
(***************************************************************************)
IndexesOrdered ==
    \A m \in Markets :
        /\ WAD <= interest[m].supply_index
        /\ WAD <= interest[m].borrow_index
        /\ interest[m].last_update_timestamp <= now
        /\ \A u \in Accounts :
              /\ WAD <= position[u][m].user_borrow_index
              /\ position[u][m].user_borrow_index <= interest[m].borrow_index

(***************************************************************************)
(* The supply index never outgrows the borrow index, however calls of all  *)
(* markets and ticks of the clock interleave: a period's supply rate comes *)
(* from that period's utilization and never exceeds the borrow rate        *)
(* (update_interest_indexes).                                              *)
(***************************************************************************)
SupplyNeverOutgrowsBorrow ==
    \A m \in Markets : interest[m].supply_index <= interest[m].borrow_index

(***************************************************************************)
(* Indexes never fall and a market's clock never runs ahead of the ledger, *)
(* so a share never loses value and a debt never shrinks by waiting.       *)
(***************************************************************************)
MarketsAdvance ==
    \A m \in Markets :
        /\ interest[m].borrow_index <= interest'[m].borrow_index
        /\ interest[m].supply_index <= interest'[m].supply_index
        /\ interest'[m].last_update_timestamp
              \in interest[m].last_update_timestamp .. now

IndexesMonotone == [][MarketsAdvance]_vars

\* u's debts, with the interest booked so far, fit its borrow capacity.
WithinLtv(u) ==
    LET actual == actual_position(position[u], interest)
        prices == get_all_prices(feed)
    IN  total_debt_usd(actual, prices)
            <= weighted_collateral(actual, prices, ltvs(V1_MARKETS))

\* In m, cash goes only to who gives up as much for it.
CashLeft(m) ==
    cash'[m] < cash[m] =>
        \E u \in Accounts :
           /\ wallet'[u][m] - wallet[u][m] = cash[m] - cash'[m]
           /\ \/ /\ shares'[u][m] < shares[u][m]
                 /\ wad_mul(shares[u][m] - shares'[u][m],
                            interest'[m].supply_index) = cash[m] - cash'[m]
              \/ /\ shares' = shares
                 /\ all_prices_ok(feed, now)
                 /\ WithinLtv(u)'

(***************************************************************************)
(* Cash leaves a vault to an account that burns shares worth it, or to a   *)
(* borrower whose debts, this one included, then fit its LTV capacity at   *)
(* fresh prices (handle_withdraw, handle_borrow).                          *)
(***************************************************************************)
CashLeavesSafely == [][\A m \in Markets : CashLeft(m)]_vars

\* Health of a position at given interest states and the current prices.
SolventAt(pos, states) ==
    LET actual == actual_position(pos, states)
        prices == get_all_prices(feed)
    IN  total_debt_usd(actual, prices)
            <= weighted_collateral(actual, prices, thresholds(V1_MARKETS))

(***************************************************************************)
(* Collateral leaves a position in two ways only: its owner withdraws it   *)
(* and is left with a health factor of at least 1.0 at the indexes booked  *)
(* so far, or it is seized while the position is below 1.0, against a      *)
(* repayment of its debt in another market.                                *)
(***************************************************************************)
CollateralLeavesSafely ==
    [][\A u \in Accounts, c \in Markets :
          position'[u][c].collateral < position[u][c].collateral =>
             \/ /\ cash' = cash
                /\ wallet'[u][c] > wallet[u][c]
                /\ SolventAt(position[u], interest)'
             \/ /\ ~SolventAt(position[u], interest')
                /\ \E d \in Markets \ {c} : cash'[d] > cash[d]]_vars

\* What u's collateral in c and its debt in d lose together.
SeizedFairly(u, c, d) ==
    LET prices == get_all_prices(feed)
        actual == actual_position(position[u], interest')
        repaid == asset_usd_value(cash'[d] - cash[d], prices, d)
        seized == asset_usd_value(
            position[u][c].collateral - position'[u][c].collateral, prices, c)
    IN  (seized > 0 /\ cash'[d] > cash[d]) =>
           /\ 2 * repaid <= total_debt_usd(actual, prices)
           /\ seized * BPS <= repaid * (BPS + V1_MARKETS[c].liquidation_bonus)

(***************************************************************************)
(* A liquidation repays at most half of the position's debt and seizes at  *)
(* most the value repaid plus the bonus of the seized market               *)
(* (handle_liquidate, calculate_liquidation_amounts).                      *)
(***************************************************************************)
LiquidationBounded ==
    [][\A u \in Accounts, c, d \in Markets : SeizedFairly(u, c, d)]_vars

\* Tokens of m the contract account holds beyond the collateral it owes.
Surplus(m) == held[m] - TotalCollateral(m)

SurplusGained(m) ==
    Surplus(m)' # Surplus(m) =>
       /\ Surplus(m)' > Surplus(m)
       /\ cash'[m] > cash[m]
       /\ \E u \in Accounts :
             /\ ~SolventAt(position[u], interest')
             /\ position'[u][m].debt # position[u][m].debt

(***************************************************************************)
(* Only a liquidation adds to the tokens nobody is owed, by what the       *)
(* liquidator attached beyond the debt repaid, and nothing takes from      *)
(* them; every other entry point passes on exactly what it took in.        *)
(***************************************************************************)
SurplusOnlyFromLiquidation == [][\A m \in Markets : SurplusGained(m)]_vars

\* What u owes in m, with the interest booked so far.
owed(u, m) == debt_owed(position[u], interest, m)

\* A position that changes in m owes at most what it owed plus what it was lent.
ChargedFairly(u, m) ==
    position'[u][m] # position[u][m] =>
        owed(u, m)' <= debt_owed(position[u], interest', m) + (cash[m] - cash'[m])

(***************************************************************************)
(* Borrowing, repaying and liquidating never charge an account more than   *)
(* it owed with its interest, plus what it was lent, minus what was repaid *)
(* (handle_borrow, handle_repay and handle_liquidate rewrite the principal *)
(* and the index it is relative to).                                       *)
(***************************************************************************)
NeverOvercharged ==
    [][\A u \in Accounts, m \in Markets : ChargedFairly(u, m)]_vars

(***************************************************************************)
(* The stored principal is such that get_actual_debt returns the debt:     *)
(* rewriting it forgives at most one unit of rounding (the promise of      *)
(* to_scaled_debt's comment).                                              *)
(***************************************************************************)
DebtNeverForgiven ==
    [][\A u \in Accounts, m \in Markets :
          position'[u][m].debt # position[u][m].debt =>
              owed(u, m)' + 1 >= debt_owed(position[u], interest', m)
                                 + (cash[m] - cash'[m])]_vars

(***************************************************************************)
(* No market reaches a state in which update_interest_indexes fails: every *)
(* entry point but the two of collateral would be closed in it for good.   *)
(***************************************************************************)
NeverFrozen == \A m \in Markets : accrual_ok(interest[m], now)

(***************************************************************************)
(* Whatever the oracle says, a debtor with the tokens can repay, and a     *)
(* lender can take out what the vault holds (handle_repay, handle_withdraw *)
(* read no price).                                                         *)
(***************************************************************************)
ExitsStayOpen ==
    \A u \in Accounts, m \in Markets, amount \in Amounts :
        /\ position[u][m].debt > 0 /\ attached(u, m, amount)
              => ENABLED Repay(u, m, amount)
        /\ amount <= shares[u][m]
           /\ wad_mul(amount, accrued(m).supply_index) <= cash[m]
              => ENABLED Withdraw(u, m, amount)

\* Every market with its interest up to now, booked or not.
all_accrued == [m \in Markets |-> accrued(m)]

(***************************************************************************)
(* An account that has just withdrawn collateral has a health factor of at *)
(* least 1.0, all interest up to now included.                             *)
(***************************************************************************)
HealthyAfterWithdrawal ==
    [][\A u \in Accounts, m \in Markets :
          cash' = cash /\ position'[u][m].collateral < position[u][m].collateral
              => SolventAt(position[u], all_accrued)']_vars

\* What the accounts owe in m together, at the indexes of given states.
TotalOwed(states, m) ==
    SumFunction([u \in Accounts |-> debt_owed(position[u], states, m)])

\* The borrows of m before a call books its own: with the interest of the
\* period, if the call accrues the market.
BorrowsBefore(m) ==
    IF interest'[m].last_update_timestamp = now THEN accrued(m).total_borrows
    ELSE interest[m].total_borrows

\* What a step adds to the debts in m is added to total_borrows.
DebtBooked(m) ==
    TotalOwed(interest, m)' - TotalOwed(interest', m)
        <= interest'[m].total_borrows - BorrowsBefore(m)

(***************************************************************************)
(* A call adds to a market's total_borrows, on which utilization, rates    *)
(* and the interest of suppliers are computed, at least what it adds to    *)
(* the debts of its borrowers, and takes off no more than their debts lose *)
(* (handle_borrow, handle_repay, handle_liquidate), however the interest   *)
(* and the rounding of each account's debt fall.                           *)
(***************************************************************************)
DebtsBooked == [][\A m \in Markets : DebtBooked(m)]_vars
=============================================================================
