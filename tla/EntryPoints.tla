----------------------------- MODULE EntryPoints -----------------------------
(***************************************************************************)
(* The exported functions of the contract (lib.rs) around the handlers: a  *)
(* call reads its parameters and its caller from the host, loads what it   *)
(* needs from storage, runs its handler, and stores what the handler may   *)
(* have changed.  set_vault and the two queries are entry points too.      *)
(*                                                                         *)
(* The handlers are those of LendingController, on the values loaded from  *)
(* the slots; what is added here is everything between them and the        *)
(* ledger.  A handler error rolls the transaction back, as there.          *)
(*                                                                         *)
(* External, and modelled from how the contract uses it: the host answers  *)
(* get_tx_field with TX_ACCOUNT, function_param with a parameter or an     *)
(* error, and the memory a pointer parameter points into with any account. *)
(* HostContext moves assets of market m between wallets, the contract      *)
(* account and the account that is passed as the vault of m.  A field the  *)
(* probes write belongs to its owner and is apart from the slots.          *)
(***************************************************************************)
EXTENDS Storage, Health

CONSTANTS
    Senders,          \* the accounts that call, each a member of AccountIDs
    TX_ACCOUNT,       \* the bytes the host answers for a sender's sfAccount
    AssetIds,         \* asset_id parameters, NoParam among them
    RawAmounts,       \* amount parameters, NoParam among them
    NoParam,          \* function_param fails
    DEFAULT_AMOUNT,       \* 1_000_000 in the source
    DEFAULT_DEBT_AMOUNT,  \* 500_000 in the source
    U64_MAX,              \* 2^64 - 1 in the source
    V1_MARKETS, INITIAL_WALLETS, PriceVectors, MaxTime

ASSUME EntryAssumption ==
    /\ Senders \subseteq AccountIDs \ {ZERO_ACCOUNT}
    /\ \A u \in Senders : TX_ACCOUNT[u] \in {u, <<ACCOUNT_BYTES>> \o u}
    /\ AssetIds \subseteq Nat \cup {NoParam}
    /\ RawAmounts \subseteq Nat \cup {NoParam}
    /\ DEFAULT_AMOUNT \in Nat \ {0} /\ DEFAULT_DEBT_AMOUNT \in Nat \ {0}
    /\ U64_MAX \in Nat /\ WAD <= U64_MAX

VARIABLES
    now,            \* ledger close time
    feed,           \* the DIA Oracle object
    slots,          \* the contract's storage
    wallet,         \* tokens held by each account
    held,           \* tokens held by the contract account
    vault_balance,  \* tokens held by each account as a market's vault
    data            \* owner and field of what the probes have written

entryVars == <<now, feed, slots, wallet, held, vault_balance, data>>

(***************************************************************************)
(* Parameters and caller.                                                  *)
(***************************************************************************)
read_param(param) == IF param = NoParam THEN 0 ELSE param

asset_index(asset_id) == read_param(asset_id) % 256

or_default(raw, default) == IF read_param(raw) = 0 THEN default ELSE read_param(raw)

\* The answer in a buffer of one byte more than an account has.
tx_field_buffer(u) ==
    [i \in 1 .. ACCOUNT_BYTES + 1 |->
        IF i <= Len(TX_ACCOUNT[u]) THEN TX_ACCOUNT[u][i] ELSE 0]

length_prefixed(u) ==
    \/ Len(TX_ACCOUNT[u]) = ACCOUNT_BYTES + 1
    \/ TX_ACCOUNT[u][1] = ACCOUNT_BYTES

get_caller(u) ==
    LET from == IF length_prefixed(u) THEN 1 ELSE 0
    IN  [i \in 1 .. ACCOUNT_BYTES |-> tx_field_buffer(u)[i + from]]

Callers == {get_caller(u) : u \in Senders}

Accounts == Senders \cup Callers

Vaults == {ZERO_ACCOUNT} \cup Callers

(***************************************************************************)
(* The contract's records as they stand in storage.                        *)
(***************************************************************************)
vault(m) == load_vault_account(slots, m)

\* What is within reach of a market: its vault, and what was paid before there
\* was one.
cash_of(m) ==
    vault_balance[vault(m)][m]
        + (IF vault(m) = ZERO_ACCOUNT THEN 0 ELSE vault_balance[ZERO_ACCOUNT][m])

Amounts ==
    {or_default(raw, DEFAULT_AMOUNT) : raw \in RawAmounts}
        \cup {or_default(raw, DEFAULT_DEBT_AMOUNT) : raw \in RawAmounts}
        \cup {read_param(raw) : raw \in RawAmounts}

\* What LendingController takes for granted of its parameters.
ASSUME BooksAssumption ==
    /\ V1_MARKETS \in [Markets -> MarketConfigs]
    /\ INITIAL_WALLETS \in [Accounts -> [Markets -> Nat]]
    /\ PriceVectors \subseteq [Markets -> U128]
    /\ MaxTime \in Nat

Books == INSTANCE LendingController WITH
    interest <- load_all_interest(slots),
    position <- [u \in Accounts |-> load_position(slots, u)],
    shares   <- [u \in Accounts |-> [m \in Markets |-> load_supply_shares(slots, u, m)]],
    cash     <- [m \in Markets |-> cash_of(m)]

position_of(u) == load_position(slots, u)

EntryInit ==
    /\ now = 1
    /\ feed = [prices |-> [m \in Markets |-> 0], last_update_time |-> 0]
    /\ slots = NoSlots
    /\ wallet = INITIAL_WALLETS
    /\ held = [m \in Markets |-> 0]
    /\ vault_balance = [v \in Vaults |-> [m \in Markets |-> 0]]
    /\ data = {}

(***************************************************************************)
(* HostContext, by its contract.                                           *)
(***************************************************************************)
vault_deposit(m, amount) ==
    vault_balance' = [vault_balance EXCEPT ![vault(m)][m] = @ + amount]

vault_withdraw(m, amount) ==
    /\ amount <= vault_balance[vault(m)][m]
    /\ vault_balance' = [vault_balance EXCEPT ![vault(m)][m] = @ - amount]

transfer_to(balances, recipient, m, amount) ==
    [balances EXCEPT ![recipient][m] = @ + amount]

(***************************************************************************)
(* Entry points.  u sends the transaction; its wallet pays what is         *)
(* attached.                                                               *)
(***************************************************************************)
SupplyAt(u, caller, m, amount, state) ==
    /\ amount <= wallet[u][m]
    /\ Books!supply_ok(caller, m, amount, state)
    /\ slots' = written(written(slots,
            interest_slots(m, Books!book_supply(state, amount))),
            shares_slot(caller, m, load_supply_shares(slots, caller, m)
                                     + Books!minted(amount, state)))
    /\ wallet' = [wallet EXCEPT ![u][m] = @ - amount]
    /\ vault_deposit(m, amount)
    /\ UNCHANGED <<now, feed, held, data>>

supply(u, m, raw) ==
    SupplyAt(u, get_caller(u), m, or_default(raw, DEFAULT_AMOUNT), Books!accrued(m))

WithdrawAt(caller, m, burned, state) ==
    LET amount == Books!redeemed(burned, state)
    IN  /\ Books!withdraw_ok(caller, m, burned, state)
        /\ vault_withdraw(m, amount)
        /\ slots' = written(written(slots,
                interest_slots(m, Books!book_withdraw(state, amount))),
                shares_slot(caller, m, load_supply_shares(slots, caller, m) - burned))
        /\ wallet' = transfer_to(wallet, caller, m, amount)
        /\ UNCHANGED <<now, feed, held, data>>

withdraw(u, m, raw) ==
    WithdrawAt(get_caller(u), m, or_default(raw, DEFAULT_AMOUNT), Books!accrued(m))

DepositAt(u, caller, m, amount, pos) ==
    /\ amount <= wallet[u][m]
    /\ Books!deposit_ok(caller, m, amount)
    /\ slots' = written(slots,
            position_slots(caller, [pos EXCEPT ![m].collateral = @ + amount]))
    /\ wallet' = [wallet EXCEPT ![u][m] = @ - amount]
    /\ held' = [held EXCEPT ![m] = @ + amount]
    /\ UNCHANGED <<now, feed, vault_balance, data>>

\* Faulty variant: leaves the position it changed unstored.
deposit_unstored(u, m, raw) ==
    LET amount == or_default(raw, DEFAULT_AMOUNT)
    IN  /\ amount <= wallet[u][m]
        /\ Books!deposit_ok(get_caller(u), m, amount)
        /\ wallet' = [wallet EXCEPT ![u][m] = @ - amount]
        /\ held' = [held EXCEPT ![m] = @ + amount]
        /\ UNCHANGED <<now, feed, slots, vault_balance, data>>

deposit_collateral(u, m, raw) ==
    DepositAt(u, get_caller(u), m, or_default(raw, DEFAULT_AMOUNT),
              position_of(get_caller(u)))

WithdrawCollateralAt(caller, m, amount) ==
    /\ Books!withdraw_collateral_ok(caller, m, amount)
    /\ slots' = written(slots,
            position_slots(caller,
                           Books!without_collateral(position_of(caller), m, amount)))
    /\ wallet' = transfer_to(wallet, caller, m, amount)
    /\ held' = [held EXCEPT ![m] = @ - amount]
    /\ UNCHANGED <<now, feed, vault_balance, data>>

withdraw_collateral(u, m, raw) ==
    WithdrawCollateralAt(get_caller(u), m, or_default(raw, DEFAULT_AMOUNT))

BorrowAt(caller, m, amount, states) ==
    /\ Books!borrow_ok(caller, m, amount, states)
    /\ vault_withdraw(m, amount)
    /\ slots' = written(written(slots,
            position_slots(caller, [position_of(caller) EXCEPT
                ![m] = Books!borrowed(@, amount, states[m].borrow_index)])),
            all_interest_slots([states EXCEPT ![m] = Books!book_borrow(@, amount)]))
    /\ wallet' = transfer_to(wallet, caller, m, amount)
    /\ UNCHANGED <<now, feed, held, data>>

borrow(u, m, raw) ==
    BorrowAt(get_caller(u), m, or_default(raw, DEFAULT_DEBT_AMOUNT),
             [load_all_interest(slots) EXCEPT ![m] = Books!accrued(m)])

\* What exceeds the debt goes to the account the contract takes for the caller.
RepayAt(u, caller, m, amount, state, actual) ==
    LET repaid == Books!repayment(amount, actual)
    IN  /\ amount <= wallet[u][m]
        /\ Books!repay_ok(caller, m, amount, state)
        /\ slots' = written(written(slots,
                position_slots(caller, [position_of(caller) EXCEPT
                    ![m] = Books!repaid_down(@, actual - repaid, state.borrow_index)])),
                interest_slots(m, Books!book_repay(state, repaid)))
        /\ wallet' = transfer_to([wallet EXCEPT ![u][m] = @ - amount],
                                 caller, m, amount - repaid)
        /\ vault_deposit(m, repaid)
        /\ UNCHANGED <<now, feed, held, data>>

RepayIn(u, caller, m, amount, state) ==
    RepayAt(u, caller, m, amount, state,
            Books!debt_at(position_of(caller)[m], state.borrow_index))

repay(u, m, raw) ==
    RepayIn(u, get_caller(u), m, or_default(raw, DEFAULT_DEBT_AMOUNT), Books!accrued(m))

\* The borrower is read from memory and may be any account; the amount has no
\* default.
SeizeAt(u, caller, borrower, d, c, amount, states, repaid, seized, remaining) ==
    /\ Books!seize_ok(borrower, d, c, states, repaid, seized, remaining)
    /\ slots' = written(written(slots,
            position_slots(borrower,
                Books!seized_position(borrower, d, c, states, seized, remaining))),
            all_interest_slots([states EXCEPT ![d] = Books!book_repay(@, repaid)]))
    /\ wallet' = transfer_to([wallet EXCEPT ![u][d] = @ - amount], caller, c, seized)
    /\ held' = [held EXCEPT ![d] = @ + (amount - repaid), ![c] = @ - seized]
    /\ vault_deposit(d, repaid)
    /\ UNCHANGED <<now, feed, data>>

LiquidateAt(u, borrower, d, c, amount, states, actual, prices, repaid) ==
    /\ Books!liquidate_ok(borrower, d, c, amount, states, actual, prices, repaid)
    /\ SeizeAt(u, get_caller(u), borrower, d, c, amount, states, repaid,
               collateral_to_seize(repaid, prices, d, c, V1_MARKETS[c].liquidation_bonus),
               saturating_sub(actual[d].debt, repaid))

LiquidateIn(u, borrower, d, c, amount, states, actual, prices) ==
    LiquidateAt(u, borrower, d, c, amount, states, actual, prices,
                Books!liquidation_repaid(actual, prices, d, amount))

LiquidateOf(u, borrower, d, c, amount, states) ==
    LiquidateIn(u, borrower, d, c, amount, states,
                Books!actual_position(position_of(borrower), states), get_all_prices(feed))

liquidate(u, borrower, d, c, raw) ==
    /\ read_param(raw) <= wallet[u][d]
    /\ load_position(slots, borrower)[d].debt # 0
    /\ LiquidateOf(u, borrower, d, c, read_param(raw),
                   [load_all_interest(slots) EXCEPT ![d] = Books!accrued(d),
                                                    ![c] = Books!accrued(c)])

\* Faulty variant: the last caller is the vault.
set_vault_again(u, m) ==
    /\ slots' = written(slots, vault_slot(m, get_caller(u)))
    /\ UNCHANGED <<now, feed, wallet, held, vault_balance, data>>

\* Whoever calls first.
set_vault(u, m) ==
    /\ vault(m) = ZERO_ACCOUNT
    /\ slots' = written(slots, vault_slot(m, get_caller(u)))
    /\ UNCHANGED <<now, feed, wallet, held, vault_balance, data>>

(***************************************************************************)
(* The probes: debugging aids that anybody may call.  They do not use the  *)
(* contract's slots but the Data field of its ledger object and the data   *)
(* object of an account.                                                   *)
(***************************************************************************)
Probed(owner, field) ==
    /\ data' = data \cup {<<owner, field>>}
    /\ UNCHANGED <<now, feed, slots, wallet, held, vault_balance>>

probe_supply_state == Probed("contract", "Data")

\* An account that does not fit the buffer leaves it zero.
probed_account(u) ==
    IF Len(TX_ACCOUNT[u]) = ACCOUNT_BYTES THEN TX_ACCOUNT[u] ELSE ZERO_ACCOUNT

probe_collateral(u) == Probed(probed_account(u), "t1")

(***************************************************************************)
(* The ledger.                                                             *)
(***************************************************************************)
Tick ==
    /\ now < MaxTime
    /\ now' = now + 1
    /\ UNCHANGED <<feed, slots, wallet, held, vault_balance, data>>

PostPrices(prices) ==
    /\ feed' = [prices |-> prices, last_update_time |-> now]
    /\ UNCHANGED <<now, slots, wallet, held, vault_balance, data>>

\* A call whose asset_id names none of the markets is rejected.
Addressed == {asset_index(asset_id) : asset_id \in AssetIds} \cap Markets

EntryNext ==
    \/ \E u \in Senders, m \in Addressed, raw \in RawAmounts :
          \/ supply(u, m, raw)
          \/ withdraw(u, m, raw)
          \/ deposit_collateral(u, m, raw)
          \/ withdraw_collateral(u, m, raw)
          \/ borrow(u, m, raw)
          \/ repay(u, m, raw)
    \/ \E u \in Senders, borrower \in Accounts, d, c \in Addressed, raw \in RawAmounts :
          liquidate(u, borrower, d, c, raw)
    \/ \E u \in Senders, m \in Addressed : set_vault(u, m)
    \/ probe_supply_state
    \/ \E u \in Senders : probe_collateral(u)
    \/ Tick
    \/ \E prices \in PriceVectors : PostPrices(prices)

EntrySpec == EntryInit /\ [][EntryNext]_entryVars

(***************************************************************************)
(* The queries: what they hand to set_return_value.                        *)
(***************************************************************************)

\* A debt that cannot be brought up to date is reported as it is stored.
reported_debt(pos, state) ==
    IF actual_debt_ok(pos.debt, pos.user_borrow_index, state.borrow_index)
    THEN get_actual_debt(pos.debt, pos.user_borrow_index, state.borrow_index)
    ELSE pos.debt

reported_position(u, pos, states) ==
    [m \in Markets |-> [collateral |-> pos[m].collateral,
                        debt |-> reported_debt(pos[m], states[m]),
                        supply_shares |-> load_supply_shares(slots, u, m)]]

get_user_position(u) == reported_position(u, position_of(u), load_all_interest(slots))

\* Faulty variant: collateral counts as far as it can be borrowed against.
reported_health_by_ltv(reported) ==
    IF total_debt_usd(reported, get_all_prices(feed)) = 0 THEN U128_MAX
    ELSE wad_ratio(weighted_collateral(reported, get_all_prices(feed), ltvs(V1_MARKETS)),
                   total_debt_usd(reported, get_all_prices(feed)))

reported_health(reported) ==
    calculate_health_factor(reported, get_all_prices(feed), V1_MARKETS)

get_health_factor_ok(u) ==
    /\ all_prices_ok(feed, now)
    /\ health_factor_ok(get_user_position(u), get_all_prices(feed), V1_MARKETS)

get_health_factor(u) == Min2(reported_health(get_user_position(u)), U64_MAX)

-----------------------------------------------------------------------------

(***************************************************************************)
(* The entry points do to storage what LendingController says the handlers *)
(* do to the books: no field is dropped between a load and a store, none   *)
(* is written for another account or market, a slot that was never written *)
(* reads as the initial record, and no call reaches a market or an amount  *)
(* its parameters do not name.                                             *)
(***************************************************************************)
BooksKept == Books!Spec

(***************************************************************************)
(* The assets of a market are in one vault at a time: nobody takes over a  *)
(* vault that holds assets (set_vault writes once, lib.rs:497-503), so     *)
(* that only what was paid before a vault was registered stays behind.     *)
(***************************************************************************)
OneVault ==
    \A v \in Vaults, m \in Markets :
        vault_balance[v][m] > 0 => v \in {ZERO_ACCOUNT, vault(m)}

\* What the contract finds when asked to liquidate u for d and c now.
Liquidatable(u, d, c) ==
    LET states == [load_all_interest(slots) EXCEPT ![d] = Books!accrued(d),
                                                   ![c] = Books!accrued(c)]
        actual == Books!actual_position(position_of(u), states)
    IN  /\ Books!can_accrue(d)
        /\ Books!can_accrue(c)
        /\ Books!actual_position_ok(position_of(u), states)
        /\ health_factor_ok(actual, get_all_prices(feed), V1_MARKETS)
        => is_liquidatable(calculate_health_factor(actual, get_all_prices(feed), V1_MARKETS))

(***************************************************************************)
(* The queries use stored indexes and fall back to stored debts where the  *)
(* handlers accrue or fail, and cut the health factor to 64 bits: still, a *)
(* position that get_health_factor reports below 1.0 is one that liquidate *)
(* accepts for every pair of markets in which it gets that far, and no     *)
(* debt that get_user_position reports is more than repay would take.      *)
(***************************************************************************)
QueriesTrue ==
    \A u \in Accounts :
        /\ get_health_factor_ok(u) /\ get_health_factor(u) < WAD =>
              \A d, c \in Addressed : d # c => Liquidatable(u, d, c)
        /\ \A m \in Addressed : Books!can_accrue(m) =>
              get_user_position(u)[m].debt
                  <= Books!debt_at(position_of(u)[m], Books!accrued(m).borrow_index)

Credited(u, m) ==
    \/ load_supply_shares(slots', u, m) > load_supply_shares(slots, u, m)
    \/ load_position(slots', u)[m].collateral > load_position(slots, u)[m].collateral
    \/ \E v \in Accounts :
          LET index == load_interest(slots', m).borrow_index
          IN  Books!debt_at(load_position(slots', v)[m], index)
                  < Books!debt_at(load_position(slots, v)[m], index)

(***************************************************************************)
(* Who pays is credited: when the assets of an account go down, the same   *)
(* account has more shares or collateral in that market, or a debt in it   *)
(* has gone down by the call (its own in repay, the borrower's in          *)
(* liquidate).  The payer is the sender of the transaction; whose record   *)
(* is credited depends on what get_caller makes of the host's answer       *)
(* ("the caller's 20-byte AccountID (sfAccount = TX sender)", host.rs:186).*)
(***************************************************************************)
PayerCredited ==
    [][\A u \in Accounts, m \in Addressed :
          wallet'[u][m] < wallet[u][m] => Credited(u, m)]_entryVars
=============================================================================
