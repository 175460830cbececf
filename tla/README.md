# Verification of the XRPL lending protocol

TLA+ models, TLC instances and TLAPS proofs for the lending controller, a Rust
smart contract of the XRP Ledger (`contracts/lending-controller`), and for the
programs around it. Paths below are relative to the repository root; `lc/` is
short for `contracts/lending-controller/src/`.

## The system

| Part | Source | State | Operations |
|---|---|---|---|
| Fixed-point arithmetic | `lc/math.rs` | none | `wad_mul`, `wad_div`, compounding, rate conversion |
| Interest model | `lc/interest.rs` | `InterestState` per market | rates, `update_interest_indexes`, debt accounting |
| Oracle reads | `lc/oracle.rs` | the DIA Oracle object of the ledger | staleness, RLUSD circuit breaker, `get_all_prices` |
| Health | `lc/health.rs` | none | health factor, borrow capacity, amounts of a liquidation |
| Handlers | `lc/supply.rs`, `lc/collateral.rs`, `lc/borrow.rs`, `lc/liquidation.rs` | positions, shares, market totals | the seven operations of a user |
| Entry points and storage | `lc/lib.rs`, `lc/state.rs` | key-value slots, supply vault of each market | load, handle, store or roll back; `set_vault`; queries; probes |
| Host | `lc/host.rs` | the ledger: accounts, vaults, clock | `HostContext`; for wasm32 partly stubs |
| SDK | `sdk/src` | none (reads the ledger) | submit a call and wait for it, typed calls, health views |
| Keeper | `keeper/src` | prices, cooldown, watched accounts | scan on each ledger, liquidate what is profitable |
| Deployment, dashboard, simulated ledger | `deploy`, `web`, `tests/helpers` | - | scripts, read-only UI, test double |

A user's transaction calls one entry point, with the asset it pays attached.
The entry point loads the slots it needs, runs its handler, which reads the
oracle and the clock and moves money through `HostContext`, and stores the
slots. An error makes the call trap, and the ledger undoes all of it. The
ledger applies transactions one at a time. The keeper and the SDK read the
ledger outside of transactions and act on what they read later: each closed
ledger starts a pipeline of the keeper (fetch prices, scan, liquidate), which
calls the SDK's client, which submits a transaction to a node and polls for it.
The pipelines share one liquidator and one wallet.

### What is hard here

* **Sequences of calls.** No call runs concurrently with another, but each
  accrues a different subset of the three markets, at its own time, and rewrites
  principal and index of a debt. What is stored drifts over long legal sequences.
* **Rounding and width.** Half-up shares, truncated prices per native unit, a
  division with a scaled fallback branch, and one plain u128 subtraction that
  wraps in the release profile (`lc/interest.rs:116`).
* **Money and books.** The tokens are in three places (wallets, the contract
  account, the vaults) and the books in two (positions, market totals).
* **Parameters and storage.** Arguments are cut, defaulted and guessed before a
  handler sees them, and each entry point stores its own subset of the slots it loaded.
* **Stale inputs.** `withdraw_collateral` accrues nothing, `borrow` only one
  market, the oracle may be a day old or off its peg.
* **Off chain.** Nobody awaits a pipeline, so they overlap; a cooldown is read
  before an await, a sequence number before it is used; answers get lost, the
  same transaction is submitted twice, a timeout races the validation.

`PROJECT.json` lists each of these at its line, with the properties that cover it.

### What makes each part correct

* Arithmetic: rounding stays within half a unit; failure means overflow and
  nothing else; a solvent position never looks insolvent.
* Interest: indexes and clocks only move forward; suppliers are paid by
  borrowers; accrual never becomes impossible.
* Handlers: the vault holds what the books say; the contract account covers all
  collateral; debts are neither inflated nor forgiven; cash and collateral leave
  only to those entitled to them; a liquidation takes a bounded amount from a
  position that is under water; who wants to leave can, whatever the oracle says.
* Entry points: what is stored is what the handler decided, under the account that
  called; who pays is credited; queries say nothing the contract disagrees with;
  the assets of a market are in one vault.
* Client: a call takes effect at most once, and a reported success or rejection is true.
* Keeper: transactions of a batch keep their distance; every scan comes to an end;
  a failed read costs one scan and no more.
* Views of the SDK: they agree with the contract, or err on the safe side.

## Modules

| Module | Models | Notes |
|---|---|---|
| `WadMath` | `lc/math.rs` | scales and width are constants; `f_ok` says when the source's `f` returns `Some`/`Ok` |
| `RayMath` | the RAY part of `lc/math.rs` | no handler uses it; what the choice of WAD is measured against |
| `PriceConversion` | `raw_to_wad` of `lc/oracle.rs`, `rawToWad` of `sdk/src/oracle.ts` | the base of the number system is a constant |
| `V1Parameters` | the constants of `lc/state.rs` | and the prices `WasmOracle` answers in the wasm32 build; with assumptions that TLC evaluates: what every other module takes for granted of them |
| `InterestModel` | `lc/interest.rs`, records of `lc/state.rs` | `update_interest_indexes` with all its overflow checks; the reserve-factor argument wraps as in the release profile |
| `Oracle` | `lc/oracle.rs` | one feed with one time stamp; price 0 stands for every entry the contract rejects |
| `Health` | `lc/health.rs` | positions and prices are functions from `Markets` |
| `LendingController` | the handlers | the state machine, one action per handler, plus `Tick` and `PostPrices` |
| `Storage` | keys of `lc/state.rs`, loads and stores of `lc/lib.rs` | a key is the sequence of its parts, an account a sequence of bytes |
| `EntryPoints` | the exported functions of `lc/lib.rs`, `function_param` and `get_caller` of `lc/host.rs` | the handlers' operators on loaded records; implements `LendingController` (`BooksKept`) |
| `MCEntry` | - | the instance for TLC |
| `LendingProperties` | - | invariants and action properties of the controller |
| `MCLending` | - | small instances for TLC |
| `ArithmeticProperties` | - | a walk over all pairs of operands, and what the operators satisfy at each |
| `MCArithmetic` | - | instances of the walk |
| `ArithmeticLemmas` | - | lemmas about every operator of `WadMath`, `InterestModel` and `Health`, and about sums over finite sets |
| `ArithmeticProofs` | - | the properties of the walk, for all operands and scales |
| `LendingProofs` | - | the inductive invariant of the controller and what follows |
| `LendingStepProofs` | - | what one step of the controller may do to debts, collateral and vaults, and to their sums over all accounts |
| `ScannerProofs` | - | what the keeper's scans promise of the contract |
| `EntryProofs` | - | storage gives back what was stored; the entry points implement the controller, and keep what it keeps; queries and payments; vaults are not taken over |
| `RemoteCall` | - | abstract: what submitting a call over an unreliable connection promises |
| `Submission` | `submitInvoke` of `sdk/src/client.ts` | one action per stretch between two awaits; the node is external |
| `Keeper` | `keeper/src/index.ts`, `oracle-watcher.ts`, `liquidator.ts` | EXTENDS `Submission`: each opportunity of a batch is a call of the client |
| `MCKeeper` | - | the instance for TLC |
| `ClientView` | `sdk/src/positions.ts`, `health.ts`, `oracle.ts`, `liquidation.ts`, `keeper/src/profitability.ts` | what is computed off chain from the contract's slots; the contract's operator is used where the formula is the same |
| `Scanner` | scan of `keeper/src/monitor.ts` and the calls made of it | EXTENDS `LendingController` and `ClientView`: keeper and contract composed |
| `MCScanner` | - | the instance for TLC |
| `SubmissionProofs` | - | lemmas: every step of client and node keeps their types, and keeps the promise of `RemoteCall` |
| `KeeperProofs` | - | the inductive invariant of the keeper, and the refinement of `RemoteCall` |

Operators keep the names of the functions they model. Definitions marked
*Faulty variant* are plausible slips of the definition after them; they show
that the properties notice such a slip and are used by nothing else.

### State and code

| Variable | Code |
|---|---|
| `interest[m]` | slots `mkt:{m}:int:*`, `InterestState` |
| `position[u][m]` | slots `pos:{u}:{m}:co`, `:de`, `:bi`, `UserPositionForAsset` |
| `shares[u][m]` | slot `pos:{u}:{m}:sh` |
| `now` | `HostContext::current_time` |
| `feed` | what `LedgerReader::read_oracle_price` reads |
| `wallet[u][m]`, `held[m]`, `cash[m]` | external: tokens of an account, of the contract account, of the market's vault |

In `EntryPoints`, the records above are read out of `slots` instead:

| Variable | Code |
|---|---|
| `slots` | the contract's key-value storage, all keys of `lc/state.rs` and `vault_key` of `lc/lib.rs` |
| `vault_balance[v][m]` | external: tokens of market `m` in the account `v` that was passed as its vault; the zero account until `set_vault` |
| `data` | external: fields the probes have written, of the contract's object and of accounts' data objects; apart from `slots` |

Off chain:

| Variable | Code |
|---|---|
| `process` | the operating system's process; the listener of `stop()` and the exits of `index.ts` |
| `dryRun` | `config.dryRun` |
| `pipe[p].stage` | at which await of `fetchPrices`, `onPriceUpdate`, `executeBatch`, `executeOne` pipeline `p` is |
| `pipe[p].count`, `.next` | `opportunities.length` and the loop's position in `executeBatch` |
| `elapsed` | `Date.now() - lastExecutionTime`, shared by all pipelines |
| `wait[p]` | what is left of `sleep(remaining)` |
| `age[p]` | history: time since `p` last sent a transaction with another to follow in the batch |
| `call[c]` | locals of caller `c`'s `submitInvoke`: where it is, the signed transaction, the loop counter of the polls |
| `outcome[r]` | the `TxResult`, or exception, of a call |
| `open`, `wire`, `validated` | external: the node's open ledger and queue, submissions that may still reach it, validated transactions |
| `calls` | the opportunities of `findLiquidatablePositions` between the scan and the ledger that applies them, with, as history, whether they still describe the ledger |

* A contract call is one step of the controller. The ledger runs transactions one after the other, and a
  trap undoes everything, so an error return is a guard: a call that fails is
  the absence of a step. Guards are in the order that is cheapest to evaluate.
* A handler is written as operators on values (`supply_ok`, `book_supply`, `seize_ok`, ...)
  that `LendingController` applies to its variables and `EntryPoints` to what it loaded from storage.
* `asset_id` is any number, cut to eight bits, or missing; a missing amount or an amount of 0 is the
  entry point's default (`liquidate` has none). The borrower of `liquidate` is read
  through a pointer and may be any account. `TX_ACCOUNT` is what the host answers for a
  sender's account, bare or after its length: the source is written for either and
  guesses which from the first byte.
* `HostContext` is modelled by its contract: `vault_deposit`, `vault_withdraw`
  and `transfer_to` move tokens or fail. The wasm32 implementation in the
  repository is partly stubbed (it reports success and moves nothing, and
  storage reads as empty; the oracle answers constants, which `V1Parameters` checks to be ones the contract accepts): the model is of the design the handlers and their
  tests are written for.
* The initial state is an empty store: indexes of 1.0, time stamp 0, the ledger
  clock at 1. No price has been posted.
* The clock and the prices move at any time, in any way the instance allows.
* JavaScript runs to the next `await` undisturbed, so a step of the keeper or the
  client is what happens between two awaits; another pipeline may run at each.
* A request of the client is answered, or fails without having arrived, or fails
  and arrives all the same, at once or later. The node may answer a submission
  with any result a real node has for that sequence number, drop what it
  holds and get it back, and close a ledger at any time or never. Transactions have no
  `LastLedgerSequence`, so nothing expires.
* In `Keeper`, what a scan finds is a number of opportunities, up to a bound per
  pipeline: which positions they are about makes no difference to how they are
  submitted. `Scanner` has the positions, the pair, the amounts and the profit filter, and there
  a call is under way until the ledger applies it, at most once, or it is given up: what
  `RemoteCall` promises and `Keeper` keeps.
* The reads of one scan are answered from one ledger, or fail; a read that fails looks
  like a slot that is not there, as in `readContractState`. The clock of the keeper is the ledger's.

## Runs

The scales of the instances are small so that interest, rounding and overflow
happen with amounts of a few units: 1.0 is `WAD = 20`, 100% is `BPS = 20`, a year
lasts one second, and `U128_MAX = 46000` is the largest value whose square TLC can
hold.

| Run | Result | Shows |
|---|---|---|
| `lending` | pass | 167,701 states: alice lends RLUSD, bob posts XRP and borrows, every market lends and takes collateral, prices fall or leave the peg; all 14 properties of the controller |
| `entry` | pass | 12,215 states: the same story through parameters and slots, with two vault registrations racing it |
| `arithmetic` | pass | 102,720 states: every pair of operands up to 320 for `wad_ratio`, `wad_mul`, `wad_div`, RAY and the price conversion, all branches; every utilization and reserve factor of the rate curve |
| `keeper` | pass | 451,518 states: two overlapping pipelines over a node that loses answers; refinement of `RemoteCall`, cooldown, termination |
| `scanner` | pass | 421,299 states: alice's keeper watches bob through the SDK, any one read lost; what it plans against what the contract does |
| `forgiven` | violation | see finding 1 |
| `frozen` | violation | see finding 2 |
| `stale` | violation | see finding 3 |
| `nonces` | violation | see finding 4 |
| `crash` | violation | see finding 5 |
| `blind` | violation | see finding 6 |
| `misread` | violation | see finding 7 |

**Bounds.** `MaxTime = 3` gives two periods: the first accrual after a borrow uses
a zero rate (rates are stored by the previous accrual), the second earns interest.
`Amounts = {4}` with 8 lent units and 4 units of collateral allows two supplies,
a borrow, a borrow on top, a partial and a full repayment and a capped
liquidation; one unit of XRP at two dollars carries a loan, at one dollar it
is under water. `MaxBorrows` cuts the walk where a market's booked
borrows exceed all that was lent and its interest: since renormalising forgives debt
(finding 1), repeated borrow and repay lets `total_borrows` grow without end. The curves
of `lending` stay below 100% so that accrual never fails for
finding 2's reason; `frozen` uses the V1 curves. Prices take three values: solvent,
under water, off the peg.

In `entry` an account is two bytes (20 in the source), which is enough for two accounts whose keys
differ in one hexadecimal digit only. `asset_id` is missing (XRP), 257 (RLUSD after the cut) or
3 (no market); an amount is missing (the default) or 4. XRP at 26 leaves a loan just above the
threshold until it earns interest, which the queries do not count. The constraint `RlusdLent`
checks calls that supply XRP or register a vault for it but does not follow them: `lending` has both
markets in both roles. `Unprobed` does the same for the probes, whose writes no other call reads. The three markets keep the risk parameters of V1, rounded to 5%.

In `arithmetic` 1.0 is `32 = 2^5`, so that the decimal system of the conversion is binary, and
`U128_MAX = 6000` puts the overflow of each product inside the walk; one table of 12
powers stands for the 38 of the source, and an exponent beyond it occurs on both sides.

In the runs of the keeper one pipeline has up to two opportunities, the other up to one:
enough for a sleep between two transactions of a batch while another pipeline
moves `lastExecutionTime`, and for three transactions of one wallet that
collide, get lost, or overtake each other. `Cooldown = 2` ticks lets a sleep begin
in the middle of a cooldown. `MaxPolls = 1` (30 in the source) has calls that
time out before, while and after their transaction is validated; more polls only
repeat the last step. Clocks stop counting at `Cooldown`, since only whether they are
below it matters.

In `scanner` a liquidation earns a bonus of 100%, since 5% of a few units rounds to nothing and the
profit filter would drop it. XRP at 25 puts bob's loan exactly at the threshold, so that
the interest the client does not count decides; at two dollars he is solvent, at one under
water. One of the reads of a position may fail, and one call is under way at a time:
calls do not see each other except through the ledger, which `Others` changes in every
way another liquidator could. A staleness limit of 0 in the client and 1 in the
contract keeps the order of 300 s and 86,400 s. `SDK_HEX_KEYS` is `TRUE` here: with the
keys the SDK builds today (`FALSE`, the run `blind`) every scan of a real ledger comes back empty, and
there would be nothing to say of the plans. `scanner` is about the rest of the client, which starts to matter
once the keys agree (and which the repository's own integration tests exercise, on a simulated
ledger that stores under the SDK's keys). `ClientSeesInsolvency` does not depend on the keys.

**Deadlock** is checked in all runs of the controller and the entry points (`PostPrices` is always
enabled); the walks of `MCArithmetic` end and the keeper's process exits, so there it is off.

**Fairness and liveness.** `EveryScanEnds` assumes weak fairness of each pipeline's steps
and of the clock: the event loop runs what is ready, timers fire, and a
request is answered or fails. Nothing is assumed of the ledger (it need neither close nor
validate), of lost submissions, or of signals.

The contract only reacts to transactions and nobody is obliged to send
one: no fairness is justified, and a liveness property would be about its users. What
the code can promise instead is that an exit is *possible*; `ExitsStayOpen` says
so with `ENABLED`.

### Properties

* `CashBacked`: a market's `total_supply` is what its vault holds.
* `CollateralBacked`: the contract account covers all collateral.
* `IndexesOrdered`, `IndexesMonotone`: indexes start at 1.0 and only grow; no
  position is ahead of its market, no market ahead of the ledger.
* `SupplyNeverOutgrowsBorrow`: the supply index stays at or below the borrow index (as long as no stored rate is above 100%).
* `DebtsBooked`: a call adds to `total_borrows` at least what it adds to the debts of all accounts
  together, and takes off at most what they lose. (Per call, not as a sum: each accrual rounds the index, which
  multiplies every position, and `total_borrows` apart by up to a unit, so that after a few of them the
  sum of debts can exceed `total_borrows` by some units; TLC shows it at `MaxTime = 7`.)
* `NeverOvercharged`: rewriting a debt never makes it larger than owed plus lent minus repaid.
* `CashLeavesSafely`: cash leaves a vault against shares worth it, or to a borrower then within LTV
  at the indexes in storage, which are what `borrow` judges its other debts by. It does not say that they are fresh.
* `CollateralLeavesSafely`: collateral leaves to its owner, who stays solvent, or to a liquidator of a position that is not.
* `LiquidationBounded`: at most half the debt repaid, at most value plus bonus seized.
* `SurplusOnlyFromLiquidation`: tokens nobody owns accumulate in the contract account only as the unused part of a liquidator's payment.
* `NeverFrozen`: accrual stays possible (on curves up to 100% in `lending`; violated on those of V1, finding 2).
* `ExitsStayOpen`: repaying and withdrawing supply never depend on the oracle.
* `BooksKept`: `EntryPoints` implements `LendingController` when the records are read out of
  the slots and the cash of a market out of its vaults: no field is dropped between load and
  store or written for someone else, and no parameter reaches a market or amount it does not name.
* `OneVault`: a vault that holds assets is never replaced. (Anybody may be the first to register, and
  what was supplied before stays in the zero account: both are how the code is.)
* `PayerCredited`: when an account pays, its own shares or collateral grow, or a debt in that market shrinks.
* `QueriesTrue`: a position that `get_health_factor` reports below 1.0 is one that `liquidate` accepts,
  and no debt `get_user_position` reports is more than `repay` would take, although the
  queries accrue nothing.
* `PromiseKept`: `Submission` implements `RemoteCall` under a refinement mapping:
  the answer is the call's outcome, its effects are counted in validated ledgers. A call
  takes effect at most once though it is submitted twice; `success` means it did,
  `rejected` that it never will. Any other failure says nothing, and an answer that nobody waits for
  any more (a signal ends the process) is not one.
* `CooldownWithinBatch`: transactions of one batch are sent a cooldown apart,
  whatever other pipelines do to `lastExecutionTime`. (Of different batches they may not be:
  the cooldown is not checked again after the sleep, so two can send at its end, with one sequence number: finding 4.)
* `ClientSeesInsolvency`: given the slots themselves, the client's debts and its one exact ratio find everyone
  under water whom the contract finds so at the same indexes, in any of the branches in which that rounds.
* `ScanMissesNothing`: the same of a scan without lost reads, with the keys of the SDK; violated (finding 6).
* `PlansStayUnderWater`: what the client finds under water without counting new
  interest, the contract finds under water, then and for as long as owner and prices leave
  it alone, whatever time and other users do.
* `PlansPayOff`: until then the call puts all it carries into the debt and seizes
  at least the collateral the profit was estimated from, although the client rounds
  differently.
* `EveryScanEnds`: every pipeline that is started ends, even if nothing is validated.
* `SolventNeverLiquidatable`, `RatioFailsOnlyOnOverflow`, `RoundTripWithinHalfUnits`, `RateMonotone`, `SuppliersPaidByBorrowers`: the arithmetic.
* `SplittingNeverCheaper`: accruing twice charges at least what accruing once does, up to rounding
  and the square of one second's rate.
* `WadCoversRay`: where a product or quotient fits in RAY it fits in WAD and is the same to one unit.
* `PricesConvertAlike`: contract and SDK turn an oracle entry into the same price, unless the contract has none.

### Findings

1. `DebtNeverForgiven`. `to_scaled_debt` divides the debt by the index, and its
   callers also store that index next to it, so the index is divided out twice:
   right after a borrow, partial repayment or liquidation at an index above 1.0, the account
   owes the amount divided by the index. The comment at `lc/interest.rs:240-242`
   promises the contrary, and `SPEC.md:549` and `SPEC.md:690` attribute what the tests see of
   it to 1-8 units of rounding.
2. `NeverFrozen`. `update_interest_indexes` hands the stored supply rate to
   `calculate_supply_rate` as the reserve factor. Past 100% (reached by the V1
   slope of 300% at high utilization) `BPS - reserve_factor` wraps, and every
   later accrual of the market fails. `SPEC.md:678` calls the effect mild.
3. `HealthyAfterWithdrawal`. `withdraw_collateral` checks health with the indexes
   as last stored; with the interest up to now the account can be below 1.0,
   against `lc/lib.rs:318`.
4. `NoNonceConflict`. Batches of overlapping pipelines run at once, and
   `submitInvoke` reads the sequence number in one request and uses it in another: two
   transactions get the same number and one of them is lost, against
   `keeper/src/liquidator.ts:4`. (No call takes effect twice because of it:
   `PromiseKept`.)
5. `FetchErrorsSurvived`. `fetchPrices` emits `error`, nobody listens, so `emit`
   throws and the rejected promise ends the process, against
   `keeper/src/oracle-watcher.ts:108`.
6. `ScanMissesNothing`. `userPositionKey` (`sdk/src/client.ts:77`) puts the 20 bytes of an
   account into a key, `user_position_key` (`lc/state.rs:335-354`) its 40 hexadecimal digits, so every
   position reads as empty: the keeper never finds anyone under water (`KeeperFindsNobody`), against
   `sdk/src/liquidation.ts:58`. `SPEC.md:119` describes the SDK's keys as the contract's.
7. `PayerCredited`. `read_account_field` (`lc/host.rs:174`) takes 20 bytes that begin with 0x14 for a
   length and what follows. If the host answers bare accounts, an account whose own first byte is 0x14 becomes another
   one, which nobody holds, and what it pays is credited there, against `lc/host.rs:186`.

Not findings, but worth knowing: `wad_ratio`'s scaled branch can exceed the exact quotient, against
`lc/health.rs:38` (`SolventNeverLiquidatable` shows that no solvent position suffers from it), and a client read that
fails counts as an empty slot, so that a healthy account can be reported under water; the contract
rejects the call. `borrow` accrues the borrowed market only and counts the caller's debts in the others at the indexes last
stored, where `lc/borrow.rs:18` speaks of accrued debt across all markets.

## Proofs

Everything is proved from the assumptions on the constants that the modules state
(`WadMathAssumption`, `OracleAssumption`, `HealthAssumption`, `ControllerAssumption`, `AccountsAssumption`,
`ClientViewAssumption`, `ScannerAssumption`, `WalkAssumption`, `StorageAssumption`, `EntryAssumption`, `BooksAssumption`, `SubmissionAssumption`, `KeeperAssumption`, ...): positive scales, `ltv <= threshold <= 100%`, an optimal
utilization below and a reserve factor of at most 100%, finitely many accounts. TLC evaluates them on every run.
Where a theorem needs more, it says so in its `ASSUME`.

* `LendingProofs`: the inductive invariant is
  `Inv == TypeOK /\ CashBacked /\ IndexesOrdered`. The parts need each other:
  `TypeOK` has to know that a withdrawal does not exceed the booked cash and that
  the vault's balance stays a natural number, which is `CashBacked`; an accrual is
  well typed only because indexes are at least 1.0, which is `IndexesOrdered`;
  and `IndexesOrdered` uses `TypeOK` for the arithmetic. There is one lemma per
  action, one step per conjunct it disturbs. From it: `TypeCorrect`,
  `CashBackedCorrect`, `IndexesOrderedCorrect`, and `IndexesMonotoneCorrect` for every step.
  `SupplyNeverOutgrowsBorrowCorrect` assumes `RatesBelowFull`, that no stored supply rate is above 100%: the
  next accrual takes it for its reserve factor, and above 100% the subtraction wraps (finding 2) and the theorem is false. A handler
  leaves a market's rates and indexes as they were or as its accrual made them (`RatesStep`), and an accrual at utilization
  of at most 1.0 pays suppliers no more than borrowers pay. V1's curves for XRP and wBTC end above 300%, so there the hypothesis says
  that those markets are not lent out that far. What holds of every curve is `RatesWithinCurveCorrect`: a stored supply rate is at most the borrow
  rate, and that at most the curve's end, whatever the wrapped reserve factor did to the growth of a period. With it
  `SteadyMarketsCorrect` needs no hypothesis about the other markets: one whose own curve ends at 100% or less, as RLUSD's does at 64%, keeps the
  order of its indexes. `NeverFrozenCorrect` says what else can freeze a market: more than 100% interest since its last
  accrual (`TouchedInTime`), or indexes or borrows beyond a third of what fits (`RoomToGrow`; at the widths of the source an index of 113
  or borrows of 10^20 native units). All three hypotheses hold in every state of the run `lending`.
  `ExitsOpenCorrect` is `ExitsStayOpen` as the prover can state it: in a market that can accrue, and as long as the products
  of the account fit (`ExitFits`), every guard of `repay` and `withdraw` holds but what the wallet and the vault
  have to give. That the booked cash never keeps anybody in is `CashBacked`, that no debt is divided by zero `IndexesOrdered`.
* `LendingStepProofs`: seven theorems, six of them action properties, from `Inv` before and after a step, again with one lemma
  per action and one for all actions that do not touch what the property is about.
  `NeverOverchargedCorrect`: dividing a debt by an index and multiplying it back never exceeds it, and
  the indexes of a position are never ahead of the market's. `LiquidationBoundedCorrect`: every truncation of
  `handle_liquidate` favours the borrower, through the price per native unit and back.
  `CashLeavesSafelyCorrect` assumes `PricedPerUnit`, that every posted price is worth something per
  native unit: without it the theorem is false, since a borrow of an asset whose price truncates to zero
  counts as no debt. In TLC's instances every posted price is.
  `SurplusOnlyFromLiquidationCorrect`, `CollateralBackedCorrect` and `DebtsBookedCorrect` are about sums over all
  accounts: an action rewrites one or two positions, so the sum moves by what these move (`SumChanges`), and
  the contract account, or `total_borrows`, moves by the same or more. `CollateralBacked` is an
  invariant by the surplus, which starts at zero and never falls.
  `CollateralLeavesSafelyCorrect` assumes `ClearBooks`: the scaled branch of `wad_ratio` drops
  digits of the divisor, so a position under water by less than the scale (one part in 10^20 of its
  collateral at the widths of the source) can be reported at exactly 1.0, and its owner can withdraw from it. Without the
  hypothesis the theorem is false. It holds in every state of the run `lending`, whose amounts stay where the
  exact branch applies.
* `ScannerProofs`: the inductive invariant is `Inv /\ Plans`. `Plans` says of every call not yet overtaken
  by its owner or by the prices (`accurate`) what was true when it was planned (`Estimate`): the borrower is
  under water at the stored indexes, and the repayment is at most the close factor's part of the
  debt. Indexes only grow, and so do debts, so steps of others keep it; steps of the
  owner or of the oracle clear `accurate`. From it: `PlansPayOffCorrect`, as long as total debt times the close factor fits
  the width (`CloseFactorFits`, debts below some 10^16 dollars; beyond it `wad_mul` answers zero or fails and the
  contract repays less than the client planned); and `PlansStayUnderWaterCorrect`,
  as long as the liquidated position is not within the rounding of the scaled branch (`Clearly`, as above). Both hypotheses hold
  in every state of the run `scanner`. The keys are a constant (`SDK_HEX_KEYS`) on which neither theorem depends, nor does
  `ClientSeesInsolvencyCorrect`, which is about the slots themselves: below 1.0 in any branch of `wad_ratio` means under water by the
  exact ratio too. `KeeperFindsNobody` is what the keys of the source make of it: a scan computes every debt as 0 and plans nothing, ever.
  The two together say that a scan misses accounts for its keys (or a lost read), never for its formulas.
* `EntryProofs`: that a store is loaded again as it was meant and touches nothing else (`PositionStored`,
  `InterestStored`, `SharesStored`) rests on the keys: two hexadecimal digits per byte lose nothing
  (`HexInjective`), keys of positions, shares, interest and vaults differ in their first part or in
  their last. `OneVaultCorrect` by an inductive invariant `Rows /\ OneVault`, where `Rows` says
  which balances exist; only `set_vault` writes under the key of a vault, and only when it is zero.
  `BooksKeptCorrect` is the refinement of `LendingController`. Its inductive invariant `EInv` (`RecordsCorrect`)
  says that what is in storage are records of their types, with indexes of at least 1.0: a load
  needs that, for it reads an index stored as 0 as 1.0, and a slot never written as the initial record. Then, entry
  point by entry point: the operators on loaded records are those of the controller, and the records stored
  are the ones that the controller's action leaves. `set_vault` and refused calls are stutters. It assumes
  `Unambiguous`, that no sender whose account comes without a length begins with the byte that is taken for one, which is what
  finding 7 is about: for such a sender the theorem is false.
  `QueriesTrueCorrect` needs no hypothesis: debts only grow with the index, the sum that counts as debt with
  every debt, and `wad_ratio` never grows with its divisor, in either branch (`RatioAntitone`).
  `PayerCreditedCorrect` follows from the refinement, action by action of the controller. It assumes `Unambiguous` and `MintsShares`,
  that no amount is so small against the index that `supply` rounds its shares to zero: `supply` takes such an amount (`lc/supply.rs:43`),
  and what it buys is nothing. TLC finds both hypotheses true in every state of the instance of the run `entry`.

  The theorems of `LendingProofs` and `LendingStepProofs` are carried over to the entry points through the refinement:
  `EntryBooksSafe`, `EntryPayoutsSafe` and `EntryMarketsStayOpen` state them of the records read out of storage, for every
  behaviour of `EntrySpec`, under `Unambiguous` and the hypotheses they have there. `Controller` is the instance of
  `LendingStepProofs` in which `interest`, `position` and `shares` are those records and the accounts are the byte sequences of an
  account's length. tlapm takes the operators of `Controller` and of `Books`, the instance that `BooksKept` is
  about, for different ones, so the lemmas `ControllerWad` to `ControllerNext` show, operator by operator and up to the next-state relation,
  that they agree. The assumptions of the instance are theorems here (`ControllerAssumed`): that accounts are finitely
  many follows from their length, and the rest from those of `EntryPoints`, of which `MaxTime \in Nat` is there for this.
* `KeeperProofs`: the inductive invariant is `KeeperInv == PipesInv /\ SubmissionInv /\ Working`.
  `PipesInv` says why a pipeline about to send has waited: before its first transaction
  it has sent none; when it decides, `lastExecutionTime` is no older than its own
  last transaction (another pipeline can only make it younger, so that a sleep gets longer); while
  it sleeps, what is left of the sleep makes up for the rest. `Working` ties a call under way to a pipeline
  that awaits it, so no other step can make it send. From it: `KeeperTypeCorrect`
  and `CooldownWithinBatchCorrect`, for any number of pipelines and any batches. `PromiseKeptCorrect` is the
  refinement of `RemoteCall`, step by step, from the invariant `PromiseInv` of `SubmissionProofs`: a transaction is
  pending, in the queue or validated, each at most once (`SentOnce`), and only if its call asked
  for it (`SentIfAsked`); what bears a call's mark is that call's (`CallOwns`); a number is validated once
  (`ValidatedOnce`), and a call that was answered was answered what happened to it (`AnsweredTruly`). Every
  step of client and node maps to a step of `RemoteCall` or to a stutter.
* `SubmissionProofs`: client and node keep their types. The sequence number of the open
  ledger is a `CHOOSE`; that there is one to choose is the pigeonhole principle (the
  numbers in the interval cannot all be taken) with the least element of what is free.
* `ArithmeticLemmas`: what each operator returns and bounds. The SMT solver
  multiplies and divides variables badly, so products and quotients go through a
  small set of lemmas (`DivAtLeast`, `MulMono`, ...). Sums over a finite set are folds, defined by recursion on
  sets, and induction over data is out of reach; instead, of the sets for which a claim about sums fails a
  smallest one is chosen (well-founded by cardinality) and an element taken from it (`SumIsFold`, `SumChanges`).
* `ArithmeticProofs`: `SolventNeverLiquidatableCorrect`,
  `SuppliersPaidByBorrowersCorrect`, `RateMonotoneCorrect`, `RoundTripCorrect`, `WadCoversRayCorrect`, `SplittingNeverCheaperCorrect`, for all
  operands, scales and curves; `RatioFailsOnlyOnOverflowCorrect` for operands that fit a width in which the square of 1.0 does too.
  `PricesConvertAlikeCorrect` for every base, WAD and length of the table of powers, and mantissas below the first power that the table
  lacks (10^38 in the source, whose mantissas are u64): a larger one can be divided by a power beyond the table and leave a
  price that the contract cannot compute. Powers are a recursive function, which to the prover is
  a `CHOOSE`: `PowerUnfolds` proves that there is one by putting it together from finite tables (`PowerTableExists`, `PowerTablesAgree`), each claim from the
  smallest exponent where it would fail.

Only model-checked:

* `ExitsStayOpen`: `ENABLED` is out of the prover's reach. What it adds to `ExitsOpenCorrect` is that
  an action whose guards hold has a next state, which its primed variables, each set once, give it.
* `EveryScanEnds`: liveness, out of the prover's reach.

## Not modelled

* `lc/errors.rs`, logging, configuration, the byte encodings of numbers in slots and messages: tables and
  formatting. `market_config_key`, `utilization_bps`, the record of a whole position, `bps_mul`, `bps_div` and linear
  interest, which nothing but their tests calls.
* The stubs of the wasm32 host (`lc/host.rs:245-362`, see above): not the design. The trace output
  of the probes and `probe_oracle`, which changes nothing.
* Of the SDK, the typed calls (they marshal parameters) and the views of capacity and supply that the keeper does
  not use; reads of one scan torn between ledgers. Of the keeper, its balance (a shortage is a rejected call) and changes of the watch list.
* `tests/helpers/simulated-ledger.ts`: a second implementation of the contract for
  tests; `deploy`: scripts run once by a person (what their order protects, vaults registered before money
  comes in, is in `EntryPoints`, where anybody registers at any time); `web`: a UI over sample data.

## Plan

What is left, in this order:

1. Reads torn between two ledgers in `Scanner` (principal and index of different calls) and the
   keeper's balance; `Scanner` composed with `Keeper` in place of `GiveUp`.
2. An abstract ledger of claims and debts that the controller implements.
