------------------------------- MODULE Scanner -------------------------------
(***************************************************************************)
(* The keeper at the contract: scans find liquidations in what the client  *)
(* reads of the ledger, and the calls made of them are applied later, when *)
(* other transactions, prices and time have changed the ledger.            *)
(*                                                                         *)
(* How a call gets to the ledger is the subject of Keeper and Submission;  *)
(* here it is under way until it is applied, at most once (RemoteCall), or *)
(* given up.  Pipelines overlap, so several calls may be under way.  The   *)
(* reads of one scan are taken to be answered from one ledger, or to fail. *)
(***************************************************************************)
EXTENDS LendingController, ClientView, FiniteSets

CONSTANTS
    keeper,             \* the keeper's account
    monitoredAccounts,  \* the accounts it scans
    MaxLostReads,       \* bound on the reads of a position that fail
    MaxCalls            \* bound on the calls under way

ASSUME ScannerAssumption ==
    /\ keeper \in Accounts
    /\ monitoredAccounts \subseteq Accounts
    /\ MaxLostReads \in Nat
    /\ MaxCalls \in Nat

VARIABLE
    calls   \* the liquidations the keeper has decided on and not seen the end of

scanVars == <<vars, calls>>

\* A call is its opportunity and, as history, whether that is accurate: no read
\* of it failed, and the position and the prices are still the same.
Call(opp, accurate) ==
    [borrower |-> opp.borrower, debtAsset |-> opp.debtAsset,
     collateralAsset |-> opp.collateralAsset, maxDebtToRepay |-> opp.maxDebtToRepay,
     collateralToSeize |-> opp.collateralToSeize, accurate |-> accurate]

\* Calls after a step of the ledger.
SeenAgain(those) ==
    {[call EXCEPT !.accurate = @ /\ position'[call.borrower] = position[call.borrower]
                                 /\ feed'.prices = feed.prices] : call \in those}

ScanInit == Init /\ calls = {}

\* The position of u as a client reads it that loses the given reads.
viewed(u, lost) == client_position(slots_read(position[u], interest, lost))

\* One account of a scan is under water in the client's view, and liquidating it
\* looks profitable.
Scan ==
    LET prices == get_all_prices(feed)
    IN  /\ client_prices_ok(feed, now)
        /\ Cardinality(calls) < MaxCalls
        /\ \E u \in monitoredAccounts, lost \in {s \in SUBSET Slots : Cardinality(s) <= MaxLostReads} :
             LET opp == opportunity(u, viewed(u, lost), prices, V1_MARKETS)
             IN  /\ is_liquidatable(client_health_factor(viewed(u, lost), prices, V1_MARKETS))
                 /\ profitable(opp, prices)
                 /\ calls' = calls \cup {Call(opp, lost = {})}
        /\ UNCHANGED vars

\* The ledger applies the call.
Execute(call) ==
    /\ Liquidate(keeper, call.borrower, call.debtAsset, call.collateralAsset, call.maxDebtToRepay)
    /\ calls' = SeenAgain(calls \ {call})

\* The call is skipped for the keeper's balance, rejected by the contract or lost.
GiveUp(call) ==
    /\ calls' = calls \ {call}
    /\ UNCHANGED vars

\* Anybody else's transaction, the oracle and the clock.
Others ==
    /\ Next
    /\ calls' = SeenAgain(calls)

ScanNext ==
    \/ Scan
    \/ \E call \in calls : Execute(call) \/ GiveUp(call)
    \/ Others

ScanSpec == ScanInit /\ [][ScanNext]_scanVars

-----------------------------------------------------------------------------

\* The contract's own verdict on a position, if asked for this pair now: only the
\* two markets of the pair are accrued (liquidation.rs:84-99).
LiquidatableNow(u, d, c) ==
    LET states == [interest EXCEPT ![d] = accrued(d), ![c] = accrued(c)]
        actual == actual_position(position[u], states)
    IN  (/\ can_accrue(d)
         /\ can_accrue(c)
         /\ actual_position_ok(position[u], states)
         /\ health_factor_ok(actual, get_all_prices(feed), V1_MARKETS))
        => is_liquidatable(calculate_health_factor(actual, get_all_prices(feed), V1_MARKETS))

\* A position the client finds under water, though it accrues no interest, the
\* contract finds under water too, and goes on to, however much time passes and
\* whatever happens in the markets, until its owner or the prices move.
PlansStayUnderWater ==
    \A call \in calls :
        call.accurate => LiquidatableNow(call.borrower, call.debtAsset, call.collateralAsset)

\* Until then the liquidation is worth what the client estimated: all that is
\* attached goes into the debt, nothing stays behind in the contract, and at least
\* the collateral of the estimate is seized, although the two round differently.
PlansPayOff ==
    [][\A call \in calls : call.accurate /\ Execute(call) =>
          /\ cash'[call.debtAsset] - cash[call.debtAsset] = call.maxDebtToRepay
          /\ held[call.collateralAsset] - held'[call.collateralAsset] >= call.collateralToSeize]_scanVars

\* Given the slots themselves, whatever keys it looks for them under, the client
\* finds under water whom the contract would at the same indexes: one exact ratio of
\* its own against three branches that round.
ClientSeesInsolvency ==
    \A u \in Accounts :
        LET prices == get_all_prices(feed)
            actual == actual_position(position[u], interest)
        IN  /\ actual_position_ok(position[u], interest)
            /\ health_factor_ok(actual, prices, V1_MARKETS)
            /\ is_liquidatable(calculate_health_factor(actual, prices, V1_MARKETS))
            => is_liquidatable(client_health_factor(
                    client_position(stored_slots(position[u], interest)), prices, V1_MARKETS))

\* A scan whose reads all succeed misses no monitored account that the contract
\* would find under water at the indexes in storage ("return liquidation
\* opportunities (HF < 1.0)", liquidation.ts:58), whatever time has passed since.
ScanMissesNothing ==
    \A u \in monitoredAccounts :
        LET prices == get_all_prices(feed)
            actual == actual_position(position[u], interest)
        IN  /\ client_prices_ok(feed, now)
            /\ actual_position_ok(position[u], interest)
            /\ health_factor_ok(actual, prices, V1_MARKETS)
            /\ is_liquidatable(calculate_health_factor(actual, prices, V1_MARKETS))
            => is_liquidatable(client_health_factor(viewed(u, {}), prices, V1_MARKETS))
=============================================================================
