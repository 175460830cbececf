------------------------------ MODULE MCLending ------------------------------
(***************************************************************************)
(* Small instances of the lending controller for TLC.  Scales: one dollar  *)
(* is 20, 100% is 20 BPS, a year is one second long, so that a tick of the *)
(* ledger clock grows the indexes visibly.  U128_MAX keeps every product   *)
(* of two u128 values in TLC's integers and still leaves room for every    *)
(* amount the instances reach.                                             *)
(***************************************************************************)
EXTENDS LendingProperties, V1Parameters, TLC

CONSTANTS
    alice, bob,
    MaxBorrows      \* bound on the borrows a market books

MCAccounts == {alice, bob}

MCAssetUnit == [m \in Markets |-> 1]

\* Basis points of 10 000 to the nearest one of the instance.
scaled_bps(n) == (n * BPS + SOURCE_BPS \div 2) \div SOURCE_BPS

scaled(config) ==
    [f \in DOMAIN config |->
        IF f \in {"borrow_enabled", "collateral_enabled"} THEN config[f]
        ELSE scaled_bps(config[f])]

Three(xrp, rlusd, wbtc) ==
    (ASSET_XRP :> xrp) @@ (ASSET_RLUSD :> rlusd) @@ (ASSET_WBTC :> wbtc)

\* The V1 parameters, to the nearest 5%.
V1Markets ==
    Three(scaled(XRP_MARKET), scaled(RLUSD_MARKET), scaled(WBTC_MARKET))

with_curve(config, optimal, slope1, slope2) ==
    [config EXCEPT !.reserve_factor = 2, !.optimal_utilization = optimal,
                   !.slope1 = slope1, !.slope2 = slope2]

\* The risk parameters of V1 on a curve that is steep below its kink, so that
\* small amounts earn interest, and never above 100%.
SteepMarkets == Three(with_curve(V1Markets[ASSET_XRP], 16, 4, 10),
                      with_curve(V1Markets[ASSET_RLUSD], 10, 6, 8),
                      with_curve(V1Markets[ASSET_WBTC], 9, 4, 10))

\* The same with XRP as collateral only and RLUSD lent only.
OneWayMarkets ==
    [SteepMarkets EXCEPT ![ASSET_XRP].borrow_enabled = FALSE,
                         ![ASSET_RLUSD].collateral_enabled = FALSE,
                         ![ASSET_WBTC].borrow_enabled = FALSE,
                         ![ASSET_WBTC].collateral_enabled = FALSE]

\* alice lends RLUSD, bob posts XRP.
MCWallets == (alice :> Three(0, 8, 0)) @@ (bob :> Three(4, 0, 0))

\* XRP at two dollars, at one dollar, and RLUSD off its peg.
TwoDollars == Three(40, 20, 60)
OneDollar == Three(20, 20, 60)
OffPeg == Three(40, 18, 60)

MCPrices == {TwoDollars, OneDollar, OffPeg}
MCTwoPrices == {TwoDollars, OneDollar}
MCOnePrice == {OneDollar}

\* Debts are renormalised at every call, so the borrows a market books drift
\* away from its debts without bound: cut the walk.
BorrowsBounded == \A m \in Markets : interest[m].total_borrows <= MaxBorrows
=============================================================================
