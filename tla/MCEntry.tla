------------------------------- MODULE MCEntry -------------------------------
(* The entry points with accounts of two bytes, on the scales of MCLending:  *)
(* XRP as collateral and RLUSD lent, a byte of 257 for RLUSD's asset_id, and *)
(* a host that answers the sender's account bare or with its length.         *)
EXTENDS EntryPoints, V1Parameters, TLC

CONSTANT MaxBorrows   \* bound on the borrows a market books

MCAssetUnit == [m \in Markets |-> 1]

scaled_bps(n) == (n * BPS + SOURCE_BPS \div 2) \div SOURCE_BPS

\* The risk parameters of a market on the scale of the instance, on a curve that
\* is steep from the start.
Market(config, borrow_enabled, collateral_enabled) ==
    [ltv |-> scaled_bps(config.ltv),
     liquidation_threshold |-> scaled_bps(config.liquidation_threshold),
     liquidation_bonus |-> scaled_bps(config.liquidation_bonus),
     reserve_factor |-> 2, max_liquidation_bps |-> scaled_bps(config.max_liquidation_bps),
     optimal_utilization |-> 10, base_rate |-> 0, slope1 |-> 6, slope2 |-> 8,
     borrow_enabled |-> borrow_enabled, collateral_enabled |-> collateral_enabled]

Three(xrp, rlusd, wbtc) ==
    (ASSET_XRP :> xrp) @@ (ASSET_RLUSD :> rlusd) @@ (ASSET_WBTC :> wbtc)

MCMarkets == Three(Market(XRP_MARKET, FALSE, TRUE), Market(RLUSD_MARKET, TRUE, FALSE),
                   Market(WBTC_MARKET, FALSE, FALSE))

\* The high digits of the two accounts' first bytes differ, nothing else does.
lender == <<1, 3>>
borrower == <<17, 3>>

\* An account that starts like a length prefix.
ambiguous == <<2, 3>>

MCSenders == {lender, borrower}
MCAmbiguous == {ambiguous, borrower}

MCTxAccount == (lender :> lender) @@ (borrower :> <<2, 17, 3>>)
MCAmbiguousTxAccount == (ambiguous :> ambiguous) @@ (borrower :> borrower)

MCWallets == [u \in Accounts |->
    IF u = borrower THEN Three(4, 0, 0)
    ELSE IF u \in Senders THEN Three(0, 4, 0) ELSE Three(0, 0, 0)]

MCAssetIds == {NoParam, 257, 3}
MCRawAmounts == {NoParam, 4}

MCPrices == {Three(40, 20, 60), Three(26, 20, 60)}

\* Calls that supply XRP or register its vault are checked but not followed, and
\* neither are borrows beyond the bound: a market books more of them with every
\* accrual, whatever the debts (see MCLending).
RlusdLent ==
    /\ load_interest(slots, ASSET_XRP).total_supply = 0
    /\ load_vault_account(slots, ASSET_XRP) = ZERO_ACCOUNT
    /\ load_interest(slots, ASSET_RLUSD).total_borrows <= MaxBorrows

\* Probes are checked but not followed: what they write, no other call reads.
Unprobed == data = {}
=============================================================================
