---------------------------- MODULE MCArithmetic ----------------------------
(***************************************************************************)
(* Instances of the walks of ArithmeticProperties.  The curve has WBTC's   *)
(* kink and steep slopes on both sides of it, 40% and then 300%, so that   *)
(* they do not vanish in rounding with 100% as 20 BPS.                     *)
(***************************************************************************)
EXTENDS ArithmeticProperties

WholeUnits == [m \in Markets |-> 1]

SteepCurve ==
    [ltv |-> 14, liquidation_threshold |-> 15, liquidation_bonus |-> 1,
     reserve_factor |-> 4, max_liquidation_bps |-> 10, optimal_utilization |-> 9,
     base_rate |-> 0, slope1 |-> 8, slope2 |-> 60,
     borrow_enabled |-> TRUE, collateral_enabled |-> TRUE]
=============================================================================
