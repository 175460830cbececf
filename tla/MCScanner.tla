------------------------------ MODULE MCScanner ------------------------------
(* The instance of MCLending where alice lends RLUSD and bob borrows it      *)
(* against XRP, with alice as the keeper that watches bob.  The bonus is 100%*)
(* so that it does not vanish in rounding, and at XRP's middle price a loan  *)
(* is exactly at the liquidation threshold until it earns interest.          *)
EXTENDS MCLending, Scanner

MCWatched == {bob}

BonusMarkets ==
    [m \in Markets |-> [OneWayMarkets[m] EXCEPT !.ltv = 13, !.liquidation_bonus = 20]]

AtThreshold == Three(25, 20, 60)

MCThreePrices == {TwoDollars, AtThreshold, OneDollar}
=============================================================================
