------------------------ MODULE ArithmeticProperties ------------------------
(***************************************************************************)
(* The fixed-point operators of the lending controller over all inputs of  *)
(* a range: a walk over x for each y, and what the operators must satisfy  *)
(* at each pair.  What the u128 branches do on overflow shows when         *)
(* U128_MAX is small enough for the walk to cross it.                      *)
(***************************************************************************)
EXTENDS InterestModel, Health, RayMath, PriceConversion

CONSTANTS
    MaxX, MaxY,   \* bounds of the walk
    Config        \* the MarketConfig whose curve is walked

ASSUME WalkAssumption ==
    MaxX \in Nat /\ MaxY \in Nat /\ Config \in MarketConfigs

VARIABLES x, y

Init == x = 0 /\ y \in 1 .. MaxY

Next == x < MaxX /\ x' = x + 1 /\ y' = y

Spec == Init /\ [][Next]_<<x, y>>

(***************************************************************************)
(* Both branches of wad_ratio: collateral worth at least the debt always   *)
(* has a ratio of at least 1.0, so no rounding or rescaling ever makes a   *)
(* solvent position liquidatable.                                          *)
(***************************************************************************)
SolventNeverLiquidatable ==
    x >= y /\ wad_ratio_ok(x, y) => ~is_liquidatable(wad_ratio(x, y))

(***************************************************************************)
(* wad_ratio fails only for a quotient that is no u128: a None of a health *)
(* check (MathOverflow) never hides a representable ratio.                 *)
(***************************************************************************)
RatioFailsOnlyOnOverflow ==
    ~Fits((x * WAD) \div y + 1) \/ wad_ratio_ok(x, y)

(***************************************************************************)
(* Cash that supply turns into shares at an index, and withdraw back into  *)
(* cash at the same index, returns to within half a share and half a unit  *)
(* (wad_div, then wad_mul, each rounded half-up).                          *)
(***************************************************************************)
RoundTripWithinHalfUnits ==
    LET back == wad_mul(wad_div(x, y), y)
    IN  wad_div_ok(x, y) /\ wad_mul_ok(wad_div(x, y), y) =>
            2 * WAD * (IF back >= x THEN back - x ELSE x - back) <= y + WAD

(***************************************************************************)
(* The borrow rate never falls as utilization rises, the kink included:    *)
(* the slopes of the two branches meet (borrow_rate_annual_bps).           *)
(***************************************************************************)
RateMonotone ==
    [][x' <= WAD => borrow_rate_annual_bps(x, Config)
                       <= borrow_rate_annual_bps(x', Config)]_<<x, y>>

(***************************************************************************)
(* Suppliers never earn more than borrowers pay: with a reserve factor y   *)
(* of at most 100%, the interest on the supplied cash and borrows, at the  *)
(* supply rate, is at most the interest on the borrows at the borrow rate  *)
(* (calculate_supply_rate).                                                *)
(***************************************************************************)
SuppliersPaidByBorrowers ==
    LET rate == calculate_borrow_rate(x, Config)
    IN  y <= BPS => calculate_supply_rate(rate, x, y) * WAD <= rate * x

(***************************************************************************)
(* Accruing in two steps instead of one never saves a borrower anything    *)
(* but rounding and the second-order term that an accrual of one second    *)
(* leaves out: touching a market often is no way to owe less               *)
(* (calculate_compound_interest, wad_mul in update_interest_indexes).      *)
(***************************************************************************)
SplittingNeverCheaper ==
    \A rate \in 1 .. WAD \div 8 :
        LET first  == calculate_compound_interest(rate, x)
            second == calculate_compound_interest(rate, y)
        IN  compound_interest_ok(rate, x + y) /\ wad_mul_ok(first, second) =>
                calculate_compound_interest(rate, x + y)
                    <= wad_mul(first, second) + 2 + (rate * rate) \div WAD

(***************************************************************************)
(* The choice of WAD over RAY for the indexes (the overflow table of       *)
(* math.rs, the comment of InterestState): wherever a product or quotient  *)
(* fits in RAY it fits in WAD, and is the same to one unit.                *)
(***************************************************************************)
WadCoversRay ==
    LET a == wad_to_ray(x)
        b == wad_to_ray(y)
        no_wrap(r) == Fits(r + WAD_RAY_RATIO \div 2)
    IN  wad_to_ray_ok(x) /\ wad_to_ray_ok(y) =>
            /\ ray_mul_ok(a, b) /\ no_wrap(ray_mul(a, b)) =>
                  /\ wad_mul_ok(x, y)
                  /\ ray_to_wad(ray_mul(a, b)) - wad_mul(x, y) \in -1 .. 1
            /\ ray_div_ok(a, b) /\ no_wrap(ray_div(a, b)) =>
                  /\ wad_div_ok(x, y)
                  /\ ray_to_wad(ray_div(a, b)) - wad_div(x, y) \in -1 .. 1

\* An entry of the oracle for the pair: every exponent the table of powers has,
\* and the next on either side of it.
WalkedEntry ==
    [asset_price |-> x,
     scale |-> (y % (2 * POWERS + 3)) - (POWERS + 1) - WAD_DIGITS]

(***************************************************************************)
(* Contract and SDK turn an oracle entry into the same price whenever the  *)
(* contract has one, and the SDK has a price of its own only where that    *)
(* price is 0 or beyond the table of powers: raw_to_wad and rawToWad never *)
(* disagree on a price a position could be judged by.                      *)
(***************************************************************************)
PricesConvertAlike ==
    /\ raw_to_wad_ok(WalkedEntry) =>
          /\ rawToWad_ok(WalkedEntry)
          /\ rawToWad(WalkedEntry) = raw_to_wad(WalkedEntry)
    /\ rawToWad_ok(WalkedEntry)
       /\ rawToWad(WalkedEntry) \in 1 .. power[POWERS] - 1
          => raw_to_wad_ok(WalkedEntry)
=============================================================================
