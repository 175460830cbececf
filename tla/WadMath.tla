------------------------------- MODULE WadMath -------------------------------
(***************************************************************************)
(* Fixed-point arithmetic of the lending controller (math.rs).  Amounts,   *)
(* rates and indexes are u128; a WAD-scaled number n stands for n / WAD.   *)
(* The widths and scales are constants, so that small instances overflow   *)
(* and round where the contract does.  An operation that returns an Option *)
(* in the source is a value and a predicate, f_ok, that says when the      *)
(* source returns Some.                                                    *)
(***************************************************************************)
EXTENDS Integers

CONSTANTS
    WAD,               \* 10^18 in the source: 1.0
    BPS,               \* 10_000 in the source: 100%
    SECONDS_PER_YEAR,  \* 31_536_000 in the source
    U128_MAX           \* 2^128 - 1 in the source

ASSUME WadMathAssumption ==
    /\ WAD \in Nat /\ WAD > 1
    /\ BPS \in Nat \ {0}
    /\ SECONDS_PER_YEAR \in Nat \ {0}
    /\ U128_MAX \in Nat /\ U128_MAX >= 2 * WAD

U128 == 0 .. U128_MAX

\* checked_mul / checked_add of non-negative operands succeed iff the exact
\* result is a u128.
Fits(n) == n <= U128_MAX

Min2(a, b) == IF a <= b THEN a ELSE b

saturating_sub(a, b) == IF a >= b THEN a - b ELSE 0

saturate(n) == IF Fits(n) THEN n ELSE U128_MAX

HALF_WAD == WAD \div 2

(***************************************************************************)
(* (a * b + WAD/2) / WAD, rounded half-up; 0 when an operand is 0.         *)
(***************************************************************************)
wad_mul_ok(a, b) == (a # 0 /\ b # 0) => Fits(a * b + HALF_WAD)

\* Faulty variant: truncates twice, dividing an operand before multiplying.
wad_mul_divides_first(a, b) == (a \div WAD) * b

wad_mul(a, b) == (a * b + HALF_WAD) \div WAD

(***************************************************************************)
(* (a * WAD + b/2) / b, rounded half-up.                                   *)
(***************************************************************************)
wad_div_ok(a, b) == b # 0 /\ Fits(a * WAD + b \div 2)

wad_div(a, b) == (a * WAD + b \div 2) \div b

(***************************************************************************)
(* 1 + rt + (rt)^2 / 2, the two-term Taylor expansion of compound interest *)
(* over `duration` seconds at a per-second rate; linear for one second.    *)
(***************************************************************************)
compound_interest_ok(rate_per_second, duration) ==
    LET rt == rate_per_second * duration
    IN  /\ Fits(rt)
        /\ Fits(WAD + rt)
        /\ duration > 1 => /\ wad_mul_ok(rt, rt)
                           /\ Fits(WAD + rt + wad_mul(rt, rt) \div 2)

\* Faulty variant: squares without scaling back to WAD.
compound_interest_unscaled(rate_per_second, duration) ==
    LET rt == rate_per_second * duration
    IN  IF duration <= 1 THEN WAD + rt ELSE WAD + rt + (rt * rt) \div 2

calculate_compound_interest(rate_per_second, duration) ==
    LET rt == rate_per_second * duration
    IN  IF duration <= 1 THEN WAD + rt ELSE WAD + rt + wad_mul(rt, rt) \div 2

annual_bps_to_per_second_wad(annual_bps) ==
    (annual_bps * WAD) \div (BPS * SECONDS_PER_YEAR)
=============================================================================
