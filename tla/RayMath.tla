------------------------------- MODULE RayMath -------------------------------
(***************************************************************************)
(* RAY-scaled numbers (27 decimals) of math.rs and their conversion from   *)
(* and to WAD.  The handlers use none of them: the project chose WAD for   *)
(* the indexes because RAY overflows earlier, and this is what that choice *)
(* is measured against.                                                    *)
(***************************************************************************)
EXTENDS WadMath

CONSTANT
    WAD_RAY_RATIO   \* 10^9 in the source

ASSUME RayMathAssumption == WAD_RAY_RATIO \in Nat \ {0}

RAY == WAD * WAD_RAY_RATIO

ray_mul_ok(a, b) == (a # 0 /\ b # 0) => Fits(a * b + RAY \div 2)

ray_mul(a, b) == (a * b + RAY \div 2) \div RAY

ray_div_ok(a, b) == b # 0 /\ Fits(a * RAY + b \div 2)

ray_div(a, b) == (a * RAY + b \div 2) \div b

wad_to_ray_ok(a) == Fits(a * WAD_RAY_RATIO)

wad_to_ray(a) == a * WAD_RAY_RATIO

\* Faulty variant: adds half a RAY for half a WAD_RAY_RATIO.
ray_to_wad_rounds_ray(a) ==
    ((a + RAY \div 2) % (U128_MAX + 1)) \div WAD_RAY_RATIO

\* A plain addition: in the release profile it wraps.
ray_to_wad(a) ==
    ((a + WAD_RAY_RATIO \div 2) % (U128_MAX + 1)) \div WAD_RAY_RATIO
=============================================================================
