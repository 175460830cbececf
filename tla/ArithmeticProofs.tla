-------------------------- MODULE ArithmeticProofs --------------------------
(***************************************************************************)
(* The properties of ArithmeticProperties, which TLC checks on small       *)
(* widths, for every width and scale.                                      *)
(*                                                                         *)
(* Powers of the base are a recursive function.  That it unfolds is proved *)
(* here (PowerUnfolds) from the smallest exponent where it would not, and  *)
(* so are its sign and its order (PowerType, PowerMonotone).               *)
(***************************************************************************)
EXTENDS ArithmeticProperties, ArithmeticLemmas

(***************************************************************************)
(* What the walk checks, at every width and scale.                         *)
(***************************************************************************)
WalkTypeOK == x \in Nat /\ y \in Nat \ {0}

LEMMA WalkType == Spec => []WalkTypeOK
<1>1. Init => WalkTypeOK
  BY WalkAssumption DEF Init, WalkTypeOK
<1>2. WalkTypeOK /\ [Next]_<<x, y>> => WalkTypeOK'
  BY DEF WalkTypeOK, Next
<1> QED BY <1>1, <1>2, PTL DEF Spec

(***************************************************************************)
(* No position whose weighted collateral covers its debt is liquidatable,  *)
(* whichever branch of wad_ratio computes its health factor.               *)
(***************************************************************************)
THEOREM SolventNeverLiquidatableCorrect == Spec => []SolventNeverLiquidatable
<1>1. WalkTypeOK => SolventNeverLiquidatable
  <2> SUFFICES ASSUME WalkTypeOK, x >= y, wad_ratio_ok(x, y)
               PROVE  ~(wad_ratio(x, y) < WAD)
    BY DEF SolventNeverLiquidatable, is_liquidatable
  <2>1. x \in Nat /\ y \in Nat \ {0}
    BY DEF WalkTypeOK
  <2>2. wad_ratio(x, y) >= WAD /\ wad_ratio(x, y) \in Nat
    BY <2>1, RatioAtLeastOne, RatioType
  <2> QED BY <2>2, Scales
<1> QED BY <1>1, WalkType, PTL

(***************************************************************************)
(* Suppliers are never paid more than borrowers pay, at every utilization, *)
(* curve and reserve factor of at most 100%.                               *)
(***************************************************************************)
THEOREM SuppliersPaidByBorrowersCorrect == Spec => []SuppliersPaidByBorrowers
<1>1. WalkTypeOK => SuppliersPaidByBorrowers
  <2> SUFFICES ASSUME WalkTypeOK, y <= BPS
               PROVE  calculate_supply_rate(calculate_borrow_rate(x, Config), x, y)
                        * WAD <= calculate_borrow_rate(x, Config) * x
    BY DEF SuppliersPaidByBorrowers
  <2>1. x \in Nat /\ y \in Nat
    BY DEF WalkTypeOK
  <2>2. calculate_borrow_rate(x, Config) \in Nat
    <3>1. borrow_rate_annual_bps(x, Config) \in Nat
      BY <2>1, BorrowRateType, WalkAssumption
    <3> QED BY <3>1, PerSecondType DEF calculate_borrow_rate
  <2> QED BY <2>1, <2>2, SupplyRateBound
<1> QED BY <1>1, WalkType, PTL

(***************************************************************************)
(* The curve never falls, on either side of the kink or across it.         *)
(***************************************************************************)
LEMMA BorrowRateMonotone ==
    ASSUME NEW u \in Nat, NEW v \in Nat, u <= v, NEW config \in MarketConfigs
    PROVE  borrow_rate_annual_bps(u, config) <= borrow_rate_annual_bps(v, config)
<1> DEFINE o == (config.optimal_utilization * WAD) \div BPS
           base == config.base_rate
           s1 == config.slope1
           s2 == config.slope2
           low(w) == (w * s1) \div o
           high(w) == ((w - o) * s2) \div (WAD - o)
<1>1. base \in Nat /\ s1 \in Nat /\ s2 \in Nat
  BY DEF MarketConfigs
<1>2. o \in Nat /\ o < WAD
  BY OptimalType
<1>3. borrow_rate_annual_bps(u, config) =
        IF u <= o THEN IF o = 0 THEN base ELSE base + low(u)
        ELSE base + s1 + high(u)
  BY DEF borrow_rate_annual_bps
<1>4. borrow_rate_annual_bps(v, config) =
        IF v <= o THEN IF o = 0 THEN base ELSE base + low(v)
        ELSE base + s1 + high(v)
  BY DEF borrow_rate_annual_bps
<1> HIDE DEF o, base, s1, s2
<1>5. CASE v <= o
  <2>1. u <= o
    BY <1>2, <1>5
  <2>2. o # 0 => low(u) \in Nat /\ low(v) \in Nat /\ low(u) <= low(v)
    BY <1>1, <1>2, MulNat, MulMono, DivBounds, DivMono
  <2> HIDE DEF low
  <2> QED BY <1>1, <1>3, <1>4, <1>5, <2>1, <2>2
<1>6. CASE u <= o /\ ~(v <= o)
  <2>1. o # 0 => low(u) \in Nat /\ low(u) <= s1
    <3> SUFFICES ASSUME o # 0 PROVE low(u) \in Nat /\ low(u) <= s1
      OBVIOUS
    <3>1. u * s1 \in Nat /\ u * s1 <= s1 * o
      BY <1>1, <1>2, <1>6, MulNat, MulMono
    <3> QED BY <1>1, <1>2, <3>1, DivBounds, DivAtMost
  <2>2. high(v) \in Nat
    <3>1. v - o \in Nat /\ WAD - o \in Nat \ {0}
      BY <1>2, <1>6, Scales
    <3> QED BY <1>1, <3>1, MulNat, DivBounds
  <2> HIDE DEF low, high
  <2> QED BY <1>1, <1>3, <1>4, <1>6, <2>1, <2>2
<1>7. CASE ~(u <= o)
  <2>1. ~(v <= o)
    BY <1>2, <1>7
  <2>2. u - o \in Nat /\ v - o \in Nat /\ u - o <= v - o /\ WAD - o \in Nat \ {0}
    BY <1>2, <1>7, <2>1, Scales
  <2>3. /\ (u - o) * s2 \in Nat /\ (v - o) * s2 \in Nat
        /\ (u - o) * s2 <= (v - o) * s2
    BY <1>1, <2>2, MulNat, MulMono
  <2>4. high(u) \in Nat /\ high(v) \in Nat /\ high(u) <= high(v)
    BY <2>2, <2>3, DivBounds, DivMono
  <2> HIDE DEF high
  <2> QED BY <1>1, <1>3, <1>4, <1>7, <2>1, <2>4
<1> QED BY <1>5, <1>6, <1>7

THEOREM RateMonotoneCorrect == Spec => RateMonotone
<1> DEFINE Rises == x' <= WAD => borrow_rate_annual_bps(x, Config)
                                    <= borrow_rate_annual_bps(x', Config)
<1>1. WalkTypeOK /\ [Next]_<<x, y>> => [Rises]_<<x, y>>
  <2> SUFFICES ASSUME WalkTypeOK, Next PROVE Rises
    OBVIOUS
  <2>1. x \in Nat /\ x' \in Nat /\ x <= x'
    BY DEF WalkTypeOK, Next
  <2> QED BY <2>1, BorrowRateMonotone, WalkAssumption
<1> QED BY <1>1, WalkType, PTL DEF Spec, RateMonotone

(***************************************************************************)
(* Shares bought and sold at one index are worth what was paid for them to *)
(* within half a share and half a unit.                                    *)
(***************************************************************************)
LEMMA RoundHalfUp ==
    ASSUME NEW a \in Nat, NEW b \in Nat \ {0}
    PROVE  LET k == (a + b \div 2) \div b
           IN  /\ k \in Nat /\ k * b \in Nat
               /\ 2 * (k * b) <= 2 * a + b
               /\ 2 * a <= 2 * (k * b) + b
<1> DEFINE h == b \div 2
           k == (a + h) \div b
<1>1. h \in Nat /\ 2 * h <= b /\ b <= 2 * h + 1
  OBVIOUS
<1> HIDE DEF h
<1>2. k \in Nat /\ k * b \in Nat /\ k * b <= a + h /\ a + h < k * b + b
  BY <1>1, DivBounds, DivTimes, DivRemainder, MulNat
<1> HIDE DEF k
<1>3. 2 * (k * b) <= 2 * a + b /\ 2 * a <= 2 * (k * b) + b
  BY <1>1, <1>2
<1> QED BY <1>2, <1>3 DEF h, k

THEOREM RoundTripCorrect == Spec => []RoundTripWithinHalfUnits
<1>1. WalkTypeOK => RoundTripWithinHalfUnits
  <2> SUFFICES ASSUME WalkTypeOK PROVE RoundTripWithinHalfUnits
    OBVIOUS
  <2> DEFINE k == wad_div(x, y)
             back == wad_mul(k, y)
  <2>1. x \in Nat /\ y \in Nat \ {0} /\ x * WAD \in Nat
    BY MulNat, Scales DEF WalkTypeOK
  <2>2. /\ k \in Nat /\ k * y \in Nat
        /\ 2 * (k * y) <= 2 * (x * WAD) + y
        /\ 2 * (x * WAD) <= 2 * (k * y) + y
    BY <2>1, RoundHalfUp DEF wad_div
  <2> HIDE DEF k
  <2>3. /\ back \in Nat /\ back * WAD \in Nat
        /\ 2 * (back * WAD) <= 2 * (k * y) + WAD
        /\ 2 * (k * y) <= 2 * (back * WAD) + WAD
    BY <2>2, RoundHalfUp, Scales DEF wad_mul, HALF_WAD
  <2> HIDE DEF back
  <2>4. /\ 2 * (back * WAD) <= 2 * (x * WAD) + (y + WAD)
        /\ 2 * (x * WAD) <= 2 * (back * WAD) + (y + WAD)
    BY <2>1, <2>2, <2>3, Scales
  <2>5. CASE back >= x
    <3>1. 2 * WAD * (back - x) = 2 * (back * WAD) - 2 * (x * WAD)
      BY <2>1, <2>3, Scales
    <3> QED BY <2>1, <2>3, <2>4, <2>5, <3>1, Scales
            DEF RoundTripWithinHalfUnits, back, k
  <2>6. CASE ~(back >= x)
    <3>1. 2 * WAD * (x - back) = 2 * (x * WAD) - 2 * (back * WAD)
      BY <2>1, <2>3, Scales
    <3> QED BY <2>1, <2>3, <2>4, <2>6, <3>1, Scales
            DEF RoundTripWithinHalfUnits, back, k
  <2> QED BY <2>5, <2>6
<1> QED BY <1>1, WalkType, PTL

(***************************************************************************)
(* wad_ratio of u128 operands fails only where the quotient is no u128,    *)
(* when the width holds the square of WAD with a WAD to spare: 10^36 in    *)
(* 128 bits.  A narrower width, or a wider scale, would let the rounded    *)
(* fraction of an admissible ratio overflow.                               *)
(***************************************************************************)
LEMMA ScaledFraction ==
    ASSUME NEW r \in Nat, NEW d \in Nat \ {0}, r < d,
           ~ratio_drops_fraction(r, d), ~Fits(r * WAD)
    PROVE  ratio_fraction(r, d) \in Nat /\ ratio_fraction(r, d) <= WAD
<1> DEFINE s == ratio_scale(r)
           n == r \div s
           k == d \div s
<1>1. s \in Nat \ {0}
  <2>1. U128_MAX \div WAD \in Nat \ {0}
    BY Scales, DivBounds, DivAtLeast
  <2> QED BY <2>1, DivBounds DEF ratio_scale
<1>2. k # 0 /\ ratio_fraction(r, d) = (n * WAD) \div k
  BY DEF ratio_drops_fraction, ratio_fraction
<1> HIDE DEF s
<1>3. n \in Nat /\ k \in Nat \ {0} /\ n <= k
  BY <1>1, <1>2, DivBounds, DivMono
<1> HIDE DEF n, k
<1>4. n * WAD \in Nat /\ n * WAD <= WAD * k
  <2>1. n * WAD \in Nat /\ n * WAD <= k * WAD /\ k * WAD = WAD * k
    BY <1>3, Scales, MulNat, MulMono
  <2> QED BY <2>1
<1> QED BY <1>2, <1>3, <1>4, Scales, DivBounds, DivAtMost

LEMMA RatioFits ==
    ASSUME WAD * WAD + WAD <= U128_MAX,
           NEW n \in Nat, n <= U128_MAX, NEW d \in Nat \ {0},
           Fits((n * WAD) \div d + 1)
    PROVE  wad_ratio_ok(n, d)
<1> DEFINE q == n \div d
           r == n % d
<1>1. SUFFICES ASSUME ~Fits(n * WAD)
               PROVE  /\ Fits(q * WAD)
                      /\ ~ratio_drops_fraction(r, d) =>
                            Fits(q * WAD + ratio_fraction(r, d))
  BY DEF wad_ratio_ok
<1>2. q \in Nat /\ r \in Nat /\ r < d /\ n = q * d + r /\ q * d \in Nat /\ q * d <= n
  BY DivBounds, ModBelow, DivTimes, MulNat
<1> HIDE DEF q, r
<1> DEFINE whole == q * WAD
<1>3. whole \in Nat /\ n * WAD \in Nat /\ r * WAD \in Nat /\ n * WAD = whole * d + r * WAD
  <2>1. q * WAD \in Nat /\ n * WAD \in Nat /\ r * WAD \in Nat
    BY <1>2, MulNat, Scales
  <2>2. (q * d + r) * WAD = (q * WAD) * d + r * WAD
    BY <1>2, Scales
  <2> QED BY <1>2, <2>1, <2>2
<1> HIDE DEF whole
<1>4. (n * WAD) \div d \in Nat /\ whole <= (n * WAD) \div d
  <2>1. whole * d <= n * WAD
    BY <1>2, <1>3, MulNat
  <2> QED BY <1>3, <2>1, DivBounds, DivAtLeast
<1>5. Fits(whole)
  BY <1>3, <1>4, Scales DEF Fits
<1>6. ASSUME Fits(r * WAD) PROVE Fits(whole + ratio_fraction(r, d))
  <2> DEFINE part == (r * WAD) \div d
  <2>1. ratio_fraction(r, d) = part
    BY <1>6 DEF ratio_fraction
  <2>2. part \in Nat /\ part * d <= r * WAD
    BY <1>2, <1>3, DivBounds, DivTimes
  <2> HIDE DEF part
  <2>3. (whole + part) * d <= n * WAD
    <3>1. (whole + part) * d = whole * d + part * d
      BY <1>3, <2>2
    <3> QED BY <1>3, <2>2, <3>1, MulNat
  <2>4. whole + part <= (n * WAD) \div d
    BY <1>3, <2>2, <2>3, DivAtLeast
  <2> QED BY <1>3, <1>4, <2>1, <2>2, <2>4, Scales DEF Fits
<1>7. ASSUME ~Fits(r * WAD), ~ratio_drops_fraction(r, d)
      PROVE  Fits(whole + ratio_fraction(r, d))
  <2>1. ratio_fraction(r, d) \in Nat /\ ratio_fraction(r, d) <= WAD
    BY <1>2, <1>7, ScaledFraction
  <2>2. q <= WAD
    <3>1. r * WAD <= d * WAD /\ d * WAD = WAD * d /\ WAD * d \in Nat
      BY <1>2, Scales, MulMono, MulNat
    <3>2. q * d < WAD * d
      BY <1>2, <1>3, <1>7, <3>1, Scales DEF Fits
    <3> QED BY <1>2, <3>2, MulMono, Scales
  <2>3. whole <= WAD * WAD /\ WAD * WAD \in Nat
    BY <1>2, <2>2, MulMono, MulNat, Scales DEF whole
  <2> QED BY <1>3, <2>1, <2>3, Scales DEF Fits
<1> QED BY <1>5, <1>6, <1>7 DEF whole

THEOREM RatioFailsOnlyOnOverflowCorrect ==
    ASSUME MaxX <= U128_MAX, WAD * WAD + WAD <= U128_MAX
    PROVE  Spec => []RatioFailsOnlyOnOverflow
<1> DEFINE Bounded == WalkTypeOK /\ x <= MaxX
<1>1. Init => Bounded
  BY WalkAssumption DEF Init, WalkTypeOK
<1>2. Bounded /\ [Next]_<<x, y>> => Bounded'
  BY WalkAssumption DEF WalkTypeOK, Next
<1>3. Bounded => RatioFailsOnlyOnOverflow
  <2> SUFFICES ASSUME Bounded PROVE RatioFailsOnlyOnOverflow
    OBVIOUS
  <2>1. x \in Nat /\ x <= U128_MAX /\ y \in Nat \ {0}
    BY WalkAssumption, Scales DEF WalkTypeOK
  <2> QED BY <2>1, RatioFits DEF RatioFailsOnlyOnOverflow
<1> QED BY <1>1, <1>2, <1>3, PTL DEF Spec

(***************************************************************************)
(* Rounding a number of WAD to RAY and back is rounding it once, to one    *)
(* unit: n is rounded once, k in RAY and then t back to WAD.               *)
(***************************************************************************)
LEMMA RoundedTwice ==
    ASSUME NEW e \in Nat, NEW w \in Nat \ {0}, NEW r \in Nat \ {0},
           NEW k \in Nat, NEW t \in Nat, NEW n \in Nat,
           2 * (k * w) <= 2 * (e * r) + w, 2 * (e * r) <= 2 * (k * w) + w,
           2 * (t * r) <= 2 * k + r, 2 * k <= 2 * (t * r) + r,
           2 * (n * w) <= 2 * e + w, 2 * e <= 2 * (n * w) + w
    PROVE  t - n \in -1 .. 1
<1> DEFINE rw == r * w
           trw == (t * r) * w
           nrw == (n * w) * r
           kw == k * w
           er == e * r
<1>1. /\ rw \in Nat /\ w <= rw /\ trw \in Nat /\ nrw \in Nat /\ kw \in Nat /\ er \in Nat
  <2>1. 1 * w <= r * w
    BY MulMono
  <2> QED BY <2>1, MulNat
<1>2. 2 * trw <= 2 * kw + rw /\ 2 * kw <= 2 * trw + rw
  <2>1. (2 * (t * r)) * w <= (2 * k + r) * w /\ (2 * k) * w <= (2 * (t * r) + r) * w
    BY MulMono, MulNat
  <2> QED BY <2>1
<1>3. 2 * nrw <= 2 * er + rw /\ 2 * er <= 2 * nrw + rw
  <2>1. (2 * (n * w)) * r <= (2 * e + w) * r /\ (2 * e) * r <= (2 * (n * w) + w) * r
    BY MulMono, MulNat
  <2> QED BY <2>1
<1>4. trw = t * rw /\ nrw = n * rw
  OBVIOUS
<1>5. 2 * kw <= 2 * er + w /\ 2 * er <= 2 * kw + w
  OBVIOUS
<1> HIDE DEF rw, trw, nrw, kw, er
<1>6. ~(t >= n + 2)
  <2>1. SUFFICES ASSUME t >= n + 2 PROVE FALSE
    OBVIOUS
  <2>2. (n + 2) * rw <= t * rw /\ (n + 2) * rw = n * rw + 2 * rw
    BY <1>1, <2>1, MulMono
  <2> QED BY <1>1, <1>2, <1>3, <1>4, <1>5, <2>2
<1>7. ~(n >= t + 2)
  <2>1. SUFFICES ASSUME n >= t + 2 PROVE FALSE
    OBVIOUS
  <2>2. (t + 2) * rw <= n * rw /\ (t + 2) * rw = t * rw + 2 * rw
    BY <1>1, <2>1, MulMono
  <2> QED BY <1>1, <1>2, <1>3, <1>4, <1>5, <2>2
<1> QED BY <1>6, <1>7

\* A quotient e / w, computed in RAY and brought back, and computed in WAD.
LEMMA RayAgrees ==
    ASSUME NEW e \in Nat, NEW w \in Nat \ {0}, NEW r \in Nat \ {0}
    PROVE  LET k == ((e * r) * r + (w * r) \div 2) \div (w * r)
               t == (k + r \div 2) \div r
               n == (e + w \div 2) \div w
           IN  k \in Nat /\ t - n \in -1 .. 1
<1> DEFINE k == ((e * r) * r + (w * r) \div 2) \div (w * r)
           t == (k + r \div 2) \div r
           n == (e + w \div 2) \div w
<1>1. /\ e * r \in Nat /\ (e * r) * r \in Nat /\ w * r \in Nat \ {0}
  <2>1. 1 * r <= w * r
    BY MulMono
  <2> QED BY <2>1, MulNat
<1>2. /\ k \in Nat
      /\ 2 * (k * (w * r)) <= 2 * ((e * r) * r) + w * r
      /\ 2 * ((e * r) * r) <= 2 * (k * (w * r)) + w * r
  BY <1>1, RoundHalfUp
<1> HIDE DEF k
<1>3. /\ t \in Nat /\ 2 * (t * r) <= 2 * k + r /\ 2 * k <= 2 * (t * r) + r
  BY <1>2, RoundHalfUp
<1>4. /\ n \in Nat /\ 2 * (n * w) <= 2 * e + w /\ 2 * e <= 2 * (n * w) + w
  BY RoundHalfUp
<1> HIDE DEF t, n
<1>5. /\ 2 * (k * w) <= 2 * (e * r) + w /\ 2 * (e * r) <= 2 * (k * w) + w
  <2> DEFINE low == 2 * (k * w)
             mid == 2 * (e * r)
  <2>1. low \in Nat /\ mid \in Nat
    BY <1>1, <1>2, MulNat
  <2>2. low * r <= (mid + w) * r /\ mid * r <= (low + w) * r
    <3>1. /\ 2 * (k * (w * r)) = low * r /\ 2 * ((e * r) * r) = mid * r
          /\ (mid + w) * r = mid * r + w * r /\ (low + w) * r = low * r + w * r
      BY <1>2
    <3> QED BY <1>2, <3>1
  <2> HIDE DEF low, mid
  <2>3. low <= mid + w /\ mid <= low + w
    BY <2>1, <2>2, MulStrict
  <2> QED BY <2>3 DEF low, mid
<1>6. t - n \in -1 .. 1
  BY <1>2, <1>3, <1>4, <1>5, RoundedTwice
<1> QED BY <1>2, <1>6 DEF k, t, n

\* Back to WAD, where the addition does not wrap.
LEMMA RayToWad ==
    ASSUME NEW k \in Nat, Fits(k + WAD_RAY_RATIO \div 2)
    PROVE  ray_to_wad(k) = (k + WAD_RAY_RATIO \div 2) \div WAD_RAY_RATIO
<1> DEFINE sum == k + WAD_RAY_RATIO \div 2
<1>1. sum \in Nat /\ sum <= U128_MAX /\ U128_MAX \in Nat
  BY RayMathAssumption, DivBounds, Scales DEF Fits
<1> HIDE DEF sum
<1>2. sum % (U128_MAX + 1) = sum
  BY <1>1
<1> QED BY <1>2 DEF ray_to_wad, sum

LEMMA RayProduct ==
    ASSUME NEW a \in Nat, NEW b \in Nat,
           ray_mul_ok(wad_to_ray(a), wad_to_ray(b)),
           Fits(ray_mul(wad_to_ray(a), wad_to_ray(b)) + WAD_RAY_RATIO \div 2)
    PROVE  /\ wad_mul_ok(a, b)
           /\ ray_to_wad(ray_mul(wad_to_ray(a), wad_to_ray(b))) - wad_mul(a, b) \in -1 .. 1
<1> DEFINE r == WAD_RAY_RATIO
           e == a * b
           k == ((e * r) * r + (WAD * r) \div 2) \div (WAD * r)
<1>1. r \in Nat \ {0} /\ WAD \in Nat \ {0} /\ e \in Nat
  BY RayMathAssumption, Scales, MulNat
<1>2. (a * r) * (b * r) = (e * r) * r
  BY <1>1
<1>3. ray_mul(wad_to_ray(a), wad_to_ray(b)) = k
  BY <1>2 DEF ray_mul, wad_to_ray, RAY
<1>4. k \in Nat /\ (k + r \div 2) \div r - (e + WAD \div 2) \div WAD \in -1 .. 1
  BY <1>1, RayAgrees
<1>5. ray_to_wad(k) = (k + r \div 2) \div r
  BY <1>3, <1>4, RayToWad
<1>6. wad_mul_ok(a, b)
  <2>1. SUFFICES ASSUME a # 0, b # 0 PROVE e + WAD \div 2 <= U128_MAX
    BY DEF wad_mul_ok, HALF_WAD, Fits
  <2>2. a * r # 0 /\ b * r # 0
    BY <1>1, <2>1
  <2>3. (e * r) * r + (WAD * r) \div 2 <= U128_MAX
    BY <1>2, <2>2 DEF ray_mul_ok, wad_to_ray, RAY, Fits
  <2>4. e * 1 <= e * r /\ e * r \in Nat /\ (e * r) * 1 <= (e * r) * r /\ (e * r) * r \in Nat
    BY <1>1, MulMono, MulNat
  <2>5. WAD \div 2 <= (WAD * r) \div 2
    <3>1. WAD * 1 <= WAD * r /\ WAD * r \in Nat
      BY <1>1, MulMono, MulNat
    <3> QED BY <1>1, <3>1, DivMono
  <2>6. WAD \div 2 \in Nat /\ (WAD * r) \div 2 \in Nat
    BY <1>1, MulNat, DivBounds
  <2> QED BY <1>1, <2>3, <2>4, <2>5, <2>6, Scales
<1> QED BY <1>3, <1>4, <1>5, <1>6 DEF wad_mul, HALF_WAD

LEMMA RayQuotient ==
    ASSUME NEW a \in Nat, NEW b \in Nat \ {0},
           ray_div_ok(wad_to_ray(a), wad_to_ray(b)),
           Fits(ray_div(wad_to_ray(a), wad_to_ray(b)) + WAD_RAY_RATIO \div 2)
    PROVE  /\ wad_div_ok(a, b)
           /\ ray_to_wad(ray_div(wad_to_ray(a), wad_to_ray(b))) - wad_div(a, b) \in -1 .. 1
<1> DEFINE r == WAD_RAY_RATIO
           e == a * WAD
           k == ((e * r) * r + (b * r) \div 2) \div (b * r)
<1>1. r \in Nat \ {0} /\ WAD \in Nat \ {0} /\ e \in Nat
  BY RayMathAssumption, Scales, MulNat
<1>2. (a * r) * (WAD * r) = (e * r) * r
  BY <1>1
<1>3. ray_div(wad_to_ray(a), wad_to_ray(b)) = k
  BY <1>2 DEF ray_div, wad_to_ray, RAY
<1>4. k \in Nat /\ (k + r \div 2) \div r - (e + b \div 2) \div b \in -1 .. 1
  BY <1>1, RayAgrees
<1>5. ray_to_wad(k) = (k + r \div 2) \div r
  BY <1>3, <1>4, RayToWad
<1>6. wad_div_ok(a, b)
  <2>1. (e * r) * r + (b * r) \div 2 <= U128_MAX
    BY <1>2 DEF ray_div_ok, wad_to_ray, RAY, Fits
  <2>2. e * 1 <= e * r /\ e * r \in Nat /\ (e * r) * 1 <= (e * r) * r /\ (e * r) * r \in Nat
    BY <1>1, MulMono, MulNat
  <2>3. b \div 2 <= (b * r) \div 2
    <3>1. b * 1 <= b * r /\ b * r \in Nat
      BY <1>1, MulMono, MulNat
    <3> QED BY <1>1, <3>1, DivMono
  <2>4. b \div 2 \in Nat /\ (b * r) \div 2 \in Nat
    BY <1>1, MulNat, DivBounds
  <2>5. e + b \div 2 <= U128_MAX
    BY <1>1, <2>1, <2>2, <2>3, <2>4, Scales
  <2> QED BY <2>5 DEF wad_div_ok, Fits
<1> QED BY <1>3, <1>4, <1>5, <1>6 DEF wad_div

(***************************************************************************)
(* The choice of WAD over RAY costs at most one unit and never a range:    *)
(* what fits in RAY fits in WAD, whatever the two scales and the width.    *)
(***************************************************************************)
THEOREM WadCoversRayCorrect == Spec => []WadCoversRay
<1>1. WalkTypeOK => WadCoversRay
  BY RayProduct, RayQuotient DEF WalkTypeOK, WadCoversRay
<1> QED BY <1>1, WalkType, PTL

(***************************************************************************)
(* Compounding in two steps.  A growth is 1.0, the interest and a          *)
(* second-order term h, which is half the square of the interest up to     *)
(* rounding and the square of one second's rate, left out for one second.  *)
(***************************************************************************)
LEMMA Rounded ==
    ASSUME NEW n \in Nat
    PROVE  LET q == (n + HALF_WAD) \div WAD
           IN  /\ q \in Nat /\ q * WAD \in Nat /\ q * WAD <= n + HALF_WAD
               /\ 2 * (q * WAD) <= 2 * n + WAD
               /\ 2 * n <= 2 * (q * WAD) + WAD
<1> DEFINE q == (n + HALF_WAD) \div WAD
<1>1. n + HALF_WAD \in Nat /\ WAD \in Nat \ {0}
  BY Scales
<1>2. 2 * HALF_WAD <= WAD /\ WAD <= 2 * HALF_WAD + 1
  BY Scales DEF HALF_WAD
<1>3. q \in Nat /\ q * WAD <= n + HALF_WAD /\ n + HALF_WAD < q * WAD + WAD
  BY <1>1, DivBounds, DivTimes, DivRemainder
<1>4. q * WAD \in Nat
  BY <1>1, <1>3, MulNat
<1> HIDE DEF q
<1>5. 2 * (q * WAD) <= 2 * n + WAD /\ 2 * n <= 2 * (q * WAD) + WAD
  BY <1>1, <1>2, <1>3, <1>4, Scales
<1> QED BY <1>3, <1>4, <1>5 DEF q

LEMMA SecondOrder ==
    ASSUME NEW rate \in Nat, NEW d \in Nat
    PROVE  LET rt == rate * d
               e  == (rate * rate) \div WAD
           IN  \E h \in Nat :
                 /\ calculate_compound_interest(rate, d) = WAD + rt + h
                 /\ 4 * (h * WAD) <= 2 * (rt * rt) + WAD
                 /\ 2 * (rt * rt) <= 4 * (h * WAD) + 2 * (e * WAD) + 3 * WAD
<1> DEFINE rt == rate * d
           e == (rate * rate) \div WAD
           q == (rt * rt + HALF_WAD) \div WAD
           h == q \div 2
<1>1. rt \in Nat /\ rt * rt \in Nat /\ rate * rate \in Nat
  BY MulNat
<1>2. e \in Nat /\ e * WAD \in Nat /\ rate * rate < e * WAD + WAD
  BY <1>1, DivBounds, DivRemainder, MulNat, Scales
<1>3. CASE d <= 1
  <2>1. rt = 0 \/ rt = rate
    BY <1>3
  <2>2. rt * rt <= rate * rate
    BY <1>1, <2>1
  <2>3. calculate_compound_interest(rate, d) = WAD + rt + 0 /\ 0 * WAD = 0
    BY <1>1, <1>3, Scales DEF calculate_compound_interest
  <2> HIDE DEF rt, e
  <2>4. 2 * (rt * rt) <= 4 * (0 * WAD) + 2 * (e * WAD) + 3 * WAD
        /\ 4 * (0 * WAD) <= 2 * (rt * rt) + WAD
    BY <1>1, <1>2, <2>2, <2>3, Scales
  <2> QED BY <2>3, <2>4 DEF rt, e
<1>4. CASE d > 1
  <2>1. /\ q \in Nat /\ q * WAD \in Nat
        /\ 2 * (q * WAD) <= 2 * (rt * rt) + WAD
        /\ 2 * (rt * rt) <= 2 * (q * WAD) + WAD
    BY <1>1, Rounded
  <2> HIDE DEF q
  <2>2. h \in Nat /\ 2 * h <= q /\ q <= 2 * h + 1
    BY <2>1
  <2>3. h * WAD \in Nat
    BY <2>2, MulNat, Scales
  <2>4. 2 * (h * WAD) <= q * WAD /\ q * WAD <= 2 * (h * WAD) + WAD
    <3> HIDE DEF h
    <3>1. (2 * h) * WAD <= q * WAD /\ q * WAD <= (2 * h + 1) * WAD
      BY <2>1, <2>2, MulMono, Scales
    <3>2. (2 * h) * WAD = 2 * (h * WAD) /\ (2 * h + 1) * WAD = 2 * (h * WAD) + WAD
      BY <2>2, Scales
    <3> QED BY <3>1, <3>2
  <2>5. calculate_compound_interest(rate, d) = WAD + rt + h
    BY <1>4 DEF calculate_compound_interest, wad_mul, q
  <2> HIDE DEF h, rt, e
  <2>6. /\ 4 * (h * WAD) <= 2 * (rt * rt) + WAD
        /\ 2 * (rt * rt) <= 4 * (h * WAD) + 2 * (e * WAD) + 3 * WAD
    BY <1>1, <1>2, <2>1, <2>3, <2>4, Scales
  <2> QED BY <2>2, <2>5, <2>6 DEF rt, e
<1> QED BY <1>3, <1>4

\* The product of two growths holds the interest of both, the second-order terms and
\* the cross term.
LEMMA GrowthProduct ==
    ASSUME NEW a \in Nat, NEW b \in Nat, NEW ha \in Nat, NEW hb \in Nat
    PROVE  wad_mul(WAD + a + ha, WAD + b + hb)
               >= WAD + a + b + ha + hb + (a * b + HALF_WAD) \div WAD
<1> DEFINE m == (a * b + HALF_WAD) \div WAD
           k == WAD + a + b + ha + hb + m
           p == (WAD + a + ha) * (WAD + b + hb)
<1>1. a * b \in Nat /\ m \in Nat /\ m * WAD \in Nat /\ m * WAD <= a * b + HALF_WAD
  BY MulNat, Rounded
<1>2. p \in Nat /\ k \in Nat
  BY <1>1, MulNat, Scales
<1>3. a * b <= (a + ha) * (b + hb) /\ (a + ha) * (b + hb) \in Nat
  <2>1. a * b <= (a + ha) * b /\ (a + ha) * b <= (a + ha) * (b + hb)
    BY MulMono
  <2>2. (a + ha) * b \in Nat /\ a * b \in Nat /\ (a + ha) * (b + hb) \in Nat
    BY MulNat
  <2> QED BY <2>1, <2>2
<1>4. p = (WAD + a + b + ha + hb) * WAD + (a + ha) * (b + hb)
  <2> DEFINE f == a + ha
             g == b + hb
  <2>1. f \in Nat /\ g \in Nat /\ WAD \in Nat
    BY Scales
  <2>2. p = (WAD + f) * (WAD + g) /\ WAD + a + b + ha + hb = WAD + f + g
    BY Scales
  <2> HIDE DEF f, g, p
  <2>3. (WAD + f) * (WAD + g) = (WAD + f + g) * WAD + f * g
    BY <2>1
  <2> QED BY <2>2, <2>3 DEF f, g
<1>5. k * WAD = (WAD + a + b + ha + hb) * WAD + m * WAD
  <2> DEFINE f == WAD + a + b + ha + hb
  <2>1. f \in Nat /\ k = f + m /\ WAD \in Nat
    BY Scales
  <2> HIDE DEF f, k, m
  <2>2. (f + m) * WAD = f * WAD + m * WAD
    BY <1>1, <2>1
  <2> QED BY <2>1, <2>2 DEF f
<1>6. (WAD + a + b + ha + hb) * WAD \in Nat
  BY MulNat, Scales
<1> HIDE DEF k, p, m
<1>7. k * WAD <= p + HALF_WAD
  BY <1>1, <1>2, <1>3, <1>4, <1>5, <1>6, Scales
<1>8. (p + HALF_WAD) \div WAD >= k
  BY <1>2, <1>7, DivAtLeast, Scales
<1> QED BY <1>8 DEF k, p, m, wad_mul

LEMMA SplitCostsMore ==
    ASSUME NEW rate \in Nat, NEW d1 \in Nat, NEW d2 \in Nat
    PROVE  calculate_compound_interest(rate, d1 + d2)
             <= wad_mul(calculate_compound_interest(rate, d1),
                        calculate_compound_interest(rate, d2))
                + 2 + (rate * rate) \div WAD
<1> DEFINE a == rate * d1
           b == rate * d2
           s == rate * (d1 + d2)
           e == (rate * rate) \div WAD
           m == (a * b + HALF_WAD) \div WAD
<1>1. /\ a \in Nat /\ b \in Nat /\ s \in Nat /\ s = a + b
      /\ a * a \in Nat /\ b * b \in Nat /\ a * b \in Nat /\ s * s \in Nat
      /\ rate * rate \in Nat
  <2>1. a \in Nat /\ b \in Nat /\ s \in Nat /\ s = a + b
    BY MulNat
  <2> HIDE DEF a, b, s
  <2> QED BY <2>1, MulNat
<1>2. s * s = a * a + b * b + 2 * (a * b)
  <2> HIDE DEF a, b, s
  <2> QED BY <1>1
<1>3. e \in Nat /\ e * WAD \in Nat
  BY <1>1, DivBounds, MulNat, Scales
<1>4. m \in Nat /\ m * WAD \in Nat /\ 2 * (a * b) <= 2 * (m * WAD) + WAD
  BY <1>1, Rounded
<1>5. PICK ha \in Nat :
        /\ calculate_compound_interest(rate, d1) = WAD + a + ha
        /\ 2 * (a * a) <= 4 * (ha * WAD) + 2 * (e * WAD) + 3 * WAD
  BY SecondOrder
<1>6. PICK hb \in Nat :
        /\ calculate_compound_interest(rate, d2) = WAD + b + hb
        /\ 2 * (b * b) <= 4 * (hb * WAD) + 2 * (e * WAD) + 3 * WAD
  BY SecondOrder
<1>7. PICK hs \in Nat :
        /\ calculate_compound_interest(rate, d1 + d2) = WAD + s + hs
        /\ 4 * (hs * WAD) <= 2 * (s * s) + WAD
  <2>1. d1 + d2 \in Nat
    OBVIOUS
  <2> QED BY <2>1, SecondOrder
<1>8. wad_mul(WAD + a + ha, WAD + b + hb) >= WAD + a + b + ha + hb + m
      /\ wad_mul(WAD + a + ha, WAD + b + hb) \in Nat
  <2>1. WAD + a + ha \in Nat /\ WAD + b + hb \in Nat
    BY <1>1, Scales
  <2> HIDE DEF a, b
  <2> QED BY <1>1, <2>1, GrowthProduct, WadMulType
<1>9. hs <= ha + hb + m + 2 + e
  <2> HIDE DEF a, b, s, e, m
  <2> SUFFICES ASSUME ha + hb + m + 3 + e <= hs PROVE FALSE
    BY <1>3, <1>4
  <2>1. (ha + hb + m + 3 + e) * WAD <= hs * WAD
    BY <1>3, <1>4, MulMono, Scales
  <2>2. (ha + hb + m + 3 + e) * WAD = ha * WAD + hb * WAD + m * WAD + 3 * WAD + e * WAD
    BY <1>3, <1>4, Scales
  <2>3. ha * WAD \in Nat /\ hb * WAD \in Nat /\ hs * WAD \in Nat
    BY MulNat, Scales
  <2> QED BY <1>1, <1>2, <1>3, <1>4, <1>5, <1>6, <1>7, <2>1, <2>2, <2>3, Scales
<1> HIDE DEF a, b, s, e, m
<1>10. WAD + s + hs <= wad_mul(WAD + a + ha, WAD + b + hb) + 2 + e
  BY <1>1, <1>3, <1>4, <1>8, <1>9, Scales
<1> QED BY <1>5, <1>6, <1>7, <1>10 DEF e

(***************************************************************************)
(* Touching a market often is no way to owe less: whatever the rate and    *)
(* the two stretches of time, compounding over both in one step comes to   *)
(* no more than compounding twice, but for rounding and the second-order   *)
(* term of one second (calculate_compound_interest).                       *)
(***************************************************************************)
THEOREM SplittingNeverCheaperCorrect == Spec => []SplittingNeverCheaper
<1>1. WalkTypeOK => SplittingNeverCheaper
  BY SplitCostsMore DEF WalkTypeOK, SplittingNeverCheaper
<1> QED BY <1>1, WalkType, PTL

(***************************************************************************)
(* The powers of the base.  A recursive definition is a CHOOSE: that there *)
(* is such a function is put together from the tables of the first powers, *)
(* each of which exists by its smallest counterexample.                    *)
(***************************************************************************)
PowerTable(f, n) ==
    /\ f \in [0 .. n -> Nat]
    /\ f[0] = 1
    /\ \A i \in 1 .. n : f[i] = RADIX * f[i - 1]

LEMMA PowerTableExists == \A n \in Nat : \E f : PowerTable(f, n)
<1> DEFINE Bad == {n \in Nat : ~\E f : PowerTable(f, n)}
<1>1. RADIX \in Nat
  BY ConversionAssumption
<1>2. ASSUME NEW n \in Bad, \A k \in Bad : n <= k PROVE FALSE
  <2>1. CASE n = 0
    <3>1. PowerTable([i \in 0 .. 0 |-> 1], 0)
      BY DEF PowerTable
    <3> QED BY <2>1, <3>1
  <2>2. CASE n # 0
    <3>1. n - 1 \in Nat /\ n - 1 \notin Bad
      BY <1>2, <2>2
    <3>2. PICK f : PowerTable(f, n - 1)
      BY <3>1
    <3>3. f \in [0 .. n - 1 -> Nat] /\ f[0] = 1 /\ \A i \in 1 .. n - 1 : f[i] = RADIX * f[i - 1]
      BY <3>2 DEF PowerTable
    <3> DEFINE g == [i \in 0 .. n |-> IF i = n THEN RADIX * f[n - 1] ELSE f[i]]
    <3>4. RADIX * f[n - 1] \in Nat
      BY <1>1, <3>1, <3>3
    <3>5. g \in [0 .. n -> Nat] /\ g[0] = 1
      BY <2>2, <3>1, <3>3, <3>4
    <3>6. ASSUME NEW i \in 1 .. n PROVE g[i] = RADIX * g[i - 1]
      BY <3>1, <3>3
    <3>7. PowerTable(g, n)
      BY <3>5, <3>6 DEF PowerTable
    <3> QED BY <3>7
  <2> QED BY <2>1, <2>2
<1>3. Bad = {}
  <2>1. Bad \in SUBSET Nat
    OBVIOUS
  <2> HIDE DEF Bad
  <2> QED BY <1>2, <2>1, NatMin
<1> QED BY <1>3

LEMMA PowerTablesAgree ==
    ASSUME NEW n \in Nat, NEW k \in Nat, NEW f, NEW g, PowerTable(f, n), PowerTable(g, k),
           NEW i \in Nat, i <= n, i <= k
    PROVE  f[i] = g[i]
<1> DEFINE Bad == {j \in Nat : j <= n /\ j <= k /\ f[j] # g[j]}
<1>1. /\ f[0] = 1 /\ g[0] = 1
      /\ \A j \in 1 .. n : f[j] = RADIX * f[j - 1]
      /\ \A j \in 1 .. k : g[j] = RADIX * g[j - 1]
  BY DEF PowerTable
<1>2. ASSUME NEW j \in Bad, \A h \in Bad : j <= h PROVE FALSE
  <2>1. j # 0
    BY <1>1
  <2>2. j - 1 \in Nat /\ j - 1 \notin Bad
    BY <1>2, <2>1
  <2>3. f[j - 1] = g[j - 1]
    BY <2>2
  <2> QED BY <1>1, <2>1, <2>3
<1>3. Bad = {}
  <2>1. Bad \in SUBSET Nat
    OBVIOUS
  <2> HIDE DEF Bad
  <2> QED BY <1>2, <2>1, NatMin
<1> QED BY <1>3

LEMMA PowerUnfolds == power = [e \in Nat |-> IF e = 0 THEN 1 ELSE RADIX * power[e - 1]]
<1> DEFINE table(n) == CHOOSE f : PowerTable(f, n)
           g == [n \in Nat |-> table(n)[n]]
<1>1. \A n \in Nat : PowerTable(table(n), n)
  BY PowerTableExists
<1>2. ASSUME NEW n \in Nat PROVE g[n] = IF n = 0 THEN 1 ELSE RADIX * g[n - 1]
  <2>1. CASE n = 0
    BY <1>1, <2>1 DEF PowerTable
  <2>2. CASE n # 0
    <3>1. n - 1 \in Nat
      BY <2>2
    <3>2. PowerTable(table(n), n) /\ PowerTable(table(n - 1), n - 1)
      BY <1>1, <3>1
    <3>3. table(n)[n - 1] = table(n - 1)[n - 1]
      <4> HIDE DEF table
      <4> QED BY <3>1, <3>2, PowerTablesAgree
    <3>4. table(n)[n] = RADIX * table(n)[n - 1]
      <4> HIDE DEF table
      <4> QED BY <2>2, <3>2 DEF PowerTable
    <3> HIDE DEF table
    <3> QED BY <2>2, <3>1, <3>3, <3>4
  <2> QED BY <2>1, <2>2
<1>3. g = [e \in Nat |-> IF e = 0 THEN 1 ELSE RADIX * g[e - 1]]
  <2> DEFINE h == [e \in Nat |-> IF e = 0 THEN 1 ELSE RADIX * g[e - 1]]
  <2>1. \A n \in Nat : g[n] = h[n]
    BY <1>2
  <2>2. g = [n \in Nat |-> g[n]] /\ h = [n \in Nat |-> h[n]]
    OBVIOUS
  <2> HIDE DEF g, h
  <2>3. g = h
    BY <2>1, <2>2
  <2> QED BY <2>3 DEF h
<1> HIDE DEF g
<1>4. \E f : f = [e \in Nat |-> IF e = 0 THEN 1 ELSE RADIX * f[e - 1]]
  BY <1>3
<1> QED BY <1>4 DEF power

LEMMA PowerSteps ==
    /\ power[0] = 1
    /\ \A n \in Nat \ {0} : power[n] = RADIX * power[n - 1]
  BY PowerUnfolds

LEMMA PowerType == \A n \in Nat : power[n] \in Nat \ {0}
<1> DEFINE Bad == {n \in Nat : power[n] \notin Nat \ {0}}
<1>1. RADIX \in Nat /\ RADIX > 1
  BY ConversionAssumption
<1>2. ASSUME NEW n \in Bad, \A k \in Bad : n <= k PROVE FALSE
  <2>1. n # 0
    BY PowerSteps
  <2>2. n - 1 \in Nat /\ n - 1 \notin Bad
    BY <1>2, <2>1
  <2>3. power[n - 1] \in Nat \ {0} /\ power[n] = RADIX * power[n - 1]
    BY <2>1, <2>2, PowerSteps
  <2>4. ASSUME NEW p \in Nat \ {0} PROVE RADIX * p \in Nat \ {0}
    BY <1>1
  <2> QED BY <2>3, <2>4
<1>3. Bad = {}
  <2>1. Bad \in SUBSET Nat
    OBVIOUS
  <2> HIDE DEF Bad
  <2> QED BY <1>2, <2>1, NatMin
<1> QED BY <1>3

LEMMA PowerMonotone == ASSUME NEW m \in Nat, NEW n \in Nat, m <= n PROVE power[m] <= power[n]
<1> DEFINE Bad == {k \in Nat : m <= k /\ ~(power[m] <= power[k])}
<1>1. RADIX \in Nat /\ RADIX > 1 /\ power[m] \in Nat
  BY ConversionAssumption, PowerType
<1>2. ASSUME NEW k \in Bad, \A j \in Bad : k <= j PROVE FALSE
  <2>1. k # m
    BY <1>1
  <2>2. k - 1 \in Nat /\ m <= k - 1 /\ k # 0 /\ k - 1 \notin Bad
    BY <1>2, <2>1
  <2>3. power[m] <= power[k - 1] /\ power[k - 1] \in Nat /\ power[k] = RADIX * power[k - 1]
    BY <2>2, PowerSteps, PowerType
  <2>4. ASSUME NEW p \in Nat PROVE p <= RADIX * p
    BY <1>1
  <2>5. power[k - 1] <= power[k] /\ power[k] \in Nat
    BY <2>3, <2>4, PowerType
  <2> QED BY <1>1, <2>3, <2>5
<1>3. Bad = {}
  <2>1. Bad \in SUBSET Nat
    OBVIOUS
  <2> HIDE DEF Bad
  <2> QED BY <1>2, <2>1, NatMin
<1> QED BY <1>3


(***************************************************************************)
(* Oracle entries.                                                         *)
(***************************************************************************)
LEMMA TableOfPowers ==
    ASSUME NEW e \in Int, e < POWERS, -e < POWERS
    PROVE  /\ e >= 0 => POW10[e] = power[e]
           /\ e < 0 => POW10[-e] = power[-e]
  BY ConversionAssumption DEF POW10

\* Beyond the table of powers the SDK's price is none the contract could hold.
LEMMA BeyondTable ==
    ASSUME NEW price \in Nat \ {0}, price < power[POWERS], NEW e \in Nat, POWERS <= e
    PROVE  price \div power[e] = 0 /\ price * power[e] >= power[POWERS]
<1>1. POWERS \in Nat
  BY ConversionAssumption
<1>2. power[POWERS] <= power[e] /\ power[e] \in Nat \ {0} /\ power[POWERS] \in Nat
  BY <1>1, PowerMonotone, PowerType
<1>3. price < power[e] /\ power[e] <= price * power[e]
  <2>1. \A p \in Nat : p <= price * p
    OBVIOUS
  <2> QED BY <1>2, <2>1
<1>4. price \div power[e] = 0
  BY <1>2, <1>3
<1>5. price * power[e] \in Nat
  BY <1>2
<1> QED BY <1>2, <1>3, <1>4, <1>5

WalkBounded == x <= MaxX

LEMMA WalkStays == Spec => []WalkBounded
<1>1. Init => WalkTypeOK /\ WalkBounded
  BY WalkAssumption DEF Init, WalkTypeOK, WalkBounded
<1>2. WalkTypeOK /\ WalkBounded /\ [Next]_<<x, y>> => WalkBounded'
  BY WalkAssumption DEF WalkTypeOK, WalkBounded, Next
<1> QED BY <1>1, <1>2, WalkType, PTL DEF Spec

(***************************************************************************)
(* Contract and SDK turn an entry of the oracle into the same price        *)
(* (raw_to_wad, rawToWad), whatever the base, the digits of a WAD and the  *)
(* length of the table of powers, for mantissas below the first power that *)
(* the table lacks: any u64 is, the table ending at 10^37.                 *)
(***************************************************************************)
THEOREM PricesConvertAlikeCorrect ==
    ASSUME MaxX < power[POWERS] PROVE Spec => []PricesConvertAlike
<1>1. WalkTypeOK /\ WalkBounded => PricesConvertAlike
  <2> SUFFICES ASSUME WalkTypeOK, x <= MaxX PROVE PricesConvertAlike
    BY DEF WalkBounded
  <2> DEFINE raw == WalkedEntry
             e == exponent(raw)
  <2>1. /\ POWERS \in Nat /\ WAD_DIGITS \in Nat /\ x \in Nat /\ MaxX \in Nat
        /\ U128_MAX \in Nat /\ power[POWERS] <= U128_MAX /\ power[POWERS] \in Nat
    BY ConversionAssumption, WalkAssumption, WadMathAssumption, PowerType DEF WalkTypeOK
  <2>2. /\ raw.asset_price = x /\ x < power[POWERS]
        /\ e \in Int /\ e = WAD_DIGITS + raw.scale
    <3>1. 2 * POWERS + 3 \in Nat \ {0}
      BY <2>1
    <3>2. y % (2 * POWERS + 3) \in Int
      BY <3>1 DEF WalkTypeOK
    <3> QED BY <2>1, <3>2 DEF WalkedEntry, exponent
  <2>3. rawToWad(raw) = IF e >= 0 THEN x * power[e] ELSE x \div power[-e]
    BY <2>2 DEF rawToWad
  <2>4. ASSUME e < POWERS, -e < POWERS PROVE rawToWad(raw) = converted(raw)
    BY <2>2, <2>3, <2>4, TableOfPowers DEF converted
  <2> HIDE DEF raw, e
  <2>5. raw_to_wad_ok(raw) => rawToWad_ok(raw) /\ rawToWad(raw) = raw_to_wad(raw)
    BY <2>4 DEF raw_to_wad_ok, rawToWad_ok, raw_to_wad, e
  <2>6. ASSUME rawToWad_ok(raw), rawToWad(raw) \in 1 .. power[POWERS] - 1
        PROVE  raw_to_wad_ok(raw)
    <3>1. x # 0
      BY <2>2, <2>6 DEF rawToWad_ok
    <3>2. e < POWERS
      <4> SUFFICES ASSUME POWERS <= e PROVE FALSE
        BY <2>1, <2>2
      <4>1. x * power[e] >= power[POWERS]
        BY <2>1, <2>2, <3>1, BeyondTable
      <4>2. rawToWad(raw) = x * power[e]
        BY <2>1, <2>2, <2>3
      <4> QED BY <2>1, <2>6, <4>1, <4>2
    <3>3. -e < POWERS
      <4> SUFFICES ASSUME POWERS <= -e PROVE FALSE
        BY <2>1, <2>2
      <4>1. -e \in Nat
        BY <2>1, <2>2
      <4>2. x \div power[-e] = 0
        BY <2>1, <2>2, <3>1, <4>1, BeyondTable
      <4>3. e < 0 \/ e = 0
        BY <2>2, <4>1
      <4>4. CASE e < 0
        BY <2>2, <2>3, <2>6, <4>2, <4>4
      <4>5. CASE e = 0
        <5>1. power[POWERS] = 1
          BY <2>1, <4>5, PowerSteps
        <5> QED BY <2>6, <5>1
      <4> QED BY <4>3, <4>4, <4>5
    <3>4. converted(raw) = rawToWad(raw)
      BY <2>4, <3>2, <3>3
    <3>5. Fits(converted(raw)) /\ converted(raw) # 0
      BY <2>1, <2>6, <3>4 DEF Fits
    <3> QED BY <2>2, <3>1, <3>2, <3>3, <3>5 DEF raw_to_wad_ok, e
  <2> QED BY <2>5, <2>6 DEF PricesConvertAlike, raw
<1> QED BY <1>1, WalkType, WalkStays, PTL
=============================================================================
