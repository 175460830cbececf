-------------------------- MODULE ArithmeticLemmas --------------------------
(***************************************************************************)
(* Ranges and bounds of the fixed-point operators, for every scale and     *)
(* width: the lemmas that the proofs about the walks of                    *)
(* ArithmeticProperties and about the lending controller cite; at the end, *)
(* sums over finite sets.                                                  *)
(***************************************************************************)
EXTENDS InterestModel, Health, FiniteSetsExt, FiniteSetTheorems, TLAPS

(***************************************************************************)
(* Natural numbers, with products and quotients as the solver needs them.  *)
(***************************************************************************)
LEMMA DivBounds ==
    ASSUME NEW a \in Nat, NEW b \in Nat \ {0}
    PROVE  a \div b \in Nat /\ a \div b <= a
  OBVIOUS

LEMMA DivAtLeast ==
    ASSUME NEW a \in Nat, NEW b \in Nat \ {0}, NEW k \in Nat, a >= k * b
    PROVE  a \div b >= k
  OBVIOUS

LEMMA DivAtMost ==
    ASSUME NEW a \in Nat, NEW b \in Nat \ {0}, NEW k \in Nat, a <= k * b
    PROVE  a \div b <= k
  OBVIOUS

LEMMA DivMono ==
    ASSUME NEW a \in Nat, NEW b \in Nat, NEW c \in Nat \ {0}, a <= b
    PROVE  a \div c <= b \div c
  OBVIOUS

LEMMA DivBelow ==
    ASSUME NEW a \in Nat, NEW b \in Nat \ {0}, NEW k \in Nat, a < k * b
    PROVE  a \div b < k
  OBVIOUS

LEMMA DivTimes ==
    ASSUME NEW a \in Nat, NEW b \in Nat \ {0}
    PROVE  (a \div b) * b <= a
  OBVIOUS

LEMMA DivRemainder ==
    ASSUME NEW a \in Nat, NEW b \in Nat \ {0}
    PROVE  a < (a \div b) * b + b
  OBVIOUS

LEMMA ModBelow ==
    ASSUME NEW a \in Int, NEW b \in Nat \ {0}
    PROVE  a % b \in Nat /\ a % b < b
  OBVIOUS

LEMMA ModAtMost ==
    ASSUME NEW a \in Nat, NEW b \in Nat \ {0}
    PROVE  a % b <= a
  OBVIOUS

LEMMA MulNat ==
    ASSUME NEW a \in Nat, NEW b \in Nat
    PROVE  a * b \in Nat
  OBVIOUS

LEMMA MulMono ==
    ASSUME NEW a \in Nat, NEW b \in Nat, NEW c \in Nat, a <= b
    PROVE  a * c <= b * c /\ c * a <= c * b
  OBVIOUS

LEMMA MulStrict ==
    ASSUME NEW a \in Nat, NEW b \in Nat, NEW c \in Nat \ {0}, a < b
    PROVE  a * c < b * c
  OBVIOUS

\* A larger divisor.
LEMMA DivAnti ==
    ASSUME NEW a \in Nat, NEW b \in Nat \ {0}, NEW c \in Nat, b <= c
    PROVE  a \div c <= a \div b
<1> DEFINE k == a \div b
<1>1. k \in Nat /\ a < k * b + b /\ k * b \in Nat
  BY DivBounds, DivRemainder, MulNat
<1> HIDE DEF k
<1>2. (k + 1) * b = k * b + b /\ (k + 1) * b <= (k + 1) * c /\ (k + 1) * c \in Nat
      /\ (k + 1) * b \in Nat
  BY <1>1, MulMono, MulNat
<1>3. a < (k + 1) * c
  BY <1>1, <1>2
<1>4. a \div c < k + 1 /\ a \div c \in Nat
  BY <1>1, <1>3, DivBelow, DivBounds
<1> QED BY <1>1, <1>4 DEF k

(***************************************************************************)
(* wad_mul, wad_div and compounding.                                       *)
(***************************************************************************)
LEMMA Scales ==
    /\ WAD \in Nat \ {0} /\ WAD > 1
    /\ BPS \in Nat \ {0}
    /\ SECONDS_PER_YEAR \in Nat \ {0}
    /\ U128_MAX \in Nat /\ U128_MAX >= 2 * WAD
    /\ HALF_WAD \in Nat /\ HALF_WAD < WAD
    /\ WAD \in U128 /\ 0 \in U128
<1>1. WAD \in Nat \ {0} /\ U128_MAX \in Nat /\ U128_MAX >= 2 * WAD /\ WAD > 1
  BY WadMathAssumption
<1>2. HALF_WAD \in Nat /\ HALF_WAD < WAD
  BY <1>1, DivBounds, DivBelow DEF HALF_WAD
<1> QED BY <1>1, <1>2, WadMathAssumption DEF U128

LEMMA SaturateType ==
    ASSUME NEW n \in Nat
    PROVE  saturate(n) \in U128 /\ saturate(n) <= n
  BY Scales DEF saturate, Fits, U128

LEMMA SaturatingSubType ==
    ASSUME NEW a \in Nat, NEW b \in Nat
    PROVE  saturating_sub(a, b) \in Nat /\ saturating_sub(a, b) <= a
  BY DEF saturating_sub

\* Whatever fits, and products with 0, which never overflow.
LEMMA WadMulType ==
    ASSUME NEW a \in Nat, NEW b \in Nat
    PROVE  /\ wad_mul(a, b) \in Nat
           /\ wad_mul_ok(a, b) => wad_mul(a, b) \in U128
<1>1. a * b \in Nat /\ a * b + HALF_WAD \in Nat
  BY MulNat, Scales
<1>2. wad_mul(a, b) \in Nat /\ wad_mul(a, b) <= a * b + HALF_WAD
  BY <1>1, Scales, DivBounds DEF wad_mul
<1>3. ASSUME wad_mul_ok(a, b) PROVE a * b + HALF_WAD <= U128_MAX
  <2>1. CASE a = 0 \/ b = 0
    <3>1. a * b = 0
      BY <2>1
    <3> QED BY <3>1, Scales
  <2>2. CASE a # 0 /\ b # 0
    BY <1>3, <2>2 DEF wad_mul_ok, Fits
  <2> QED BY <2>1, <2>2
<1> QED BY <1>2, <1>3, Scales DEF U128

\* A factor of at least 1.0 never shrinks what it multiplies.
LEMMA WadMulGrows ==
    ASSUME NEW a \in Nat, NEW f \in Nat, f >= WAD
    PROVE  wad_mul(a, f) >= a
<1>1. a * f >= a * WAD
  BY MulMono, Scales
<1>2. a * f \in Nat /\ a * WAD \in Nat /\ a * f + HALF_WAD \in Nat
  BY MulNat, Scales
<1>3. a * f + HALF_WAD >= a * WAD
  BY <1>1, <1>2, Scales
<1> QED BY <1>2, <1>3, Scales, DivAtLeast DEF wad_mul

\* A product grows with both factors.
LEMMA WadMulMono ==
    ASSUME NEW a \in Nat, NEW b \in Nat, NEW c \in Nat, NEW d \in Nat, a <= c, b <= d
    PROVE  wad_mul(a, b) <= wad_mul(c, d)
<1>1. a * b <= c * b /\ c * b <= c * d
  BY MulMono
<1>2. a * b \in Nat /\ c * b \in Nat /\ c * d \in Nat
  BY MulNat
<1>3. a * b + HALF_WAD \in Nat /\ c * d + HALF_WAD \in Nat
      /\ a * b + HALF_WAD <= c * d + HALF_WAD
  BY <1>1, <1>2, Scales
<1> QED BY <1>3, DivMono, Scales DEF wad_mul

LEMMA WadDivType ==
    ASSUME NEW a \in Nat, NEW b \in Nat, wad_div_ok(a, b)
    PROVE  wad_div(a, b) \in U128
<1>1. b \in Nat \ {0} /\ a * WAD + b \div 2 <= U128_MAX
  BY DEF wad_div_ok, Fits
<1>2. a * WAD + b \div 2 \in Nat
  BY MulNat, DivBounds, Scales
<1> QED BY <1>1, <1>2, DivBounds, Scales DEF wad_div, U128

LEMMA CompoundType ==
    ASSUME NEW rate \in Nat, NEW dt \in Nat
    PROVE  /\ calculate_compound_interest(rate, dt) \in Nat
           /\ calculate_compound_interest(rate, dt) >= WAD
<1> DEFINE rt == rate * dt
<1>1. rt \in Nat
  BY MulNat
<1>2. wad_mul(rt, rt) \div 2 \in Nat
  BY <1>1, WadMulType, DivBounds
<1> QED BY <1>1, <1>2, Scales DEF calculate_compound_interest

\* A higher rate compounds to more.
LEMMA CompoundMono ==
    ASSUME NEW r \in Nat, NEW s \in Nat, NEW dt \in Nat, r <= s
    PROVE  calculate_compound_interest(r, dt) <= calculate_compound_interest(s, dt)
<1> DEFINE rt == r * dt
           st == s * dt
<1>1. rt \in Nat /\ st \in Nat /\ rt <= st
  BY MulNat, MulMono
<1> HIDE DEF rt, st
<1>2. /\ wad_mul(rt, rt) \in Nat /\ wad_mul(st, st) \in Nat
      /\ wad_mul(rt, rt) <= wad_mul(st, st)
  BY <1>1, WadMulMono, WadMulType
<1>3. /\ wad_mul(rt, rt) \div 2 \in Nat /\ wad_mul(st, st) \div 2 \in Nat
      /\ wad_mul(rt, rt) \div 2 <= wad_mul(st, st) \div 2
  BY <1>2, DivMono, DivBounds
<1>4. /\ dt <= 1 => WAD + rt <= WAD + st
      /\ ~(dt <= 1) => WAD + rt + wad_mul(rt, rt) \div 2 <= WAD + st + wad_mul(st, st) \div 2
  BY <1>1, <1>3, Scales
<1> QED BY <1>4 DEF calculate_compound_interest, rt, st

LEMMA PerSecondType ==
    ASSUME NEW bps \in Nat
    PROVE  annual_bps_to_per_second_wad(bps) \in Nat
<1>1. bps * WAD \in Nat /\ BPS * SECONDS_PER_YEAR \in Nat \ {0}
  BY MulNat, Scales
<1> QED BY <1>1, DivBounds DEF annual_bps_to_per_second_wad

(***************************************************************************)
(* The rate curve.                                                         *)
(***************************************************************************)
LEMMA UtilizationType ==
    ASSUME NEW borrows \in Nat, NEW supply \in Nat
    PROVE  calculate_utilization(borrows, supply) \in Nat
<1>1. saturate(borrows + supply) \in Nat /\ saturate(borrows * WAD) \in Nat
  BY MulNat, SaturateType, Scales DEF U128
<1> QED BY <1>1, DivBounds DEF calculate_utilization

LEMMA OptimalType ==
    ASSUME NEW config \in MarketConfigs
    PROVE  /\ (config.optimal_utilization * WAD) \div BPS \in Nat
           /\ (config.optimal_utilization * WAD) \div BPS < WAD
<1>1. config.optimal_utilization \in Nat /\ config.optimal_utilization < BPS
  BY DEF MarketConfigs
<1>2. config.optimal_utilization * WAD \in Nat
  BY <1>1, MulNat, Scales
<1>3. config.optimal_utilization * WAD < WAD * BPS
  BY <1>1, MulStrict, Scales
<1> QED BY <1>2, <1>3, DivBounds, DivBelow, Scales

LEMMA BorrowRateType ==
    ASSUME NEW utilization \in Nat, NEW config \in MarketConfigs
    PROVE  borrow_rate_annual_bps(utilization, config) \in Nat
<1> DEFINE optimal == (config.optimal_utilization * WAD) \div BPS
<1>1. /\ config.optimal_utilization \in Nat /\ config.optimal_utilization < BPS
      /\ config.base_rate \in Nat /\ config.slope1 \in Nat
      /\ config.slope2 \in Nat
  BY DEF MarketConfigs
<1>2. optimal \in Nat /\ optimal < WAD
  BY OptimalType
<1>3. CASE utilization <= optimal /\ optimal = 0
  BY <1>1, <1>3 DEF borrow_rate_annual_bps
<1>4. CASE utilization <= optimal /\ optimal # 0
  <2>1. (utilization * config.slope1) \div optimal \in Nat
    BY <1>1, <1>2, <1>4, MulNat, DivBounds
  <2> QED BY <1>1, <1>2, <1>4, <2>1 DEF borrow_rate_annual_bps
<1>5. CASE ~(utilization <= optimal)
  <2>1. utilization - optimal \in Nat /\ WAD - optimal \in Nat \ {0}
    BY <1>2, <1>5, Scales
  <2>2. ((utilization - optimal) * config.slope2) \div (WAD - optimal) \in Nat
    BY <1>1, <2>1, MulNat, DivBounds
  <2> QED BY <1>1, <1>2, <1>5, <2>2 DEF borrow_rate_annual_bps
<1> QED BY <1>3, <1>4, <1>5

LEMMA SupplyRateType ==
    ASSUME NEW rate \in Nat, NEW utilization \in Nat, NEW rf \in Nat
    PROVE  /\ calculate_supply_rate(rate, utilization, rf) \in Nat
           /\ supply_rate_annual_bps(rate, utilization, rf) \in Nat
<1> DEFINE rxu == saturate(rate * utilization) \div WAD
           left == (BPS - rf) % (U128_MAX + 1)
<1>1. rxu \in Nat
  BY MulNat, SaturateType, DivBounds, Scales DEF U128
<1>2. left \in Nat
  BY ModBelow, Scales
<1>3. saturate(rxu * left) \div BPS \in Nat
  BY <1>1, <1>2, MulNat, SaturateType, DivBounds, Scales DEF U128
<1>4. calculate_supply_rate(rate, utilization, rf) \in Nat
  BY <1>3 DEF calculate_supply_rate
<1>5. calculate_supply_rate(rate, utilization, rf) * BPS * SECONDS_PER_YEAR
        \in Nat
  BY <1>4, MulNat, Scales
<1> QED BY <1>4, <1>5, DivBounds, Scales DEF supply_rate_annual_bps

\* No more than everything is lent out.
LEMMA UtilizationBound ==
    ASSUME NEW borrows \in Nat, NEW supply \in Nat
    PROVE  calculate_utilization(borrows, supply) <= WAD
<1> DEFINE n == saturate(borrows * WAD)
           d == saturate(borrows + supply)
<1>1. n \in Nat /\ d \in Nat /\ borrows * WAD \in Nat
  BY MulNat, SaturateType, Scales DEF U128
<1>2. CASE d = 0
  BY <1>2, Scales DEF calculate_utilization
<1>3. CASE d # 0
  <2>1. WAD * d \in Nat /\ n <= WAD * d
    <3>1. CASE d = borrows + supply
      <4>1. borrows * WAD <= WAD * (borrows + supply) /\ WAD * (borrows + supply) \in Nat
        BY MulMono, MulNat, Scales
      <4>2. n <= borrows * WAD
        BY <1>1, SaturateType
      <4> QED BY <1>1, <3>1, <4>1, <4>2
    <3>2. CASE d = U128_MAX
      <4>1. n <= U128_MAX
        BY <1>1, SaturateType, Scales DEF U128
      <4>2. 1 * U128_MAX <= WAD * U128_MAX /\ WAD * U128_MAX \in Nat
        BY MulMono, MulNat, Scales
      <4> HIDE DEF n, d
      <4> QED BY <1>1, <3>2, <4>1, <4>2, Scales
    <3> QED BY <3>1, <3>2 DEF saturate
  <2> HIDE DEF n, d
  <2>2. n \div d <= WAD
    BY <1>1, <1>3, <2>1, DivAtMost, Scales
  <2> QED BY <1>3, <2>2 DEF calculate_utilization, n, d
<1> QED BY <1>2, <1>3

\* The curve ends at the sum of its parts.
LEMMA BorrowRateBound ==
    ASSUME NEW u \in Nat, u <= WAD, NEW config \in MarketConfigs
    PROVE  borrow_rate_annual_bps(u, config)
               <= config.base_rate + config.slope1 + config.slope2
<1> DEFINE optimal == (config.optimal_utilization * WAD) \div BPS
<1>1. /\ config.base_rate \in Nat /\ config.slope1 \in Nat /\ config.slope2 \in Nat
  BY DEF MarketConfigs
<1>2. optimal \in Nat /\ optimal < WAD
  BY OptimalType
<1>3. CASE u <= optimal /\ optimal = 0
  BY <1>1, <1>3 DEF borrow_rate_annual_bps
<1>4. CASE u <= optimal /\ optimal # 0
  <2>1. u * config.slope1 \in Nat /\ u * config.slope1 <= config.slope1 * optimal
    BY <1>1, <1>2, <1>4, MulNat, MulMono
  <2> DEFINE low == (u * config.slope1) \div optimal
  <2>2. low \in Nat /\ low <= config.slope1
    BY <1>1, <1>2, <1>4, <2>1, DivBounds, DivAtMost
  <2>3. borrow_rate_annual_bps(u, config) = config.base_rate + low
    BY <1>4 DEF borrow_rate_annual_bps
  <2> HIDE DEF low
  <2> QED BY <1>1, <2>2, <2>3
<1>5. CASE ~(u <= optimal)
  <2>1. u - optimal \in Nat /\ WAD - optimal \in Nat \ {0} /\ u - optimal <= WAD - optimal
    BY <1>2, <1>5, Scales
  <2> DEFINE high == ((u - optimal) * config.slope2) \div (WAD - optimal)
  <2>2. /\ (u - optimal) * config.slope2 \in Nat
        /\ (u - optimal) * config.slope2 <= config.slope2 * (WAD - optimal)
    BY <1>1, <2>1, MulNat, MulMono
  <2>3. high \in Nat /\ high <= config.slope2
    BY <1>1, <2>1, <2>2, DivBounds, DivAtMost
  <2>4. borrow_rate_annual_bps(u, config) = config.base_rate + config.slope1 + high
    BY <1>5 DEF borrow_rate_annual_bps
  <2> HIDE DEF high
  <2> QED BY <1>1, <2>3, <2>4
<1> QED BY <1>3, <1>4, <1>5

\* Interest paid to suppliers is part of the interest charged.
LEMMA SupplyRateBound ==
    ASSUME NEW rate \in Nat, NEW u \in Nat, NEW rf \in Nat, rf <= BPS
    PROVE  calculate_supply_rate(rate, u, rf) * WAD <= rate * u
<1> DEFINE rxu == saturate(rate * u) \div WAD
           left == (BPS - rf) % (U128_MAX + 1)
<1>1. rate * u \in Nat
  BY MulNat
<1>2. saturate(rate * u) \in Nat /\ saturate(rate * u) <= rate * u
  BY <1>1, SaturateType DEF U128
<1>3. rxu \in Nat /\ rxu * WAD <= rate * u
  BY <1>1, <1>2, DivBounds, DivTimes, MulNat, Scales
<1>4. left \in Nat /\ left <= BPS
  BY ModAtMost, ModBelow, Scales
<1>5. saturate(rxu * left) \in Nat /\ saturate(rxu * left) <= rxu * BPS
  <2>1. rxu * left \in Nat /\ rxu * BPS \in Nat /\ rxu * left <= rxu * BPS
    BY <1>3, <1>4, MulNat, MulMono, Scales
  <2>2. saturate(rxu * left) \in Nat /\ saturate(rxu * left) <= rxu * left
    BY <2>1, SaturateType DEF U128
  <2> QED BY <2>1, <2>2
<1>6. saturate(rxu * left) \div BPS \in Nat /\ saturate(rxu * left) \div BPS <= rxu
  BY <1>3, <1>5, DivBounds, DivAtMost, Scales
<1>7. calculate_supply_rate(rate, u, rf) \in Nat
      /\ calculate_supply_rate(rate, u, rf) <= rxu
  BY <1>3, <1>6 DEF calculate_supply_rate
<1>8. calculate_supply_rate(rate, u, rf) * WAD <= rxu * WAD
  BY <1>3, <1>7, MulMono, Scales
<1>9. calculate_supply_rate(rate, u, rf) * WAD \in Nat /\ rxu * WAD \in Nat
  BY <1>3, <1>7, MulNat, Scales
<1> HIDE DEF rxu, left
<1> QED BY <1>1, <1>3, <1>8, <1>9

\* Suppliers earn no more than the rate that borrowers pay.
LEMMA SupplyRateAtMost ==
    ASSUME NEW rate \in Nat, NEW u \in Nat, NEW rf \in Nat, rf <= BPS, u <= WAD
    PROVE  calculate_supply_rate(rate, u, rf) <= rate
<1> DEFINE r == calculate_supply_rate(rate, u, rf)
<1>1. r \in Nat
  BY SupplyRateType
<1>2. r * WAD <= rate * u
  BY SupplyRateBound
<1> HIDE DEF r
<1>3. rate * u <= rate * WAD /\ rate * u \in Nat /\ rate * WAD \in Nat /\ r * WAD \in Nat
  BY <1>1, MulMono, MulNat, Scales
<1>4. ~(rate < r)
  <2> SUFFICES ASSUME rate < r PROVE FALSE
    OBVIOUS
  <2>1. rate * WAD < r * WAD
    BY <1>1, MulStrict, Scales
  <2> QED BY <1>2, <1>3, <2>1
<1> QED BY <1>1, <1>4 DEF r

\* The same of the annual rates, in basis points.
LEMMA SupplyBpsAtMost ==
    ASSUME NEW bps \in Nat, NEW u \in Nat, NEW rf \in Nat, rf <= BPS, u <= WAD
    PROVE  supply_rate_annual_bps(annual_bps_to_per_second_wad(bps), u, rf) <= bps
<1> DEFINE rate == annual_bps_to_per_second_wad(bps)
           r == calculate_supply_rate(rate, u, rf)
           year == BPS * SECONDS_PER_YEAR
<1>1. rate \in Nat /\ r \in Nat
  BY PerSecondType, SupplyRateType
<1>2. r <= rate
  BY <1>1, SupplyRateAtMost
<1>3. year \in Nat \ {0} /\ bps * WAD \in Nat
  BY MulNat, Scales
<1>4. rate * year <= bps * WAD
  BY <1>3, DivTimes DEF annual_bps_to_per_second_wad
<1> HIDE DEF rate, r
<1>5. r * BPS * SECONDS_PER_YEAR = r * year
  BY <1>1, Scales
<1> HIDE DEF year
<1>6. r * year <= rate * year /\ r * year \in Nat /\ rate * year \in Nat
  BY <1>1, <1>2, <1>3, MulMono, MulNat
<1>7. (r * year) \div WAD <= bps
  BY <1>3, <1>4, <1>6, DivAtMost, Scales
<1> QED BY <1>5, <1>7 DEF supply_rate_annual_bps, r, rate

(***************************************************************************)
(* Accrual.                                                                *)
(***************************************************************************)
LEMMA AccruedBorrowsType ==
    ASSUME NEW state \in InterestStates, NEW compound \in Nat, compound >= WAD
    PROVE  /\ accrued_borrows(state, compound) \in U128
           /\ period_supply_rate(state, accrued_borrows(state, compound)) \in Nat
<1>1. /\ state.total_borrows \in Nat /\ state.total_supply \in Nat
      /\ state.borrow_rate_bps \in Nat /\ state.supply_rate_bps \in Nat
  BY DEF InterestStates, U128
<1>2. wad_mul(state.total_borrows, compound - WAD) \in Nat
  <2>1. compound - WAD \in Nat
    BY Scales
  <2> QED BY <1>1, <2>1, WadMulType
<1>3. accrued_borrows(state, compound) \in U128
  BY <1>1, <1>2, SaturateType DEF accrued_borrows
<1>4. stored_rate(state) \in Nat
  BY <1>1, PerSecondType DEF stored_rate
<1>5. accrued_borrows(state, compound) \in Nat
  BY <1>3 DEF U128
<1>6. calculate_utilization(accrued_borrows(state, compound),
                            state.total_supply) \in Nat
  BY <1>1, <1>5, UtilizationType
<1> QED BY <1>1, <1>3, <1>4, <1>6, SupplyRateType DEF period_supply_rate

LEMMA AccrualCorrect ==
    ASSUME NEW state \in InterestStates, NEW config \in MarketConfigs,
           NEW t \in Nat, accrual_ok(state, t)
    PROVE  LET after == update_interest_indexes(state, config, t)
           IN  /\ after \in InterestStates
               /\ after.total_supply = state.total_supply
               /\ after.borrow_index >= state.borrow_index
               /\ after.supply_index >= state.supply_index
               /\ after.last_update_timestamp >= state.last_update_timestamp
               /\ \/ after.last_update_timestamp <= t
                  \/ after = state
<1> DEFINE dt == elapsed(state, t)
           compound == calculate_compound_interest(stored_rate(state), dt)
           borrows == accrued_borrows(state, compound)
           supply_rate == period_supply_rate(state, borrows)
           supply_compound == calculate_compound_interest(supply_rate, dt)
           utilization == calculate_utilization(borrows, state.total_supply)
           rate_bps == borrow_rate_annual_bps(utilization, config)
           supply_bps == supply_rate_annual_bps(
                             annual_bps_to_per_second_wad(rate_bps),
                             utilization, config.reserve_factor)
<1>1. /\ state.total_supply \in U128 /\ state.borrow_rate_bps \in Nat
      /\ state.borrow_index \in U128 /\ state.supply_index \in U128
      /\ state.last_update_timestamp \in Nat
      /\ config.reserve_factor \in Nat
  BY DEF InterestStates, MarketConfigs
<1>2. CASE dt = 0
  BY <1>1, <1>2 DEF update_interest_indexes, U128
<1>3. CASE dt # 0
  <2>1. dt \in Nat /\ dt > 0 /\ t > state.last_update_timestamp
    BY <1>1, <1>3 DEF elapsed, saturating_sub
  <2>2. stored_rate(state) \in Nat
    BY <1>1, PerSecondType DEF stored_rate
  <2>3. compound \in Nat /\ compound >= WAD
    BY <2>1, <2>2, CompoundType
  <2>4. borrows \in U128 /\ borrows \in Nat /\ supply_rate \in Nat
    BY <2>3, AccruedBorrowsType DEF U128
  <2>5. supply_compound \in Nat /\ supply_compound >= WAD
    BY <2>1, <2>4, CompoundType
  <2>6. utilization \in Nat /\ rate_bps \in Nat
    <3>1. state.total_supply \in Nat
      BY <1>1 DEF U128
    <3> HIDE DEF borrows
    <3>2. utilization \in Nat
      BY <2>4, <3>1, UtilizationType
    <3> HIDE DEF utilization
    <3> QED BY <3>2, BorrowRateType
  <2>7. supply_bps \in Nat
    BY <1>1, <2>6, PerSecondType, SupplyRateType
  <2>8. growth_ok(state, dt, compound, supply_rate)
    BY <2>1 DEF accrual_ok
  <2>9. /\ wad_mul_ok(state.borrow_index, compound)
        /\ wad_mul_ok(state.supply_index, supply_compound)
    BY <2>8 DEF growth_ok
  <2>10. /\ wad_mul(state.borrow_index, compound) \in U128
         /\ wad_mul(state.borrow_index, compound) >= state.borrow_index
         /\ wad_mul(state.supply_index, supply_compound) \in U128
         /\ wad_mul(state.supply_index, supply_compound) >= state.supply_index
    <3>1. state.borrow_index \in Nat /\ state.supply_index \in Nat
      BY <1>1 DEF U128
    <3> HIDE DEF compound, supply_compound
    <3>2. /\ wad_mul(state.borrow_index, compound) \in U128
          /\ wad_mul(state.supply_index, supply_compound) \in U128
      BY <2>3, <2>5, <2>9, <3>1, WadMulType
    <3>3. /\ wad_mul(state.borrow_index, compound) >= state.borrow_index
          /\ wad_mul(state.supply_index, supply_compound) >= state.supply_index
      BY <2>3, <2>5, <3>1, WadMulGrows
    <3> QED BY <3>2, <3>3
  <2>11. update_interest_indexes(state, config, t) =
           [borrow_rate_bps |-> rate_bps, supply_rate_bps |-> supply_bps,
            borrow_index |-> wad_mul(state.borrow_index, compound),
            supply_index |-> wad_mul(state.supply_index, supply_compound),
            last_update_timestamp |-> t, total_borrows |-> borrows,
            total_supply |-> state.total_supply]
    BY <1>3 DEF update_interest_indexes, accrued_state
  <2> HIDE DEF dt, compound, borrows, supply_rate, supply_compound,
               utilization, rate_bps, supply_bps
  <2> QED BY <1>1, <2>1, <2>4, <2>6, <2>7, <2>10, <2>11 DEF InterestStates, U128
<1> QED BY <1>2, <1>3

\* Accrual keeps the supply index below the borrow index while the stored supply
\* rate, which it takes for the reserve factor, is at most 100%.
LEMMA AccrualKeepsOrder ==
    ASSUME NEW state \in InterestStates, NEW config \in MarketConfigs, NEW t \in Nat,
           state.supply_rate_bps <= BPS, state.supply_index <= state.borrow_index
    PROVE  LET after == update_interest_indexes(state, config, t)
           IN  after.supply_index <= after.borrow_index
<1> DEFINE dt == elapsed(state, t)
           rate == stored_rate(state)
           compound == calculate_compound_interest(rate, dt)
           borrows == accrued_borrows(state, compound)
           supply_rate == period_supply_rate(state, borrows)
           supply_compound == calculate_compound_interest(supply_rate, dt)
<1>1. /\ state.total_supply \in Nat /\ state.borrow_rate_bps \in Nat
      /\ state.supply_rate_bps \in Nat
      /\ state.borrow_index \in Nat /\ state.supply_index \in Nat
      /\ state.last_update_timestamp \in Nat
  BY DEF InterestStates, U128
<1>2. CASE dt = 0
  BY <1>2 DEF update_interest_indexes
<1>3. CASE dt # 0
  <2>1. dt \in Nat
    BY <1>1, SaturatingSubType DEF elapsed
  <2>2. rate \in Nat
    BY <1>1, PerSecondType DEF stored_rate
  <2>3. compound \in Nat /\ compound >= WAD
    BY <2>1, <2>2, CompoundType
  <2>4. borrows \in Nat /\ supply_rate \in Nat
    <3> HIDE DEF compound
    <3> QED BY <2>3, AccruedBorrowsType DEF U128
  <2>5. supply_rate <= rate
    <3> DEFINE u == calculate_utilization(borrows, state.total_supply)
    <3>1. u \in Nat /\ u <= WAD
      <4> HIDE DEF borrows
      <4> QED BY <1>1, <2>4, UtilizationType, UtilizationBound
    <3>2. supply_rate = calculate_supply_rate(rate, u, state.supply_rate_bps)
      BY DEF period_supply_rate
    <3> HIDE DEF rate, u, supply_rate
    <3> QED BY <1>1, <2>2, <3>1, <3>2, SupplyRateAtMost
  <2>6. update_interest_indexes(state, config, t).borrow_index = wad_mul(state.borrow_index, compound)
        /\ update_interest_indexes(state, config, t).supply_index
              = wad_mul(state.supply_index, supply_compound)
    BY <1>3 DEF update_interest_indexes, accrued_state
  <2>7. supply_compound \in Nat /\ supply_compound <= compound
    <3> HIDE DEF dt, rate, supply_rate
    <3> QED BY <2>1, <2>2, <2>4, <2>5, CompoundType, CompoundMono
  <2> HIDE DEF compound, supply_compound
  <2> QED BY <1>1, <2>3, <2>6, <2>7, WadMulMono
<1> QED BY <1>2, <1>3

\* The highest rate of a curve: the one of a market that is lent out.
CurveEnd(config) == config.base_rate + config.slope1 + config.slope2

\* The stored rates are in the order that calculate_supply_rate promises.
WithinCurve(state, config) ==
    /\ state.supply_rate_bps <= state.borrow_rate_bps
    /\ state.borrow_rate_bps <= CurveEnd(config)

\* So are the rates that an accrual stores, wherever the curve ends: they are
\* made with the configured reserve factor.
LEMMA AccruedRateBound ==
    ASSUME NEW state \in InterestStates, NEW config \in MarketConfigs, NEW t \in Nat,
           WithinCurve(state, config)
    PROVE  WithinCurve(update_interest_indexes(state, config, t), config)
<1> DEFINE compound == calculate_compound_interest(stored_rate(state), elapsed(state, t))
           borrows == accrued_borrows(state, compound)
           u == calculate_utilization(borrows, state.total_supply)
           bps == borrow_rate_annual_bps(u, config)
           supply == supply_rate_annual_bps(annual_bps_to_per_second_wad(bps), u,
                                            config.reserve_factor)
<1>1. /\ state.total_supply \in Nat /\ state.borrow_rate_bps \in Nat
      /\ state.last_update_timestamp \in Nat
      /\ config.reserve_factor \in Nat /\ config.reserve_factor <= BPS
      /\ config.base_rate \in Nat /\ config.slope1 \in Nat /\ config.slope2 \in Nat
  BY DEF InterestStates, MarketConfigs, U128
<1>2. CASE elapsed(state, t) = 0
  BY <1>2 DEF update_interest_indexes
<1>3. CASE elapsed(state, t) # 0
  <2>1. stored_rate(state) \in Nat /\ elapsed(state, t) \in Nat
    BY <1>1, PerSecondType, SaturatingSubType DEF stored_rate, elapsed
  <2>2. compound \in Nat /\ compound >= WAD
    BY <2>1, CompoundType
  <2>3. borrows \in Nat
    <3> HIDE DEF compound
    <3> QED BY <2>2, AccruedBorrowsType DEF U128
  <2>4. u \in Nat /\ u <= WAD
    <3> HIDE DEF borrows
    <3> QED BY <1>1, <2>3, UtilizationType, UtilizationBound
  <2>5. /\ update_interest_indexes(state, config, t).supply_rate_bps = supply
        /\ update_interest_indexes(state, config, t).borrow_rate_bps = bps
    BY <1>3 DEF update_interest_indexes, accrued_state
  <2> HIDE DEF u
  <2>6. bps \in Nat /\ bps <= CurveEnd(config)
    BY <1>1, <2>4, BorrowRateType, BorrowRateBound DEF CurveEnd
  <2> HIDE DEF bps
  <2>7. supply \in Nat /\ supply <= bps
    BY <1>1, <2>4, <2>6, SupplyBpsAtMost, SupplyRateType, PerSecondType
  <2> HIDE DEF supply
  <2> QED BY <2>5, <2>6, <2>7 DEF WithinCurve
<1> QED BY <1>2, <1>3

\* A stretch whose interest is at most 100% compounds, to less than three times.
LEMMA CompoundRoom ==
    ASSUME NEW rate \in Nat, NEW dt \in Nat, rate * dt <= WAD, Fits(3 * WAD * WAD)
    PROVE  /\ compound_interest_ok(rate, dt)
           /\ calculate_compound_interest(rate, dt) <= 2 * WAD + HALF_WAD
<1> DEFINE rt == rate * dt
           square == wad_mul(rt, rt)
<1>1. rt \in Nat /\ rt <= WAD
  BY MulNat
<1> HIDE DEF rt
<1>2. /\ rt * rt \in Nat /\ WAD * WAD \in Nat /\ rt * rt <= WAD * WAD /\ WAD <= WAD * WAD
      /\ 3 * WAD * WAD = 3 * (WAD * WAD)
  <2>1. rt * rt <= WAD * rt /\ WAD * rt <= WAD * WAD /\ 1 * WAD <= WAD * WAD
    BY <1>1, MulMono, Scales
  <2>2. rt * rt \in Nat /\ WAD * WAD \in Nat /\ WAD * rt \in Nat
    BY <1>1, MulNat, Scales
  <2> QED BY <2>1, <2>2, Scales
<1>3. 3 * (WAD * WAD) <= U128_MAX
  BY <1>2 DEF Fits
<1>4. square \in Nat /\ square <= WAD
  <2>1. rt * rt + HALF_WAD \in Nat /\ rt * rt + HALF_WAD < (WAD + 1) * WAD
    <3>1. (WAD + 1) * WAD = WAD * WAD + WAD
      BY Scales
    <3> QED BY <1>2, <3>1, Scales
  <2>2. square < WAD + 1
    BY <2>1, DivBelow, Scales DEF wad_mul
  <2> QED BY <1>1, <2>2, WadMulType, Scales
<1> HIDE DEF square
<1>5. square \div 2 \in Nat /\ square \div 2 <= HALF_WAD
  BY <1>4, DivBounds, DivMono, Scales DEF HALF_WAD
<1>6. rt * rt + HALF_WAD <= U128_MAX
  BY <1>2, <1>3, Scales
<1>7. /\ rt <= U128_MAX /\ WAD + rt <= U128_MAX /\ WAD + rt + square \div 2 <= U128_MAX
      /\ WAD + rt <= 2 * WAD + HALF_WAD /\ WAD + rt + square \div 2 <= 2 * WAD + HALF_WAD
  BY <1>1, <1>2, <1>3, <1>5, Scales
<1> QED BY <1>6, <1>7
        DEF compound_interest_ok, calculate_compound_interest, wad_mul_ok, Fits, rt, square

\* What is multiplied by such a growth has room for three times itself.
LEMMA GrowthRoom ==
    ASSUME NEW n \in Nat, NEW f \in Nat, f <= 2 * WAD + HALF_WAD, Fits(3 * WAD * n)
    PROVE  wad_mul_ok(n, f)
<1>1. CASE n = 0
  BY <1>1 DEF wad_mul_ok
<1>2. CASE n # 0
  <2> DEFINE g == 2 * WAD + HALF_WAD
  <2>1. g \in Nat /\ g + HALF_WAD <= 3 * WAD
    BY Scales DEF HALF_WAD
  <2>2. n * f <= n * g /\ n * f \in Nat /\ n * g \in Nat
    BY <2>1, MulNat, MulMono
  <2>3. 1 * HALF_WAD <= n * HALF_WAD /\ n * HALF_WAD \in Nat
    BY <1>2, MulNat, MulMono, Scales
  <2>4. n * g + n * HALF_WAD = n * (g + HALF_WAD) /\ n * (g + HALF_WAD) <= n * (3 * WAD)
        /\ n * (g + HALF_WAD) \in Nat /\ n * (3 * WAD) \in Nat
    <3>1. g + HALF_WAD \in Nat /\ 3 * WAD \in Nat /\ HALF_WAD \in Nat
      BY <2>1, Scales
    <3> HIDE DEF g
    <3> QED BY <2>1, <3>1, MulNat, MulMono
  <2>5. n * (3 * WAD) = 3 * WAD * n
    BY Scales
  <2> HIDE DEF g
  <2>6. n * f + HALF_WAD <= 3 * WAD * n
    BY <2>2, <2>3, <2>4, <2>5, Scales
  <2>7. n * f + HALF_WAD <= U128_MAX
    BY <2>2, <2>4, <2>5, <2>6, Scales DEF Fits
  <2> QED BY <2>7 DEF wad_mul_ok, Fits
<1> QED BY <1>1, <1>2

\* An accrual fails on nothing but size: if the stored supply rate is at most 100%, the
\* stretch earns at most 100% and indexes and borrows have room, it succeeds.
LEMMA AccrualPossible ==
    ASSUME NEW state \in InterestStates, NEW t \in Nat,
           state.supply_rate_bps <= BPS,
           WAD <= state.borrow_index,
           stored_rate(state) * elapsed(state, t) <= WAD,
           Fits(3 * WAD * state.borrow_index), Fits(3 * WAD * state.supply_index),
           Fits(3 * WAD * state.total_borrows)
    PROVE  accrual_ok(state, t)
<1> DEFINE dt == elapsed(state, t)
           rate == stored_rate(state)
           compound == calculate_compound_interest(rate, dt)
           borrows == accrued_borrows(state, compound)
           supply_rate == period_supply_rate(state, borrows)
           supply_compound == calculate_compound_interest(supply_rate, dt)
<1>1. /\ state.total_supply \in Nat /\ state.borrow_rate_bps \in Nat
      /\ state.supply_rate_bps \in Nat /\ state.total_borrows \in Nat
      /\ state.borrow_index \in Nat /\ state.supply_index \in Nat
      /\ state.last_update_timestamp \in Nat
  BY DEF InterestStates, U128
<1>2. dt \in Nat /\ rate \in Nat
  BY <1>1, SaturatingSubType, PerSecondType DEF elapsed, stored_rate
<1>3. compound \in Nat /\ compound >= WAD
  BY <1>2, CompoundType
<1>4. borrows \in Nat /\ supply_rate \in Nat
  <2> HIDE DEF compound
  <2> QED BY <1>3, AccruedBorrowsType DEF U128
<1>5. supply_rate <= rate
  <2> DEFINE u == calculate_utilization(borrows, state.total_supply)
  <2>1. u \in Nat /\ u <= WAD
    <3> HIDE DEF borrows
    <3> QED BY <1>1, <1>4, UtilizationType, UtilizationBound
  <2>2. supply_rate = calculate_supply_rate(rate, u, state.supply_rate_bps)
    BY DEF period_supply_rate
  <2> HIDE DEF rate, u, supply_rate
  <2> QED BY <1>1, <1>2, <2>1, <2>2, SupplyRateAtMost
<1>6. rate * dt <= WAD
  OBVIOUS
<1>7. supply_rate * dt <= WAD
  <2> HIDE DEF dt, rate, supply_rate
  <2>1. supply_rate * dt <= rate * dt /\ supply_rate * dt \in Nat /\ rate * dt \in Nat
    BY <1>2, <1>4, <1>5, MulMono, MulNat
  <2> QED BY <1>6, <2>1, Scales
<1>8. Fits(3 * WAD * WAD)
  <2>1. 3 * WAD \in Nat
    BY Scales
  <2>2. 3 * WAD * WAD <= 3 * WAD * state.borrow_index /\ 3 * WAD * WAD \in Nat
        /\ 3 * WAD * state.borrow_index \in Nat
    BY <1>1, <2>1, MulMono, MulNat, Scales
  <2> QED BY <2>2, Scales DEF Fits
<1>9. /\ compound_interest_ok(rate, dt) /\ compound <= 2 * WAD + HALF_WAD
      /\ compound_interest_ok(supply_rate, dt) /\ supply_compound <= 2 * WAD + HALF_WAD
  <2> HIDE DEF dt, rate, supply_rate
  <2> QED BY <1>2, <1>4, <1>6, <1>7, <1>8, CompoundRoom
<1>10. supply_compound \in Nat
  <2> HIDE DEF dt, supply_rate
  <2> QED BY <1>2, <1>4, CompoundType
<1>11. compound - WAD \in Nat /\ compound - WAD <= 2 * WAD + HALF_WAD
  <2> HIDE DEF compound
  <2> QED BY <1>3, <1>9, Scales
<1>12. /\ wad_mul_ok(state.borrow_index, compound)
       /\ wad_mul_ok(state.total_borrows, compound - WAD)
       /\ wad_mul_ok(state.supply_index, supply_compound)
  <2> HIDE DEF compound, supply_compound
  <2> QED BY <1>1, <1>3, <1>9, <1>10, <1>11, GrowthRoom
<1> QED BY <1>9, <1>12 DEF accrual_ok, growth_ok

(***************************************************************************)
(* Debts.                                                                  *)
(***************************************************************************)
LEMMA ActualDebtType ==
    ASSUME NEW principal \in Nat, NEW user_index \in Nat, NEW index \in Nat,
           actual_debt_ok(principal, user_index, index)
    PROVE  get_actual_debt(principal, user_index, index) \in Nat
<1>1. CASE principal = 0
  BY <1>1 DEF get_actual_debt
<1>2. CASE principal # 0
  <2>1. user_index \in Nat \ {0} /\ principal * index \in Nat
    BY <1>2, MulNat DEF actual_debt_ok
  <2> QED BY <1>2, <2>1, DivBounds DEF get_actual_debt
<1> QED BY <1>1, <1>2

LEMMA ScaledDebtType ==
    ASSUME NEW amount \in Nat, NEW index \in Nat, scaled_debt_ok(amount, index)
    PROVE  to_scaled_debt(amount, index) \in U128
<1>1. index \in Nat \ {0} /\ amount * WAD \in Nat /\ amount * WAD <= U128_MAX
  BY MulNat, Scales DEF scaled_debt_ok, Fits
<1> QED BY <1>1, DivBounds, Scales DEF to_scaled_debt, U128

\* What is owed at an index, which grows with it.
LEMMA DebtType ==
    ASSUME NEW principal \in Nat, NEW user_index \in Nat \ {0}, NEW index \in Nat
    PROVE  get_actual_debt(principal, user_index, index) \in Nat
<1>1. principal * index \in Nat
  BY MulNat
<1>2. (principal * index) \div user_index \in Nat
  BY <1>1, DivBounds
<1> QED BY <1>2 DEF get_actual_debt

LEMMA DebtMono ==
    ASSUME NEW principal \in Nat, NEW user_index \in Nat \ {0},
           NEW old \in Nat, NEW new \in Nat, old <= new
    PROVE  get_actual_debt(principal, user_index, old)
               <= get_actual_debt(principal, user_index, new)
<1>1. /\ principal * old \in Nat /\ principal * new \in Nat
      /\ principal * old <= principal * new
  BY MulNat, MulMono
<1>2. (principal * old) \div user_index <= (principal * new) \div user_index
  BY <1>1, DivMono
<1> QED BY <1>2 DEF get_actual_debt

(***************************************************************************)
(* wad_ratio and the health factor.                                        *)
(***************************************************************************)
LEMMA RatioFractionType ==
    ASSUME NEW r \in Nat, NEW d \in Nat \ {0}, ~ratio_drops_fraction(r, d)
    PROVE  ratio_fraction(r, d) \in Nat
<1>1. U128_MAX \div WAD \in Nat \ {0}
  BY Scales, DivBounds, DivAtLeast
<1>2. ratio_scale(r) \in Nat \ {0}
  BY <1>1, DivBounds DEF ratio_scale
<1>3. CASE Fits(r * WAD)
  <2>1. (r * WAD) \div d \in Nat
    BY MulNat, DivBounds, Scales
  <2> QED BY <1>3, <2>1 DEF ratio_fraction
<1>4. CASE ~Fits(r * WAD)
  <2>1. d \div ratio_scale(r) \in Nat \ {0}
    BY <1>2, <1>4, DivBounds DEF ratio_drops_fraction
  <2>2. (r \div ratio_scale(r)) * WAD \in Nat
    BY <1>2, DivBounds, MulNat, Scales
  <2> QED BY <1>4, <2>1, <2>2, DivBounds DEF ratio_fraction
<1> QED BY <1>3, <1>4

\* Both branches keep a numerator that covers the denominator at 1.0 or more.
LEMMA RatioAtLeastOne ==
    ASSUME NEW n \in Nat, NEW d \in Nat \ {0}, n >= d
    PROVE  wad_ratio(n, d) >= WAD
<1> DEFINE q == n \div d
           r == n % d
<1>1. CASE Fits(n * WAD)
  <2>1. n * WAD >= d * WAD /\ n * WAD \in Nat /\ d * WAD = WAD * d
    BY MulMono, MulNat, Scales
  <2>2. (n * WAD) \div d >= WAD
    BY <2>1, DivAtLeast, Scales
  <2> QED BY <1>1, <2>2 DEF wad_ratio
<1>2. CASE ~Fits(n * WAD)
  <2>1. q \in Nat /\ q >= 1 /\ r \in Nat
    BY DivBounds, DivAtLeast, ModBelow
  <2>2. q * WAD \in Nat /\ q * WAD >= WAD
    <3>1. 1 * WAD <= q * WAD
      BY <2>1, MulMono, Scales
    <3> QED BY <2>1, <3>1, MulNat, Scales
  <2>3. ~ratio_drops_fraction(r, d) => ratio_fraction(r, d) \in Nat
    BY <2>1, RatioFractionType
  <2> HIDE DEF q, r
  <2>4. wad_ratio(n, d) = IF ratio_drops_fraction(r, d) THEN q * WAD
                          ELSE q * WAD + ratio_fraction(r, d)
    BY <1>2 DEF wad_ratio, q, r
  <2> QED BY <2>2, <2>3, <2>4, Scales
<1> QED BY <1>1, <1>2

\* The exact ratio of less than a whole is below 1.0.
LEMMA BelowWater ==
    ASSUME NEW weighted \in Nat, NEW debt \in Nat, weighted < debt
    PROVE  (weighted * WAD) \div debt < WAD
<1>1. weighted * WAD < WAD * debt
  BY Scales, MulStrict
<1> QED BY <1>1, Scales, MulNat, DivBelow

\* So is wad_ratio, unless its second branch cannot tell the two apart.
LEMMA RatioBelowOne ==
    ASSUME NEW n \in Nat, NEW d \in Nat, n < d,
           Fits(n * WAD) \/ n + ratio_scale(n) <= d
    PROVE  wad_ratio(n, d) < WAD
<1> DEFINE s == ratio_scale(n)
<1>1. CASE Fits(n * WAD)
  BY <1>1, BelowWater DEF wad_ratio
<1>2. CASE ~Fits(n * WAD) /\ n + s <= d
  <2>1. n \div d = 0 /\ n % d = n
    OBVIOUS
  <2>2. wad_ratio(n, d) = IF ratio_drops_fraction(n, d) THEN 0 * WAD
                          ELSE 0 * WAD + ratio_fraction(n, d)
    BY <1>2, <2>1 DEF wad_ratio
  <2>3. s \in Nat \ {0}
    <3>1. U128_MAX \div WAD \in Nat \ {0}
      BY Scales, DivBounds, DivAtLeast
    <3> QED BY <3>1, DivBounds DEF ratio_scale
  <2>4. ratio_drops_fraction(n, d) <=> d \div s = 0
    BY <1>2 DEF ratio_drops_fraction
  <2>5. ratio_fraction(n, d) = ((n \div s) * WAD) \div (d \div s)
    BY <1>2 DEF ratio_fraction
  <2> HIDE DEF s
  <2>6. n \div s \in Nat /\ d \div s \in Nat /\ n \div s < d \div s
    <3>1. n \div s \in Nat /\ (n \div s) * s <= n /\ (n \div s) * s \in Nat
      BY <2>3, DivBounds, DivTimes, MulNat
    <3>2. (n \div s + 1) * s = (n \div s) * s + s
      BY <2>3, <3>1
    <3>3. (n \div s + 1) * s <= d
      BY <1>2, <2>3, <3>1, <3>2
    <3> HIDE DEF s
    <3>4. d \div s >= n \div s + 1 /\ d \div s \in Nat
      BY <2>3, <3>1, <3>3, DivAtLeast, DivBounds
    <3> QED BY <3>1, <3>4
  <2>7. ((n \div s) * WAD) \div (d \div s) < WAD
    BY <2>6, BelowWater
  <2>8. ((n \div s) * WAD) \div (d \div s) \in Nat
    BY <2>6, Scales, MulNat, DivBounds
  <2> QED BY <2>2, <2>5, <2>7, <2>8, Scales
<1> QED BY <1>1, <1>2

LEMMA RatioType ==
    ASSUME NEW n \in Nat, NEW d \in Nat \ {0}
    PROVE  wad_ratio(n, d) \in Nat
<1> DEFINE q == n \div d
           r == n % d
<1>1. q \in Nat /\ r \in Nat
  BY DivBounds, ModBelow
<1>2. (n * WAD) \div d \in Nat /\ q * WAD \in Nat
  BY <1>1, MulNat, DivBounds, Scales
<1>3. ~ratio_drops_fraction(r, d) => ratio_fraction(r, d) \in Nat
  BY <1>1, RatioFractionType
<1> HIDE DEF q, r
<1>4. wad_ratio(n, d) =
        IF Fits(n * WAD) THEN (n * WAD) \div d
        ELSE IF ratio_drops_fraction(r, d) THEN q * WAD
        ELSE q * WAD + ratio_fraction(r, d)
  BY DEF wad_ratio, q, r
<1> QED BY <1>2, <1>3, <1>4

\* More debt under the same collateral keeps the ratio below 1.0.
LEMMA RatioAntitone ==
    ASSUME NEW n \in Nat, NEW d \in Nat \ {0}, NEW e \in Nat, d <= e, wad_ratio(n, d) < WAD
    PROVE  wad_ratio(n, e) < WAD
<1>1. n < d
  <2>1. wad_ratio(n, d) \in Nat
    BY RatioType
  <2> QED BY <2>1, RatioAtLeastOne, Scales
<1>2. CASE Fits(n * WAD)
  BY <1>1, <1>2, RatioBelowOne
<1>3. CASE ~Fits(n * WAD)
  <2> DEFINE s == ratio_scale(n)
             scaled == (n \div s) * WAD
  <2>1. s \in Nat \ {0}
    <3>1. U128_MAX \div WAD \in Nat \ {0}
      BY Scales, DivBounds, DivAtLeast
    <3> QED BY <3>1, DivBounds DEF ratio_scale
  <2>2. ASSUME NEW x \in Nat, n < x
        PROVE  wad_ratio(n, x) = IF x \div s = 0 THEN 0 ELSE scaled \div (x \div s)
    <3>1. n \div x = 0 /\ n % x = n
      BY <2>2
    <3>2. wad_ratio(n, x) = IF ratio_drops_fraction(n, x) THEN 0 * WAD
                            ELSE 0 * WAD + ratio_fraction(n, x)
      BY <1>3, <3>1 DEF wad_ratio
    <3>3. ratio_drops_fraction(n, x) <=> x \div s = 0
      BY <1>3 DEF ratio_drops_fraction
    <3>4. ratio_fraction(n, x) = scaled \div (x \div s)
      BY <1>3 DEF ratio_fraction
    <3>5. x \div s \in Nat /\ scaled \in Nat
      BY <2>1, DivBounds, MulNat, Scales
    <3> HIDE DEF s, scaled
    <3>6. x \div s # 0 => scaled \div (x \div s) \in Nat
      BY <3>5, DivBounds
    <3> QED BY <3>2, <3>3, <3>4, <3>6, Scales
  <2>3. /\ n \div s \in Nat /\ d \div s \in Nat /\ e \div s \in Nat /\ scaled \in Nat
        /\ d \div s <= e \div s
    BY <2>1, DivBounds, DivMono, MulNat, Scales
  <2> HIDE DEF s, scaled
  <2>4. n < e
    BY <1>1
  <2>5. CASE e \div s = 0
    BY <2>2, <2>4, <2>5, Scales
  <2>6. CASE e \div s # 0 /\ d \div s = 0
    <3>1. n \div s = 0
      <4>1. n \div s <= d \div s
        BY <1>1, <2>1, DivMono
      <4> QED BY <2>3, <2>6, <4>1
    <3>2. scaled = 0
      BY <3>1, Scales DEF scaled
    <3> QED BY <2>2, <2>3, <2>4, <2>6, <3>2, Scales, DivBounds
  <2>7. CASE d \div s # 0
    <3>1. scaled \div (e \div s) <= scaled \div (d \div s)
      BY <2>3, <2>7, DivAnti
    <3>2. scaled \div (e \div s) \in Nat /\ scaled \div (d \div s) \in Nat
      BY <2>3, <2>7, DivBounds
    <3> QED BY <1>1, <2>2, <2>3, <2>4, <2>7, <3>1, <3>2, Scales
  <2> QED BY <2>5, <2>6, <2>7
<1> QED BY <1>2, <1>3

(***************************************************************************)
(* The values of a position and the amounts of a liquidation.              *)
(***************************************************************************)
LEMMA PricesOfFeed ==
    ASSUME NEW feed \in Feeds
    PROVE  get_all_prices(feed) \in [Markets -> Nat]
  BY Scales DEF Feeds, get_all_prices, get_asset_price, RLUSD_FIXED_PRICE, U128

LEMMA UsdValueType ==
    ASSUME NEW prices \in [Markets -> Nat], NEW m \in Markets, NEW a \in Nat
    PROVE  /\ price_per_native(prices, m) \in Nat
           /\ asset_usd_value(a, prices, m) \in Nat
<1>1. prices[m] \in Nat /\ ASSET_UNIT[m] \in Nat \ {0}
  BY HealthAssumption
<1>2. price_per_native(prices, m) \in Nat
  BY <1>1, DivBounds DEF price_per_native
<1> QED BY <1>2, MulNat DEF asset_usd_value

LEMMA TotalDebtType ==
    ASSUME NEW prices \in [Markets -> Nat], NEW actual,
           \A m \in Markets : actual[m].debt \in Nat
    PROVE  total_debt_usd(actual, prices) \in Nat
<1>1. \A m \in Markets : asset_usd_value(actual[m].debt, prices, m) \in Nat
  BY UsdValueType
<1> QED BY <1>1 DEF total_debt_usd, OverMarkets, Markets,
                    ASSET_XRP, ASSET_RLUSD, ASSET_WBTC

LEMMA WeightedType ==
    ASSUME NEW prices \in [Markets -> Nat], NEW pos, NEW weight \in [Markets -> Nat],
           \A m \in Markets : pos[m].collateral \in Nat
    PROVE  weighted_collateral(pos, prices, weight) \in Nat
<1> DEFINE part(m) == (asset_usd_value(pos[m].collateral, prices, m) * weight[m]) \div BPS
<1>1. \A m \in Markets : part(m) \in Nat
  BY UsdValueType, MulNat, DivBounds, Scales
<1>2. weighted_collateral(pos, prices, weight) = part(0) + part(1) + part(2)
  BY DEF weighted_collateral, OverMarkets, Markets, ASSET_XRP, ASSET_RLUSD, ASSET_WBTC
<1> HIDE DEF part
<1> QED BY <1>1, <1>2 DEF Markets, ASSET_XRP, ASSET_RLUSD, ASSET_WBTC

\* Less of every debt is less debt.
LEMMA TotalMono ==
    ASSUME NEW prices \in [Markets -> Nat], NEW old, NEW new,
           \A m \in Markets : old[m].debt \in Nat /\ new[m].debt \in Nat
                              /\ old[m].debt <= new[m].debt
    PROVE  total_debt_usd(old, prices) <= total_debt_usd(new, prices)
<1> DEFINE before(k) == asset_usd_value(old[k].debt, prices, k)
           after(k) == asset_usd_value(new[k].debt, prices, k)
<1>1. /\ total_debt_usd(new, prices) = after(0) + after(1) + after(2)
      /\ total_debt_usd(old, prices) = before(0) + before(1) + before(2)
  BY DEF total_debt_usd, OverMarkets, Markets, ASSET_XRP, ASSET_RLUSD, ASSET_WBTC
<1>2. \A k \in Markets : before(k) \in Nat /\ after(k) \in Nat
  BY UsdValueType
<1>3. \A k \in Markets : before(k) <= after(k)
  BY UsdValueType, MulMono DEF asset_usd_value
<1> HIDE DEF before, after
<1>4. Markets = {0, 1, 2}
  BY DEF Markets, ASSET_XRP, ASSET_RLUSD, ASSET_WBTC
<1> QED BY <1>1, <1>2, <1>3, <1>4

\* What is worth no more than an amount, in units of its asset.
LEMMA RepaymentBound ==
    ASSUME NEW prices \in [Markets -> Nat], NEW actual, NEW d \in Markets,
           \A m \in Markets : actual[m].debt \in Nat,
           NEW amount \in Nat, price_per_native(prices, d) # 0
    PROVE  LET repaid == Min2(Min2(asset_usd_value(amount, prices, d),
                                   calculate_max_liquidation(total_debt_usd(actual, prices))),
                              asset_usd_value(actual[d].debt, prices, d))
                            \div price_per_native(prices, d)
           IN  repaid \in Nat /\ repaid <= amount
<1> DEFINE price == price_per_native(prices, d)
           value == asset_usd_value(amount, prices, d)
           half == calculate_max_liquidation(total_debt_usd(actual, prices))
           owed_usd == asset_usd_value(actual[d].debt, prices, d)
           cap == Min2(Min2(value, half), owed_usd)
<1>1. price \in Nat \ {0} /\ value \in Nat /\ owed_usd \in Nat
  BY UsdValueType
<1>2. half \in Nat
  <2> DEFINE debt_usd == total_debt_usd(actual, prices)
             wrapped == (debt_usd * CLOSE_FACTOR_BPS) % (U128_MAX + 1)
  <2>1. debt_usd \in Nat
    BY TotalDebtType
  <2>2. CLOSE_FACTOR_BPS \in Nat
    BY Scales, DivBounds DEF CLOSE_FACTOR_BPS
  <2>3. debt_usd * CLOSE_FACTOR_BPS \in Nat
    BY <2>1, <2>2, MulNat
  <2>4. wrapped \in Nat
    BY <2>3, Scales
  <2>5. half = wrapped \div BPS
    BY DEF calculate_max_liquidation
  <2> HIDE DEF wrapped, half
  <2> QED BY <2>4, <2>5, Scales, DivBounds
<1> SUFFICES cap \div price \in Nat /\ cap \div price <= amount
  OBVIOUS
<1>3. value = amount * price
  BY DEF asset_usd_value
<1> HIDE DEF price, value, half, owed_usd
<1>4. cap \in Nat /\ cap <= amount * price
  BY <1>1, <1>2, <1>3 DEF Min2
<1> HIDE DEF cap
<1> QED BY <1>1, <1>4, DivBounds, DivAtMost

LEMMA SeizedType ==
    ASSUME NEW prices \in [Markets -> Nat], NEW d \in Markets,
           NEW c \in Markets, NEW repaid \in Nat, NEW bonus \in Nat,
           price_per_native(prices, c) # 0
    PROVE  collateral_to_seize(repaid, prices, d, c, bonus) \in Nat
<1>1. /\ asset_usd_value(repaid, prices, d) \in Nat
      /\ price_per_native(prices, c) \in Nat \ {0}
  BY UsdValueType
<1>2. asset_usd_value(repaid, prices, d) * (BPS + bonus) \in Nat
  BY <1>1, MulNat, Scales
<1>3. seize_usd(repaid, prices, d, bonus) \in Nat
  BY <1>2, DivBounds, Scales DEF seize_usd
<1> QED BY <1>1, <1>3, DivBounds DEF collateral_to_seize

(***************************************************************************)
(* Sums over the values of a function with a finite domain (SumFunction of *)
(* the community modules): that the fold is defined, what it returns, and  *)
(* how it changes when the function changes in one place.  Each is proved  *)
(* from a smallest counterexample.                                         *)
(***************************************************************************)
LEMMA NatMin ==
    ASSUME NEW Bad \in SUBSET Nat, Bad # {}
    PROVE  \E n \in Bad : \A k \in Bad : n <= k
<1>1. PICK n \in Bad : \A k \in Bad : ~(<<k, n>> \in OpToRel(<, Nat))
  BY NatLessThanWellFounded, WFMin
<1>2. \A k \in Bad : k < n => <<k, n>> \in OpToRel(<, Nat)
  BY DEF OpToRel
<1>3. \A k \in Bad : ~(k < n)
  BY <1>1, <1>2
<1> HIDE <1>1, <1>2
<1>4. n \in Nat /\ \A k \in Bad : k \in Nat
  OBVIOUS
<1>5. QED
  BY <1>3, <1>4

LEMMA SmallestSet ==
    ASSUME NEW S, IsFiniteSet(S), NEW Bad \in SUBSET (SUBSET S), Bad # {}
    PROVE  \E s \in Bad : \A x \in s : s \ {x} \notin Bad
<1> DEFINE sizes == {Cardinality(s) : s \in Bad}
<1>1. \A s \in Bad : IsFiniteSet(s) /\ Cardinality(s) \in Nat
  BY FS_Subset, FS_CardinalityType
<1>2. sizes \in SUBSET Nat /\ sizes # {}
  BY <1>1
<1>3. PICK n \in sizes : \A k \in sizes : n <= k
  <2> HIDE DEF sizes
  <2>1. QED
    BY <1>2, NatMin
<1>4. PICK s \in Bad : n = Cardinality(s)
  OBVIOUS
<1>5. ASSUME NEW x \in s, s \ {x} \in Bad PROVE FALSE
  <2>1. Cardinality(s \ {x}) = Cardinality(s) - 1
    BY <1>1, <1>5, FS_RemoveElement
  <2>2. n <= Cardinality(s \ {x})
    BY <1>3, <1>5
  <2>3. QED
    BY <1>1, <1>4, <2>1, <2>2
<1>6. QED
  BY <1>5

Some(s) == CHOOSE x \in s : TRUE

LEMMA SomeMember == ASSUME NEW s, s # {} PROVE Some(s) \in s
BY DEF Some

\* The equation that defines SumFunction's fold.
AddsUp(f, iter) ==
    iter = [s \in SUBSET DOMAIN f |-> IF s = {} THEN 0 ELSE f[Some(s)] + iter[s \ {Some(s)}]]

\* The sums over the subsets of f's domain.
Partial(f) == CHOOSE iter : AddsUp(f, iter)

LEMMA SumIsFold == ASSUME NEW f PROVE SumFunction(f) = Partial(f)[DOMAIN f]
BY DEF SumFunction, SumFunctionOnSet, FoldFunctionOnSet, MapThenFoldSet, Partial, AddsUp, Some

\* The equation has a solution on the subsets of up to n elements, for every n.
LEMMA FoldExists ==
    ASSUME NEW f, IsFiniteSet(DOMAIN f)
    PROVE  \E iter : AddsUp(f, iter)
<1> DEFINE S == DOMAIN f
           upto(n) == {s \in SUBSET S : Cardinality(s) <= n}
           step(s, h) == IF s = {} THEN 0 ELSE f[Some(s)] + h[s \ {Some(s)}]
           solves(n, h) == h = [s \in upto(n) |-> step(s, h)]
           Bad == {n \in Nat : ~ \E h : solves(n, h)}
<1>1. \A s \in SUBSET S : IsFiniteSet(s) /\ Cardinality(s) \in Nat
  BY FS_Subset, FS_CardinalityType
<1>2. \A s \in SUBSET S : s # {} =>
         Some(s) \in s /\ s \ {Some(s)} \in SUBSET S /\ Cardinality(s \ {Some(s)}) = Cardinality(s) - 1
  BY <1>1, SomeMember, FS_RemoveElement
<1>3. Bad = {}
  <2> SUFFICES ASSUME Bad # {} PROVE FALSE
    OBVIOUS
  <2>1. PICK n \in Bad : \A k \in Bad : n <= k
    <3>1. Bad \in SUBSET Nat
      OBVIOUS
    <3> HIDE DEF Bad
    <3>2. QED
      BY <3>1, NatMin
  <2>2. CASE n = 0
    <3> DEFINE h == [s \in upto(0) |-> 0]
    <3>1. \A s \in upto(0) : s = {}
      BY <1>1, FS_EmptySet
    <3>2. solves(0, h)
      BY <3>1
    <3>3. QED
      BY <2>1, <2>2, <3>2
  <2>3. CASE n # 0
    <3>1. n - 1 \in Nat /\ n - 1 \notin Bad
      <4>1. n \in Nat /\ n - 1 \in Nat /\ ~(n <= n - 1)
        BY <2>3
      <4> HIDE DEF Bad
      <4>2. QED
        BY <2>1, <4>1
    <3>2. PICK g : solves(n - 1, g)
      BY <3>1
    <3> DEFINE h == [s \in upto(n) |-> step(s, g)]
    <3>3. \A s \in upto(n - 1) : s \in upto(n) /\ g[s] = step(s, g)
      <4>1. \A s \in upto(n - 1) : s \in upto(n)
        BY <1>1, <2>1
      <4>2. \A s \in upto(n - 1) : g[s] = step(s, g)
        <5> HIDE DEF upto, step
        <5>1. QED
          BY <3>2
      <4>3. QED
        BY <4>1, <4>2
    <3>4. \A s \in upto(n - 1) : h[s] = g[s]
      <4> HIDE DEF upto, step
      <4>1. QED
        BY <3>3
    <3>5. \A s \in upto(n) : step(s, h) = step(s, g)
      <4> SUFFICES ASSUME NEW s \in upto(n), s # {} PROVE h[s \ {Some(s)}] = g[s \ {Some(s)}]
        <5> HIDE DEF h, upto
        <5>1. QED
          OBVIOUS
      <4>1. s \ {Some(s)} \in upto(n - 1)
        BY <1>1, <1>2, <2>1
      <4> HIDE DEF h, upto
      <4>2. QED
        BY <3>4, <4>1
    <3>6. solves(n, h)
      <4> HIDE DEF upto, step
      <4>1. QED
        BY <3>5
    <3>7. QED
      <4> HIDE DEF h, solves
      <4>1. QED
        BY <2>1, <3>6
  <2>4. QED
    BY <2>2, <2>3
<1>4. PICK h : solves(Cardinality(S), h)
  <2>1. Cardinality(S) \in Nat
    BY FS_CardinalityType
  <2>2. QED
    BY <1>3, <2>1
<1>5. upto(Cardinality(S)) = SUBSET S
  BY FS_Subset
<1>6. QED
  BY <1>4, <1>5 DEF AddsUp

LEMMA PartialUnfolds ==
    ASSUME NEW f, IsFiniteSet(DOMAIN f)
    PROVE  /\ Partial(f)[{}] = 0
           /\ \A s \in SUBSET DOMAIN f : s # {} =>
                Some(s) \in s /\ Partial(f)[s] = f[Some(s)] + Partial(f)[s \ {Some(s)}]
<1>1. AddsUp(f, Partial(f))
  BY FoldExists DEF Partial
<1>2. QED
  BY <1>1, SomeMember DEF AddsUp

LEMMA PartialType ==
    ASSUME NEW S, IsFiniteSet(S), NEW f \in [S -> Int]
    PROVE  \A s \in SUBSET S : Partial(f)[s] \in Int
<1> DEFINE Bad == {s \in SUBSET S : Partial(f)[s] \notin Int}
<1> SUFFICES ASSUME Bad # {} PROVE FALSE
  OBVIOUS
<1>1. PICK s \in Bad : \A x \in s : s \ {x} \notin Bad
  <2>1. Bad \in SUBSET (SUBSET S)
    OBVIOUS
  <2> HIDE DEF Bad
  <2>2. QED
    BY <2>1, SmallestSet
<1>2. s # {}
  <2>1. Partial(f)[{}] = 0 /\ Partial(f)[s] \notin Int
    BY PartialUnfolds
  <2>2. QED
    BY <2>1
<1>3. /\ Some(s) \in s
      /\ Partial(f)[s] = f[Some(s)] + Partial(f)[s \ {Some(s)}]
  BY <1>2, PartialUnfolds
<1>4. Partial(f)[s \ {Some(s)}] \in Int
  BY <1>1, <1>3
<1>5. QED
  BY <1>3, <1>4

\* A sum of integers is an integer.
LEMMA SumType ==
    ASSUME NEW S, IsFiniteSet(S), NEW f \in [S -> Int]
    PROVE  SumFunction(f) \in Int
BY SumIsFold, PartialType

\* A sum of naturals is not negative.
LEMMA SumNat ==
    ASSUME NEW S, IsFiniteSet(S), NEW f \in [S -> Nat]
    PROVE  SumFunction(f) \in Nat
<1> DEFINE Bad == {s \in SUBSET S : Partial(f)[s] \notin Nat}
<1>1. Bad = {}
  <2> SUFFICES ASSUME Bad # {} PROVE FALSE
    OBVIOUS
  <2>1. PICK s \in Bad : \A x \in s : s \ {x} \notin Bad
    <3>1. Bad \in SUBSET (SUBSET S)
      OBVIOUS
    <3> HIDE DEF Bad
    <3>2. QED
      BY <3>1, SmallestSet
  <2>2. s # {}
    <3>1. Partial(f)[{}] = 0 /\ Partial(f)[s] \notin Nat
      BY PartialUnfolds
    <3>2. QED
      BY <3>1
  <2>3. /\ Some(s) \in s
        /\ Partial(f)[s] = f[Some(s)] + Partial(f)[s \ {Some(s)}]
    BY <2>2, PartialUnfolds
  <2>4. Partial(f)[s \ {Some(s)}] \in Nat
    BY <2>1, <2>3
  <2>5. QED
    BY <2>3, <2>4
<1>2. QED
  BY <1>1, SumIsFold

\* Nothing but zeros adds up to zero.
LEMMA SumZero ==
    ASSUME NEW S, IsFiniteSet(S)
    PROVE  SumFunction([x \in S |-> 0]) = 0
<1> DEFINE f == [x \in S |-> 0]
           Bad == {s \in SUBSET S : Partial(f)[s] # 0}
<1>1. f \in [S -> Nat]
  OBVIOUS
<1>2. Bad = {}
  <2> SUFFICES ASSUME Bad # {} PROVE FALSE
    OBVIOUS
  <2>1. PICK s \in Bad : \A x \in s : s \ {x} \notin Bad
    <3>1. Bad \in SUBSET (SUBSET S)
      OBVIOUS
    <3> HIDE DEF Bad
    <3>2. QED
      BY <3>1, SmallestSet
  <2>2. s # {}
    BY <1>1, PartialUnfolds
  <2>3. /\ Some(s) \in s
        /\ Partial(f)[s] = f[Some(s)] + Partial(f)[s \ {Some(s)}]
    <3> HIDE DEF f
    <3>1. QED
      BY <1>1, <2>2, PartialUnfolds
  <2>4. Partial(f)[s \ {Some(s)}] = 0
    BY <2>1, <2>3
  <2>5. QED
    BY <2>3, <2>4
<1>3. QED
  BY <1>2, SumIsFold

\* Changing one value changes the sum by as much.
LEMMA SumChanges ==
    ASSUME NEW S, IsFiniteSet(S), NEW f \in [S -> Int], NEW g \in [S -> Int], NEW a \in S,
           \A x \in S : x # a => g[x] = f[x]
    PROVE  SumFunction(g) = SumFunction(f) + (g[a] - f[a])
<1> DEFINE changed(s) == Partial(f)[s] + (IF a \in s THEN g[a] - f[a] ELSE 0)
           Bad == {s \in SUBSET S : Partial(g)[s] # changed(s)}
<1>1. Bad = {}
  <2> SUFFICES ASSUME Bad # {} PROVE FALSE
    OBVIOUS
  <2>1. PICK s \in Bad : \A x \in s : s \ {x} \notin Bad
    <3>1. Bad \in SUBSET (SUBSET S)
      OBVIOUS
    <3> HIDE DEF Bad
    <3>2. QED
      BY <3>1, SmallestSet
  <2>2. s # {}
    <3>1. Partial(f)[{}] = 0 /\ Partial(g)[{}] = 0 /\ Partial(g)[s] # changed(s)
      BY PartialUnfolds
    <3>2. changed({}) = 0
      BY <3>1
    <3> HIDE DEF changed
    <3>3. QED
      BY <3>1, <3>2
  <2> DEFINE x == Some(s)
             rest == s \ {x}
  <2>3. /\ x \in s
        /\ Partial(f)[s] = f[x] + Partial(f)[rest]
        /\ Partial(g)[s] = g[x] + Partial(g)[rest]
    BY <2>2, PartialUnfolds
  <2>4. /\ Partial(g)[rest] = changed(rest)
        /\ Partial(f)[rest] \in Int /\ f[x] \in Int /\ g[x] \in Int /\ f[a] \in Int /\ g[a] \in Int
    BY <2>1, <2>3, PartialType
  <2>5. (x = a => a \notin rest) /\ (x # a => (a \in rest <=> a \in s) /\ g[x] = f[x])
    BY <2>3
  <2> HIDE DEF x, rest
  <2>6. QED
    BY <2>1, <2>3, <2>4, <2>5
<1>2. QED
  BY <1>1, SumIsFold

=============================================================================
