--------------------------- MODULE PriceConversion ---------------------------
(***************************************************************************)
(* From an entry of the DIA Oracle object to the WAD-scaled price that the *)
(* module Oracle starts from: in the contract (raw_to_wad of oracle.rs), a *)
(* u128 from a table of powers of ten, and in the SDK (rawToWad of         *)
(* oracle.ts), an unbounded integer.  The decimal system is a parameter,   *)
(* so that a small WAD is a power of its base.                             *)
(***************************************************************************)
EXTENDS Oracle

CONSTANTS
    RADIX,        \* 10 in the source
    WAD_DIGITS,   \* 18 in the source
    POWERS        \* length of the table POW10: 38 in the source

\* The powers of the base, as a recursive function: the prover knows none of ^.
power[e \in Nat] == IF e = 0 THEN 1 ELSE RADIX * power[e - 1]

ASSUME ConversionAssumption ==
    /\ RADIX \in Nat /\ RADIX > 1
    /\ WAD_DIGITS \in Nat /\ POWERS \in Nat
    /\ WAD = power[WAD_DIGITS]
    /\ power[POWERS] <= U128_MAX

POW10 == [e \in 0 .. POWERS - 1 |-> power[e]]

RawOracleData == [asset_price : Nat, scale : Int]

\* Faulty variant: the sign of the scale is lost.
exponent_of_digits(raw) == WAD_DIGITS - raw.scale

exponent(raw) == WAD_DIGITS + raw.scale

\* A value of an exponent within the table, rounded down to a whole unit.
converted(raw) ==
    IF exponent(raw) >= 0 THEN raw.asset_price * POW10[exponent(raw)]
    ELSE raw.asset_price \div POW10[-exponent(raw)]

\* raw_to_wad returns Ok; otherwise OraclePriceZero or MathOverflow.
raw_to_wad_ok(raw) ==
    /\ raw.asset_price # 0
    /\ exponent(raw) < POWERS /\ -exponent(raw) < POWERS
    /\ Fits(converted(raw))
    /\ converted(raw) # 0

raw_to_wad(raw) == converted(raw)

\* getAllPrices uses the entry; a price that is rounded down to 0 is one too.
rawToWad_ok(raw) == raw.asset_price # 0

rawToWad(raw) ==
    LET e == WAD_DIGITS + raw.scale
    IN  IF e >= 0 THEN raw.asset_price * power[e]
        ELSE raw.asset_price \div power[-e]
=============================================================================
