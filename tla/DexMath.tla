------------------------------ MODULE DexMath ------------------------------
(***************************************************************************)
(* The fixed-point arithmetic of the exchange contract: the decimal        *)
(* product and quotient of utils.hpp, the asset/coin conversions and the   *)
(* match fee of dex_match.hpp.                                             *)
(*                                                                         *)
(* An amount is a natural number of a token's smallest unit.  A price is   *)
(* the number of coin units paid for one whole asset, that is for          *)
(* `precision` units of it.  Every operator that can fail a CHECK of the   *)
(* code comes with a predicate that says when the CHECK passes.            *)
(***************************************************************************)
EXTENDS Integers

CONSTANTS
    RATIO_PRECISION,    \* the unit fee ratios are expressed in
    FEE_RATIO_MAX,      \* the largest fee ratio the contract accepts
    Int64Max            \* the largest value of the 64-bit result type

ASSUME RatioAssumption ==
    /\ RATIO_PRECISION \in Nat \ {0}
    /\ FEE_RATIO_MAX \in Nat
    /\ 2 * FEE_RATIO_MAX < RATIO_PRECISION
ASSUME Int64Assumption == Int64Max \in Nat \ {0}

Min2(a, b) == IF a < b THEN a ELSE b


(***************************************************************************)
(* The code scales by ten, truncates, and rounds the last digit away, so a *)
(* result is the exact value rounded half up.                              *)
(***************************************************************************)
round_last_digit(tmp) == (tmp + 5) \div 10

multiply_decimal(a, b, precision) == round_last_digit((10 * a * b) \div precision)
multiply_fits(a, b, precision) == (10 * a * b) \div precision <= Int64Max

divide_decimal(a, b, precision) == round_last_digit((10 * a * precision) \div b)
divide_fits(a, b, precision) == (10 * a * precision) \div b <= Int64Max

calc_asset_amount(coins, price, precision) == divide_decimal(coins, price, precision)
calc_coin_amount(assets, price, precision) == multiply_decimal(assets, price, precision)

calc_match_fee(ratio, quant) ==
    IF quant = 0 THEN 0 ELSE multiply_decimal(quant, ratio, RATIO_PRECISION)

\* The CHECKs of calc_match_fee: no overflow, and the fee stays below the quantity.
match_fee_ok(ratio, quant) ==
    quant # 0 => /\ multiply_fits(quant, ratio, RATIO_PRECISION)
                 /\ calc_match_fee(ratio, quant) < quant

\* r is num / den rounded half up.
IsRounded(r, num, den) == -den <= 2 * (num - r * den) /\ 2 * (num - r * den) < den

validate_fee_ratio(ratio) == ratio \in 0 .. FEE_RATIO_MAX
=============================================================================
