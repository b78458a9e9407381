---------------------------- MODULE DexMathProofs ----------------------------
(***************************************************************************)
(* Facts about the arithmetic of the exchange, for every quantity, price,  *)
(* precision and ratio.                                                    *)
(***************************************************************************)
EXTENDS DexMatch, TLAPS

\* Division by a positive number.
LEMMA DivNat ==
    ASSUME NEW a \in Nat, NEW b \in Nat \ {0}
    PROVE  /\ a \div b \in Nat
           /\ b * (a \div b) <= a
           /\ a < b * ((a \div b) + 1)
<1>1. a \div b \in Nat /\ a % b \in 0 .. (b - 1) /\ a = b * (a \div b) + (a % b)
    OBVIOUS
<1>. QED BY <1>1

LEMMA ProductNat == \A a, b \in Nat : a * b \in Nat
    OBVIOUS

LEMMA RoundNat ==
    ASSUME NEW tmp \in Nat
    PROVE  round_last_digit(tmp) \in Nat
BY DEF round_last_digit

LEMMA MultiplyNat ==
    ASSUME NEW a \in Nat, NEW b \in Nat, NEW p \in Nat \ {0}
    PROVE  multiply_decimal(a, b, p) \in Nat
<1>1. 10 * a * b \in Nat
    BY ProductNat
<1>2. (10 * a * b) \div p \in Nat
    BY <1>1, DivNat
<1>. QED BY <1>2, RoundNat DEF multiply_decimal

LEMMA DivideNat ==
    ASSUME NEW a \in Nat, NEW b \in Nat \ {0}, NEW p \in Nat
    PROVE  divide_decimal(a, b, p) \in Nat
<1>1. 10 * a * p \in Nat
    BY ProductNat
<1>2. (10 * a * p) \div b \in Nat
    BY <1>1, DivNat
<1>. QED BY <1>2, RoundNat DEF divide_decimal

(***************************************************************************)
(* The two steps of multiply_decimal and divide_decimal, truncate at one   *)
(* more digit and round that digit, are rounding half up: the digits cut   *)
(* off before the rounding never change its result.                        *)
(***************************************************************************)
THEOREM RoundsHalfUp ==
    ASSUME NEW num \in Nat, NEW den \in Nat \ {0}
    PROVE  IsRounded(round_last_digit((10 * num) \div den), num, den)
<1> DEFINE t == (10 * num) \div den
           r == round_last_digit(t)
<1>1. t \in Nat /\ den * t <= 10 * num /\ 10 * num < den * (t + 1)
    BY ProductNat, DivNat
<1>2. r \in Nat /\ 10 * r <= t + 5 /\ t + 1 <= 10 * r + 5
  <2>. HIDE DEF t
  <2>1. r \in Nat /\ 10 * r <= t + 5 /\ t + 5 < 10 * (r + 1)
      BY <1>1, DivNat DEF round_last_digit
  <2>. QED BY <1>1, <2>1
<1>. HIDE DEF t, r
<1>3. den * (10 * r) <= 10 * num + 5 * den
  <2>1. den * (10 * r) <= den * (t + 5)
      BY <1>1, <1>2
  <2>2. den * (t + 5) = den * t + 5 * den
      BY <1>1
  <2>. QED BY <1>1, <1>2, <2>1, <2>2
<1>4. 10 * num < den * (10 * r) + 5 * den
  <2>1. den * (t + 1) <= den * (10 * r + 5)
      BY <1>1, <1>2
  <2>2. den * (10 * r + 5) = den * (10 * r) + 5 * den
      BY <1>2
  <2>. QED BY <1>1, <1>2, <2>1, <2>2
<1>5. den * (10 * r) = 10 * (r * den) /\ r * den \in Nat
    BY <1>2
<1>6. IsRounded(r, num, den)
  <2>. DEFINE p == r * den
  <2>1. p \in Nat /\ 10 * p <= 10 * num + 5 * den /\ 10 * num < 10 * p + 5 * den
      BY <1>3, <1>4, <1>5
  <2>2. IsRounded(r, num, den) <=> -den <= 2 * (num - p) /\ 2 * (num - p) < den
      BY DEF IsRounded
  <2>. HIDE DEF p
  <2>. QED BY <2>1, <2>2
<1>. QED BY <1>6 DEF r, t

LEMMA CoinsRounded ==
    ASSUME NEW assets \in Nat, NEW price \in Nat, NEW precision \in Nat \ {0}
    PROVE  IsRounded(calc_coin_amount(assets, price, precision), assets * price, precision)
<1>1. assets * price \in Nat /\ 10 * assets * price = 10 * (assets * price)
    BY ProductNat
<1>. QED BY <1>1, RoundsHalfUp DEF calc_coin_amount, multiply_decimal

LEMMA AssetsRounded ==
    ASSUME NEW coins \in Nat, NEW price \in Nat \ {0}, NEW precision \in Nat
    PROVE  IsRounded(calc_asset_amount(coins, price, precision), coins * precision, price)
<1>1. coins * precision \in Nat /\ 10 * coins * precision = 10 * (coins * precision)
    BY ProductNat
<1>. QED BY <1>1, RoundsHalfUp DEF calc_asset_amount, divide_decimal

\* More assets than m can be bought with f coins only if they cover what m assets cost.
LEMMA CoinsCover ==
    ASSUME NEW f \in Nat, NEW m \in Nat, NEW price \in Nat \ {0}, NEW precision \in Nat \ {0},
           m < calc_asset_amount(f, price, precision)
    PROVE  calc_coin_amount(m, price, precision) <= f
<1> DEFINE a == calc_asset_amount(f, price, precision)
           c == calc_coin_amount(m, price, precision)
<1>1. a \in Nat /\ c \in Nat
    BY MultiplyNat, DivideNat DEF calc_asset_amount, calc_coin_amount
<1>2. IsRounded(a, f * precision, price) /\ IsRounded(c, m * price, precision)
    BY AssetsRounded, CoinsRounded
<1>3. m + 1 <= a
    BY <1>1
<1>. HIDE DEF a, c
<1>4. f * precision \in Nat /\ m * price \in Nat /\ a * price \in Nat /\ c * precision \in Nat
    BY <1>1, ProductNat
<1>5. -price <= 2 * (f * precision - a * price) /\ -precision <= 2 * (m * price - c * precision)
    BY <1>2 DEF IsRounded
<1>6. m * price + price <= a * price
  <2>1. (m + 1) * price <= a * price
      BY <1>1, <1>3
  <2>2. (m + 1) * price = m * price + price
      OBVIOUS
  <2>. QED BY <2>1, <2>2
<1>7. 2 * (c * precision) < 2 * (f * precision) + precision
  <2>. DEFINE x == f * precision
              y == m * price
              z == a * price
              w == c * precision
  <2>1. x \in Nat /\ y \in Nat /\ z \in Nat /\ w \in Nat
      BY <1>4
  <2>2. -price <= 2 * (x - z) /\ -precision <= 2 * (y - w) /\ y + price <= z
      BY <1>5, <1>6
  <2>. HIDE DEF x, y, z, w
  <2>3. 2 * w < 2 * x + precision
      BY <2>1, <2>2
  <2>. QED BY <2>3 DEF x, w
<1>8. ~(f + 1 <= c)
  <2>. SUFFICES ASSUME f + 1 <= c PROVE FALSE
      OBVIOUS
  <2>1. (f + 1) * precision <= c * precision
      BY <1>1
  <2>2. (f + 1) * precision = f * precision + precision
      OBVIOUS
  <2>3. f * precision + precision <= c * precision
      BY <2>1, <2>2
  <2>. QED BY <1>4, <1>7, <2>3
<1>. QED BY <1>1, <1>8 DEF c

(***************************************************************************)
(* calc_matched_amounts: a deal never exceeds what is left of either limit *)
(* and exhausts one of them, in spite of the conversion to assets and back *)
(* that a market buy order, limited in coins, goes through.                *)
(***************************************************************************)
THEOREM AmountsWithinLimits ==
    ASSUME NEW taker, NEW taker_free \in Nat, NEW maker_free \in Nat,
           NEW price \in Nat \ {0}, NEW precision \in Nat \ {0}
    PROVE  LET amounts == amounts_of(taker, taker_free, maker_free, price, precision)
           IN  /\ amounts.assets <= maker_free
               /\ is_market_buy(taker) =>
                      /\ amounts.coins <= taker_free
                      /\ amounts.assets = maker_free \/ amounts.coins = taker_free
               /\ ~is_market_buy(taker) =>
                      /\ amounts.assets <= taker_free
                      /\ amounts.assets \in {maker_free, taker_free}
<1> DEFINE a == calc_asset_amount(taker_free, price, precision)
           amounts == amounts_of(taker, taker_free, maker_free, price, precision)
<1>1. a \in Nat
    BY DivideNat DEF calc_asset_amount
<1>2. CASE ~is_market_buy(taker)
    BY <1>2 DEF amounts_of, Min2
<1>3. CASE is_market_buy(taker) /\ a <= maker_free
  <2>1. takes_all_coins(taker, taker_free, maker_free, price, precision)
      BY <1>3 DEF takes_all_coins
  <2>2. amounts.assets = Min2(a, maker_free) /\ amounts.coins = taker_free
      BY <1>3, <2>1 DEF amounts_of
  <2>. HIDE DEF amounts, a
  <2>3. amounts.assets <= maker_free
      BY <1>1, <1>3, <2>2 DEF Min2
  <2>. QED BY <1>3, <2>2, <2>3 DEF amounts
<1>4. CASE is_market_buy(taker) /\ ~(a <= maker_free)
  <2>1. ~takes_all_coins(taker, taker_free, maker_free, price, precision)
      BY <1>4 DEF takes_all_coins
  <2>2. /\ amounts.assets = Min2(a, maker_free)
        /\ amounts.coins = calc_coin_amount(amounts.assets, price, precision)
      BY <1>4, <2>1 DEF amounts_of
  <2>3. Min2(a, maker_free) = maker_free
    <3>. HIDE DEF a
    <3>. QED BY <1>1, <1>4 DEF Min2
  <2>4. maker_free < a
    <3>. HIDE DEF a
    <3>. QED BY <1>1, <1>4
  <2>5. calc_coin_amount(maker_free, price, precision) <= taker_free
      BY <2>4, CoinsCover
  <2>. HIDE DEF amounts, a
  <2>. QED BY <1>4, <2>2, <2>3, <2>5 DEF amounts
<1>. QED BY <1>2, <1>3, <1>4

\* calc_match_fee: a fee is less than the positive quantity it is taken from, at
\* every ratio the contract accepts.  Its CHECK can fail only by overflow.
THEOREM FeeBelowQuantity ==
    ASSUME NEW ratio \in Nat, validate_fee_ratio(ratio), NEW quant \in Nat \ {0}
    PROVE  /\ calc_match_fee(ratio, quant) \in Nat
           /\ calc_match_fee(ratio, quant) < quant
<1> DEFINE num == 10 * quant * ratio
           t == num \div RATIO_PRECISION
<1>1. 2 * ratio + 1 <= RATIO_PRECISION
    BY RatioAssumption DEF validate_fee_ratio
<1>2. num \in Nat /\ t \in Nat /\ RATIO_PRECISION * t <= num
    BY ProductNat, DivNat, RatioAssumption
<1>3. 2 * num < 10 * quant * RATIO_PRECISION
  <2>1. 2 * num = (10 * quant) * (2 * ratio)
    OBVIOUS
  <2>2. (10 * quant) * (2 * ratio) < (10 * quant) * RATIO_PRECISION
    BY <1>1, RatioAssumption
  <2>. QED BY <2>1, <2>2
<1>4. t < 5 * quant
  <2>1. RATIO_PRECISION * (2 * t) < RATIO_PRECISION * (10 * quant)
    BY <1>2, <1>3, RatioAssumption
  <2>. HIDE DEF t
  <2>2. 2 * t < 10 * quant
    BY <2>1, <1>2, RatioAssumption
  <2>. QED BY <2>2, <1>2
<1>5. calc_match_fee(ratio, quant) = (t + 5) \div 10
    BY DEF calc_match_fee, multiply_decimal, round_last_digit
<1>. HIDE DEF t
<1>. QED BY <1>2, <1>4, <1>5

----------------------------------------------------------------------------
(* Results that fit 64 bits *)

LEMMA ProductMonotone ==
    ASSUME NEW a \in Nat, NEW b \in Nat, NEW c \in Nat, a <= b
    PROVE  c * a <= c * b
<1>1. b - a \in Nat /\ b = a + (b - a)
    OBVIOUS
<1>2. c * (b - a) \in Nat /\ c * b = c * a + c * (b - a)
    BY <1>1, ProductNat
<1>. QED BY <1>2, ProductNat

LEMMA DivMonotone ==
    ASSUME NEW x \in Nat, NEW y \in Nat, NEW p \in Nat \ {0}, x <= y
    PROVE  x \div p <= y \div p
<1> DEFINE u == x \div p
           v == y \div p
<1>1. /\ u \in Nat /\ v \in Nat /\ p * u <= x /\ y < p * (v + 1)
    BY DivNat
<1>. HIDE DEF u, v
<1>2. p * u < p * (v + 1)
    BY <1>1, ProductNat
<1>3. ~(v + 1 <= u)
    BY <1>1, <1>2, ProductMonotone, ProductNat
<1>. QED BY <1>1, <1>3 DEF u, v

\* A product of smaller factors fits as well.
LEMMA SmallerFits ==
    ASSUME NEW a \in Nat, NEW b \in Nat, NEW x \in Nat, NEW y \in Nat, a <= x, b <= y,
           NEW p \in Nat \ {0}, multiply_fits(x, y, p)
    PROVE  multiply_fits(a, b, p)
<1>1. a * b <= x * y
  <2>1. a * b <= a * y
      BY ProductMonotone
  <2>2. y * a <= y * x
      BY ProductMonotone
  <2>. QED BY <2>1, <2>2, ProductNat
<1>2. a * b \in Nat /\ x * y \in Nat /\ 10 * a * b = 10 * (a * b) /\ 10 * x * y = 10 * (x * y)
    BY ProductNat
<1>3. (10 * a * b) \div p <= (10 * x * y) \div p
    BY <1>1, <1>2, DivMonotone
<1>4. (10 * a * b) \div p \in Nat /\ (10 * x * y) \div p \in Nat
    BY <1>2, DivNat
<1>. QED BY <1>3, <1>4, Int64Assumption DEF multiply_fits

LEMMA QuotientFits ==
    ASSUME NEW a \in Nat, NEW x \in Nat, a <= x, NEW b \in Nat \ {0}, NEW p \in Nat \ {0},
           divide_fits(x, 1, p)
    PROVE  divide_fits(a, b, p)
<1>1. 10 * a * p \in Nat /\ 10 * x * p \in Nat /\ 10 * a * p <= 10 * x * p
  <2>1. p * a <= p * x
      BY ProductMonotone
  <2>2. 10 * a * p = 10 * (p * a) /\ 10 * x * p = 10 * (p * x)
      BY ProductNat
  <2>. QED BY <2>1, <2>2, ProductNat
<1> DEFINE n == 10 * a * p
           m == 10 * x * p
           q == n \div b
<1>2. q \in Nat /\ b * q <= n
    BY <1>1, DivNat
<1>3. m \div 1 = m
    BY <1>1
<1>. HIDE DEF n, m, q
<1>4. q <= b * q
  <2>1. q * 1 <= q * b
      BY <1>2, ProductMonotone
  <2>. QED BY <1>2, <2>1, ProductNat
<1>5. m <= Int64Max
    BY <1>3 DEF divide_fits, m
<1>6. n \in Nat /\ m \in Nat /\ n <= m /\ b * q \in Nat
    BY <1>1, <1>2, ProductNat DEF n, m
<1>7. q <= Int64Max
    BY <1>2, <1>4, <1>5, <1>6, Int64Assumption
<1>. QED BY <1>7 DEF divide_fits, q, n

\* The product of a fee is at most five times the quantity.
LEMMA FeeFits ==
    ASSUME NEW quant \in Nat, NEW ratio \in Nat, validate_fee_ratio(ratio), 5 * quant <= Int64Max
    PROVE  multiply_fits(quant, ratio, RATIO_PRECISION)
<1> DEFINE num == 10 * quant * ratio
           t == num \div RATIO_PRECISION
<1>1. 2 * ratio <= RATIO_PRECISION /\ RATIO_PRECISION \in Nat \ {0}
    BY RatioAssumption DEF validate_fee_ratio
<1>2. num \in Nat /\ t \in Nat /\ RATIO_PRECISION * t <= num
    BY <1>1, ProductNat, DivNat
<1>3. num <= RATIO_PRECISION * (5 * quant)
  <2>1. (5 * quant) * (2 * ratio) <= (5 * quant) * RATIO_PRECISION
      BY <1>1, ProductMonotone
  <2>2. num = (5 * quant) * (2 * ratio)
      OBVIOUS
  <2>3. (5 * quant) * RATIO_PRECISION = RATIO_PRECISION * (5 * quant)
      BY <1>1
  <2>. QED BY <2>1, <2>2, <2>3
<1>. HIDE DEF num, t
<1>4. ~(5 * quant + 1 <= t)
  <2>1. SUFFICES ASSUME 5 * quant + 1 <= t PROVE FALSE
      OBVIOUS
  <2>2. RATIO_PRECISION * (5 * quant + 1) <= RATIO_PRECISION * t
      BY <1>1, <1>2, <2>1, ProductMonotone
  <2>3. RATIO_PRECISION * (5 * quant + 1) = RATIO_PRECISION * (5 * quant) + RATIO_PRECISION
      BY <1>1
  <2>4. RATIO_PRECISION * (5 * quant) \in Nat /\ RATIO_PRECISION * t \in Nat
      BY <1>1, <1>2, ProductNat
  <2>. QED BY <1>1, <1>2, <1>3, <2>2, <2>3, <2>4
<1>5. t <= Int64Max
    BY <1>2, <1>4, Int64Assumption
<1>. QED BY <1>5 DEF multiply_fits, t, num

\* So does the product of a fee on the coins of a deal, when the product of the deal does.
LEMMA CoinFeeFits ==
    ASSUME NEW assets \in Nat, NEW price \in Nat, NEW precision \in Nat \ {0},
           multiply_fits(assets, price, precision),
           NEW ratio \in Nat, validate_fee_ratio(ratio),
           calc_coin_amount(assets, price, precision) # 0
    PROVE  multiply_fits(calc_coin_amount(assets, price, precision), ratio, RATIO_PRECISION)
<1> DEFINE tmp == (10 * assets * price) \div precision
           coins == calc_coin_amount(assets, price, precision)
<1>1. tmp \in Nat /\ tmp <= Int64Max
    BY ProductNat, DivNat DEF multiply_fits
<1>2. coins = (tmp + 5) \div 10
    BY DEF calc_coin_amount, multiply_decimal, round_last_digit
<1>. HIDE DEF tmp, coins
<1>3. coins \in Nat /\ 10 * coins <= tmp + 5
    BY <1>1, <1>2, DivNat
<1>4. coins # 0
    BY DEF coins
<1>5. 5 * coins <= Int64Max
    BY <1>1, <1>3, <1>4, Int64Assumption
<1>6. multiply_fits(coins, ratio, RATIO_PRECISION)
    BY <1>3, <1>5, FeeFits
<1>. QED BY <1>6 DEF coins

----------------------------------------------------------------------------
(* Prices that need no rounding *)

\* At a price of a whole number of coins per smallest unit, the cost is exact.
LEMMA WholeCost ==
    ASSUME NEW a \in Nat, NEW price \in Nat, NEW precision \in Nat \ {0}, price % precision = 0
    PROVE  /\ price \div precision \in Nat
           /\ calc_coin_amount(a, price, precision) = a * (price \div precision)
<1> DEFINE k == price \div precision
           m == a * k
           t == (10 * a * price) \div precision
<1>1. k \in Nat /\ price = precision * k
    OBVIOUS
<1>. HIDE DEF k
<1>2. m \in Nat /\ 10 * a * price \in Nat
    BY <1>1, ProductNat
<1>3. 10 * a * price = precision * (10 * m)
  <2>1. 10 * a * (precision * k) = precision * (10 * (a * k))
      BY <1>1
  <2>. QED BY <1>1, <2>1
<1>4. t \in Nat /\ precision * t <= precision * (10 * m) /\ precision * (10 * m) < precision * (t + 1)
    BY <1>2, <1>3, DivNat
<1>5. calc_coin_amount(a, price, precision) = (t + 5) \div 10
    BY DEF calc_coin_amount, multiply_decimal, round_last_digit
<1>. HIDE DEF m, t
<1>6. t = 10 * m
  <2>1. precision * t \in Nat /\ precision * (10 * m) \in Nat /\ precision * (t + 1) \in Nat
      BY <1>2, <1>4, ProductNat
  <2>2. ~(10 * m + 1 <= t)
    <3>1. SUFFICES ASSUME 10 * m + 1 <= t PROVE FALSE
        OBVIOUS
    <3>2. precision * (10 * m + 1) <= precision * t
        BY <1>2, <1>4, <3>1, ProductMonotone
    <3>3. precision * (10 * m + 1) = precision * (10 * m) + precision
        BY <1>2
    <3>. QED BY <1>4, <2>1, <3>2, <3>3
  <2>3. ~(t + 1 <= 10 * m)
      BY <1>2, <1>4, <2>1, ProductMonotone
  <2>. QED BY <1>2, <1>4, <2>2, <2>3
<1>7. (t + 5) \div 10 = m
    BY <1>2, <1>6
<1>. QED BY <1>1, <1>5, <1>7 DEF m, k

\* More assets cost more, and assets bought apart and cheaper do not cost more.
LEMMA WholeCosts ==
    ASSUME NEW a \in Nat, NEW b \in Nat, NEW price \in Nat, NEW lower \in Nat, lower <= price,
           NEW precision \in Nat \ {0}, price % precision = 0, lower % precision = 0
    PROVE  LET cost(n) == calc_coin_amount(n, price, precision) IN
           /\ cost(a) \in Nat /\ cost(b) \in Nat /\ cost(a + b) \in Nat
           /\ calc_coin_amount(b, lower, precision) \in Nat
           /\ cost(a) <= cost(a + b)
           /\ cost(a) + calc_coin_amount(b, lower, precision) <= cost(a + b)
<1> DEFINE k == price \div precision
           l == lower \div precision
<1>1. /\ k \in Nat /\ l \in Nat /\ l <= k
    BY WholeCost, DivMonotone
<1>2. /\ calc_coin_amount(a, price, precision) = a * k
      /\ calc_coin_amount(b, price, precision) = b * k
      /\ calc_coin_amount(a + b, price, precision) = (a + b) * k
      /\ calc_coin_amount(b, lower, precision) = b * l
  <2>1. a + b \in Nat
      OBVIOUS
  <2>2. calc_coin_amount(a, price, precision) = a * k
      BY WholeCost
  <2>3. calc_coin_amount(b, price, precision) = b * k
      BY WholeCost
  <2>4. calc_coin_amount(a + b, price, precision) = (a + b) * k
      BY <2>1, WholeCost
  <2>5. calc_coin_amount(b, lower, precision) = b * l
      BY WholeCost
  <2>. QED BY <2>2, <2>3, <2>4, <2>5
<1>. HIDE DEF k, l
<1>3. a * k \in Nat /\ b * k \in Nat /\ b * l \in Nat /\ b * l <= b * k
    BY <1>1, ProductNat, ProductMonotone
<1>4. (a + b) * k = a * k + b * k
    BY <1>1
<1>. QED BY <1>2, <1>3, <1>4
==============================================================================
