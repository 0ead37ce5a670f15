---------------------------- MODULE FmtDragonbox ----------------------------
(***************************************************************************)
(* fmt: to_decimal(), the shortest decimal of a floating-point number, and *)
(* the first digits of one.  Multiplication by a power of ten is exact,    *)
(* where the code takes the power from a table and cuts the product.       *)
(***************************************************************************)
EXTENDS Integers, Sequences

(* A number f * 2^e by its fields; field has these bits.  Of a normal      *)
(* number f has a further bit, 1, which only some types store.             *)
num_significand_bits == 4
exponent_bias == 12
max_exponent == 23   \* of finite numbers
Hidden == 2^num_significand_bits

floor_log10_pow2(e) == (e * 315653) \div 2^20
floor_log2_pow10(e) == (e * 1741647) \div 2^19
floor_log10_pow2_minus_log10_4_over_3(e) == (e * 631305 - 261663) \div 2^21

(* n * 2^e * 10^k as a fraction: its floor, and whether it is an integer.  *)
Pow(base, exp) == IF exp > 0 THEN base^exp ELSE 1
Scaled(n, e, k) ==
  LET num == n * Pow(2, e + k) * Pow(5, k)
      den == Pow(2, -(e + k)) * Pow(5, -k)
  IN  [floor |-> num \div den, is_integer |-> num % den = 0]

(* Replaces n by n / 10^N; whether nothing is left.                        *)
check_divisibility_and_divide_by_pow10(n, N) ==
  LET magic_number == 2^16 \div 10^N + 1
  IN  [quotient |-> (n * magic_number) \div 2^16, divisible |-> (n * magic_number) % 2^16 < magic_number]

(* Division by 25 and 5 is by their inverses, in 12 bits: the product is   *)
(* small after rotation if there is nothing left.                          *)
CarrierBits == 12
Carrier == 2^CarrierBits
mod_inv_5 == CHOOSE i \in 0..(Carrier - 1) : (5 * i) % Carrier = 1
mod_inv_25 == (mod_inv_5 * mod_inv_5) % Carrier
rotr(n, r) == n \div 2^r + (n % 2^r) * 2^(CarrierBits - r)

RECURSIVE remove_trailing_zeros(_, _)
remove_trailing_zeros(n, s) ==
  LET by100 == rotr((n * mod_inv_25) % Carrier, 2)
      by10 == rotr((n * mod_inv_5) % Carrier, 1)
  IN  CASE by100 <= (Carrier - 1) \div 100 -> remove_trailing_zeros(by100, s + 2)
        [] by100 > (Carrier - 1) \div 100 /\ by10 <= (Carrier - 1) \div 10 -> [significand |-> by10, zeros |-> s + 1]
        [] OTHER -> [significand |-> n, zeros |-> s]
WithoutZeros(significand, exponent) ==
  LET r == remove_trailing_zeros(significand, 0) IN [significand |-> r.significand, exponent |-> exponent + r.zeros]

-----------------------------------------------------------------------------
(* A power of two: the number below is closer.                             *)
is_left_endpoint_integer_shorter_interval(exponent) == exponent \in 2..3
shorter_interval_tie == -8  \* the exponent at which half of y is an integer, for these bits

shorter_interval_case(exponent) ==
  LET minus_k == floor_log10_pow2_minus_log10_4_over_3(exponent)
      left == Scaled(4 * Hidden - 1, exponent - 2, -minus_k).floor
      xi == IF is_left_endpoint_integer_shorter_interval(exponent) THEN left ELSE left + 1
      zi == Scaled(2 * Hidden + 1, exponent - 1, -minus_k).floor
      y == (Scaled(2 * Hidden, exponent, -minus_k).floor + 1) \div 2
      round_up == CASE exponent = shorter_interval_tie -> IF y % 2 = 0 THEN y ELSE y - 1
                    [] exponent # shorter_interval_tie /\ y < xi -> y + 1
                    [] OTHER -> y
  IN  IF (zi \div 10) * 10 >= xi THEN WithoutZeros(zi \div 10, minus_k + 1)
      ELSE [significand |-> round_up, exponent |-> minus_k]

(* From the larger divisor, 10^(kappa + 1), to the smaller one.            *)
SmallDivisor(significand, r, deltai, minus_k, y_mul, kappa) ==
  LET dist == r - deltai \div 2 + 10^kappa \div 2
      approx_y_parity == (dist + 10^kappa \div 2) % 2
      d == check_divisibility_and_divide_by_pow10(dist, kappa)
      s == significand * 10 + d.quotient
      less == d.divisible /\ (y_mul.floor % 2 # approx_y_parity \/ (y_mul.is_integer /\ s % 2 # 0))
  IN  [significand |-> IF less THEN s - 1 ELSE s, exponent |-> minus_k + kappa]

(* Mutant: the right end always belongs to the interval.                   *)
RightEndIncluded(z_mul, included) == FALSE

ExcludesRightEnd(z_mul, included) == z_mul.is_integer /\ ~included

RegularInterval(significand, exponent, kappa) ==
  LET included == significand % 2 = 0
      minus_k == floor_log10_pow2(exponent) - kappa
      Mul(two_f) == Scaled(two_f, exponent - 1, -minus_k)
      deltai == Scaled(1, exponent, -minus_k).floor
      z_mul == Mul(2 * significand + 1)
      x_mul == Mul(2 * significand - 1)
      big == 10^(kappa + 1)
      quotient == z_mul.floor \div big
      r == z_mul.floor % big
      at_end == r = 0 /\ ExcludesRightEnd(z_mul, included)
      larger == \/ r < deltai /\ ~at_end
                \/ r = deltai /\ (x_mul.floor % 2 = 1 \/ (x_mul.is_integer /\ included))
      small(s, rest) == SmallDivisor(s, rest, deltai, minus_k, Mul(2 * significand), kappa)
  IN  CASE larger -> WithoutZeros(quotient, minus_k + kappa + 1)
        [] ~larger /\ r < deltai -> small(quotient - 1, big)
        [] ~larger /\ r >= deltai -> small(quotient, r)

to_decimal(n, kappa) ==
  LET exponent == (IF n.biased = 0 THEN 1 ELSE n.biased) - exponent_bias - num_significand_bits
  IN  CASE n.biased # 0 /\ n.field = 0 -> shorter_interval_case(exponent)
        [] n.biased # 0 /\ n.field # 0 -> RegularInterval(n.field + Hidden, exponent, kappa)
        [] n.biased = 0 /\ n.field = 0 -> [significand |-> 0, exponent |-> 0]
        [] n.biased = 0 /\ n.field # 0 -> RegularInterval(n.field, exponent, kappa)
=============================================================================
