----------------------------- MODULE FmtBigint ------------------------------
(***************************************************************************)
(* fmt: bigint, and format_dragon(), which writes a floating-point number  *)
(* f * 2^e in decimal with it.  A bigit has 4 bits, 32 in the code.        *)
(***************************************************************************)
EXTENDS Integers, Sequences, SequencesExt

bigit_bits == 4
B == 2^bigit_bits

(* Bigits, the lowest first, times B^exp.                                  *)
Big(n) == LET digits[m \in 0..n] == <<m % B>> \o (IF m < B THEN <<>> ELSE digits[m \div B])
          IN  [bigits |-> digits[n], exp |-> 0]

num_bigits(b) == Len(b.bigits) + b.exp
get_bigit(b, i) == IF i >= b.exp /\ i < num_bigits(b) THEN b.bigits[i - b.exp + 1] ELSE 0

remove_leading_zeros(bigits) ==
  SubSeq(bigits, 1, CHOOSE n \in DOMAIN bigits : (n = 1 \/ bigits[n] # 0) /\ \A i \in (n + 1)..Len(bigits) : bigits[i] = 0)

(* A pass over bigits from the lowest, with a carry or a borrow: the step  *)
(* gives the bigit and what is carried.                                    *)
Pass(bigits, step(_, _)) ==
  FoldLeft(LAMBDA acc, bigit : LET s == step(bigit, acc.carry) IN [bigits |-> Append(acc.bigits, s.bigit), carry |-> s.carry],
           [bigits |-> <<>>, carry |-> 0], bigits)

(* *this -= other, aligned: what is over the other takes the borrow.       *)
subtract_aligned(b, other) ==
  LET paired == [i \in DOMAIN b.bigits |-> <<b.bigits[i], get_bigit(other, i - 1 + b.exp)>>]
      pass == Pass(paired, LAMBDA p, borrow : [bigit |-> (p[1] - p[2] - borrow) % B,
                                               carry |-> IF p[1] - p[2] - borrow < 0 THEN 1 ELSE 0])
  IN  [b EXCEPT !.bigits = remove_leading_zeros(pass.bigits)]

RECURSIVE Carried(_)
Carried(carry) == IF carry = 0 THEN <<>> ELSE <<carry % B>> \o Carried(carry \div B)

multiply(b, value) ==
  LET pass == Pass(b.bigits, LAMBDA bigit, carry : [bigit |-> (bigit * value + carry) % B, carry |-> (bigit * value + carry) \div B])
  IN  [b EXCEPT !.bigits = pass.bigits \o (IF pass.carry = 0 THEN <<>> ELSE <<pass.carry>>)]

(* By a value of two halves, each of one or two bigits.                    *)
multiply_halves(b, value, half) ==
  LET lower == value % B^half
      upper == value \div B^half
      step(bigit, carry) ==
        LET result == lower * bigit + (carry % B)
        IN  [bigit |-> result % B, carry |-> upper * bigit * B^(half - 1) + result \div B + carry \div B]
      pass == Pass(b.bigits, step)
  IN  [b EXCEPT !.bigits = pass.bigits \o Carried(pass.carry)]

ShiftLeft(b, shift) ==
  LET bits == shift % bigit_bits
      step(bigit, carry) == [bigit |-> ((bigit * 2^bits) % B) + carry, carry |-> bigit \div 2^(bigit_bits - bits)]
      pass == Pass(b.bigits, step)
  IN  [exp |-> b.exp + shift \div bigit_bits,
       bigits |-> IF bits = 0 THEN b.bigits ELSE pass.bigits \o (IF pass.carry = 0 THEN <<>> ELSE <<pass.carry>>)]

Sign(n) == CASE n > 0 -> 1 [] n < 0 -> -1 [] n = 0 -> 0

(* From the highest bigits down to the end of one of the numbers.          *)
compare(b1, b2) ==
  LET n1 == Len(b1.bigits)  n2 == Len(b2.bigits)
      shared == 0..((IF n1 < n2 THEN n1 ELSE n2) - 1)
      differ == {k \in shared : b1.bigits[n1 - k] # b2.bigits[n2 - k]}
      k == CHOOSE m \in differ : \A n \in differ : m <= n
  IN  CASE num_bigits(b1) # num_bigits(b2) -> Sign(num_bigits(b1) - num_bigits(b2))
        [] num_bigits(b1) = num_bigits(b2) /\ differ # {} -> Sign(b1.bigits[n1 - k] - b2.bigits[n2 - k])
        [] OTHER -> Sign(n1 - n2)

RECURSIVE AddCompareFrom(_, _, _, _, _, _)
AddCompareFrom(lhs1, lhs2, rhs, i, min_exp, borrow) ==
  LET sum == get_bigit(lhs1, i) + get_bigit(lhs2, i)
      left == get_bigit(rhs, i) + borrow - sum
  IN  CASE i < min_exp -> IF borrow # 0 THEN -1 ELSE 0
        [] i >= min_exp /\ left < 0 -> 1
        [] i >= min_exp /\ left > 1 -> -1
        [] OTHER -> AddCompareFrom(lhs1, lhs2, rhs, i - 1, min_exp, left * B)

(* compare(lhs1 + lhs2, rhs)                                               *)
add_compare(lhs1, lhs2, rhs) ==
  LET larger == IF num_bigits(lhs1) > num_bigits(lhs2) THEN num_bigits(lhs1) ELSE num_bigits(lhs2)
      min_exp == CHOOSE e \in {lhs1.exp, lhs2.exp, rhs.exp} : \A d \in {lhs1.exp, lhs2.exp, rhs.exp} : e <= d
  IN  CASE larger + 1 < num_bigits(rhs) -> -1
        [] larger > num_bigits(rhs) -> 1
        [] OTHER -> AddCompareFrom(lhs1, lhs2, rhs, num_bigits(rhs) - 1, min_exp, 0)

(* Each bigit from the products of bigits whose places add up to its own.  *)
square(b) ==
  LET n == Len(b.bigits)
      products(k) == FoldLeft(LAMBDA sum, i : sum + (IF k - i \in 0..(n - 1) THEN b.bigits[i + 1] * b.bigits[k - i + 1] ELSE 0),
                              0, [i \in 1..n |-> i - 1])
      pass == Pass([k \in 1..(2 * n) |-> products(k - 1)],
                   LAMBDA product, sum : [bigit |-> (sum + product) % B, carry |-> (sum + product) \div B])
  IN  [bigits |-> remove_leading_zeros(pass.bigits), exp |-> 2 * b.exp]

(* 10^exp as 5^exp by squaring, from the highest bit of exp, and a shift.  *)
RECURSIVE Pow5(_)
Pow5(exp) ==
  IF exp = 1 THEN Big(5)
  ELSE LET s == square(Pow5(exp \div 2)) IN IF exp % 2 = 1 THEN multiply(s, 5) ELSE s
assign_pow10(exp) == IF exp = 0 THEN Big(1) ELSE ShiftLeft(Pow5(exp), exp)

align(b, other) ==
  IF b.exp <= other.exp THEN b
  ELSE [bigits |-> [i \in 1..(b.exp - other.exp) |-> 0] \o b.bigits, exp |-> other.exp]

RECURSIVE DivideFrom(_, _, _)
DivideFrom(b, divisor, quotient) ==
  LET left == subtract_aligned(b, divisor)
  IN  IF compare(left, divisor) >= 0 THEN DivideFrom(left, divisor, quotient + 1)
      ELSE [quotient |-> quotient + 1, rest |-> left]
divmod_assign(b, divisor) ==
  IF compare(b, divisor) < 0 THEN [quotient |-> 0, rest |-> b] ELSE DivideFrom(align(b, divisor), divisor, 0)

-----------------------------------------------------------------------------
(* The fraction that format_dragon() works on: the number is numerator /   *)
(* denominator * 10^exp, the next numbers are upper above and lower below. *)
Fraction(value, exp10, closer) ==
  LET shift == IF closer THEN 2 ELSE 1
      twice(lower) == IF closer THEN ShiftLeft(lower, 1) ELSE lower
      numerator == ShiftLeft(Big(value.f), shift)
      pow == assign_pow10(-exp10)
      lower == ShiftLeft(Big(1), value.e)
  IN  CASE value.e >= 0 ->
             [numerator |-> ShiftLeft(Big(value.f), value.e + shift), lower |-> lower, upper |-> twice(lower),
              denominator |-> ShiftLeft(assign_pow10(exp10), shift)]
        [] value.e < 0 /\ exp10 < 0 ->
             [numerator |-> ShiftLeft(multiply_halves(pow, value.f, 2), shift), lower |-> pow, upper |-> twice(pow),
              denominator |-> ShiftLeft(Big(1), shift - value.e)]
        [] value.e < 0 /\ exp10 >= 0 ->
             [numerator |-> numerator, lower |-> Big(1), upper |-> twice(Big(1)),
              denominator |-> ShiftLeft(assign_pow10(exp10), shift - value.e)]

TimesTen(r) == [r EXCEPT !.numerator = multiply(@, 10)]
AllTimesTen(r) == [TimesTen(r) EXCEPT !.lower = multiply(@, 10), !.upper = multiply(@, 10)]

(* The shortest: digits up to the first that is in the interval, nearer    *)
(* one of two; even_ is 1 if its ends belong to it.                        *)
RECURSIVE ShortestFrom(_, _, _)
ShortestFrom(r, even_, digits) ==
  LET d == divmod_assign(r.numerator, r.denominator)
      low == compare(d.rest, r.lower) - even_ < 0
      high == add_compare(d.rest, r.upper, r.denominator) + even_ > 0
      half == add_compare(d.rest, d.rest, r.denominator)
      up == high /\ (~low \/ half > 0 \/ (half = 0 /\ d.quotient % 2 # 0))
  IN  IF low \/ high THEN Append(digits, IF up THEN d.quotient + 1 ELSE d.quotient)
      ELSE ShortestFrom(AllTimesTen([r EXCEPT !.numerator = d.rest]), even_, Append(digits, d.quotient))

(* So many digits, with what is left after the last one.                   *)
RECURSIVE GivenDigits(_, _, _)
GivenDigits(r, n, digits) ==
  LET d == divmod_assign(r.numerator, r.denominator)
      rest == [r EXCEPT !.numerator = d.rest]
  IN  IF n = 1 THEN [digits |-> Append(digits, d.quotient), rest |-> rest]
      ELSE GivenDigits(TimesTen(rest), n - 1, Append(digits, d.quotient))

(* One is added to the last digit and carried.  If no digit is left to     *)
(* take it, the first is one: with a digit more, or another exponent.      *)
RECURSIVE RoundUp(_)
RoundUp(digits) ==
  IF Last(digits) < 9 \/ Len(digits) = 1 THEN Append(Front(digits), Last(digits) + 1)
  ELSE Append(RoundUp(Front(digits)), 0)
RoundedUp(digits, exp, fixed) ==
  LET up == RoundUp(digits)
  IN  CASE up[1] <= 9 -> [digits |-> up, exp |-> exp]
        [] up[1] > 9 /\ fixed -> [digits |-> Append([up EXCEPT ![1] = 1], 0), exp |-> exp]
        [] up[1] > 9 /\ ~fixed -> [digits |-> [up EXCEPT ![1] = 1], exp |-> exp + 1]

(* To the nearest, and a half to the even digit.                           *)
ShouldRoundUp(half, digit) == half > 0 \/ (half = 0 /\ digit % 2 # 0)

(* As many digits as are asked for, or the first one if there are none.    *)
Rounded(some, exp, flags) ==
  IF ShouldRoundUp(add_compare(some.rest.numerator, some.rest.numerator, some.rest.denominator), Last(some.digits))
  THEN RoundedUp(some.digits, exp, "fixed" \in flags)
  ELSE [digits |-> some.digits, exp |-> exp]
FirstDigit(r, n) ==
  IF n = 0 /\ add_compare(r.numerator, r.numerator, multiply(r.denominator, 10)) > 0 THEN 1 ELSE 0

AllDigits(digits, exp10) == [digits |-> digits, exp |-> exp10 - (Len(digits) - 1)]
DragonDigits(r, even_, flags, num_digits, exp10) ==
  LET n == IF {"fixup", "fixed"} \subseteq flags THEN num_digits + exp10 + 1 ELSE num_digits
  IN  CASE num_digits < 0 -> AllDigits(ShortestFrom(r, even_, <<>>), exp10)
        [] num_digits >= 0 /\ n <= 0 -> [digits |-> <<FirstDigit(r, n)>>, exp |-> exp10 - (n - 1)]
        [] OTHER -> Rounded(GivenDigits(r, n, <<>>), exp10 - (n - 1), flags)

(* The exponent is an estimate, and may be one too large.                  *)
TooLarge(r, even_) == add_compare(r.numerator, r.upper, r.denominator) + even_ <= 0
DragonFrom(estimate, even_, flags, num_digits, exp) ==
  LET lower == "fixup" \in flags /\ TooLarge(estimate, even_)
      r == CASE ~lower -> estimate [] lower /\ num_digits < 0 -> AllTimesTen(estimate)
             [] lower /\ num_digits >= 0 -> TimesTen(estimate)
  IN  DragonDigits(r, even_, flags, num_digits, IF lower THEN exp - 1 ELSE exp)

format_dragon(value, flags, num_digits, exp) ==
  DragonFrom(Fraction(value, exp, "predecessor_closer" \in flags), IF value.f % 2 = 0 THEN 1 ELSE 0, flags, num_digits, exp)
=============================================================================
