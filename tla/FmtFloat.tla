------------------------------ MODULE FmtFloat ------------------------------
(***************************************************************************)
(* fmt: floating-point numbers as text.  A number is [kind, negative,      *)
(* biased, field]: its exponent and fraction as stored.  Float and double  *)
(* have the sizes of FmtDragonbox; long double is longer and without a     *)
(* hidden bit, and takes format_dragon() where they take other ways.       *)
(***************************************************************************)
EXTENDS FmtInt, FmtBigint, FmtDragonbox

exp_upper == 3           \* min(16, digits10 + 1) in the code
max_double_digits == 12  \* 767 in the code: as many as the exact value of a double has
max_int == 20            \* stands for the largest int, as a precision

(* basic_fp::assign(): f * 2^e, and whether the predecessor is closer.     *)
implicit(n) == n.kind # "long"
bits(n) == IF implicit(n) THEN num_significand_bits ELSE 8
bias(n) == IF implicit(n) THEN exponent_bias ELSE 2
Fp(n) ==
  [f |-> n.field + (IF implicit(n) /\ n.biased # 0 THEN 2^bits(n) ELSE 0),
   e |-> (IF n.biased = 0 THEN 1 ELSE n.biased) - bias(n) - bits(n) + (IF implicit(n) THEN 0 ELSE 1),
   closer |-> n.field = 0 /\ n.biased > 1]

isfinite(n) == n.biased <= max_exponent
isnan(n) == ~isfinite(n) /\ n.field # 0

write_nonfinite(n, specs, sign) ==
  LET word == CASE isnan(n) -> (IF specs.upper THEN <<"N", "A", "N">> ELSE <<"n", "a", "n">>)
                [] ~isnan(n) -> (IF specs.upper THEN <<"I", "N", "F">> ELSE <<"i", "n", "f">>)
      text == getsign(sign) \o word
  IN  write_padded([specs EXCEPT !.fill = IF @ = <<"0">> THEN <<" ">> ELSE @], Len(text), text, "left")

-----------------------------------------------------------------------------
(* The first digits of a double, and whether there are more.  The code has *)
(* 18 or 19 here, of which it prints 9, 9 and 1; with these bits there are *)
(* 4 or 5, printed by 2, 2 and 1.                                          *)
Part == 2
SegmentDigits == 2 * Part + 1
kappa == 2

FirstSegment(n) ==
  LET fp == Fp(n)
      shift == num_significand_bits - Bsr(fp.f)  \* of a subnormal
      k == kappa - floor_log10_pow2(fp.e - shift)
      mul == Scaled(fp.f * 2^shift, fp.e - shift, k)
      full == mul.floor >= 10^(SegmentDigits - 1)
  IN  [digits |-> IF full THEN mul.floor ELSE mul.floor * 10, more |-> ~mul.is_integer, exp |-> -k,
       size |-> IF full THEN SegmentDigits ELSE SegmentDigits - 1]

(* Some digits of a part are printed, and the rest is a fraction of them.  *)
PrintedPart(part, number) ==
  LET all == [i \in 1..Part |-> (part \div 10^(Part - i)) % 10]
  IN  [digits |-> SubSeq(all, 1, number), rest |-> part % 10^(Part - number), unit |-> 10^(Part - number)]

Odd(digits) == Last(digits) % 2 = 1

(* should_round_up, inside of a part or, if all of it is printed, by what  *)
(* follows it, of which a half is so much.                                 *)
RoundsInside(p, follows) ==
  2 * p.rest > p.unit \/ (2 * p.rest >= p.unit /\ (Odd(p.digits) \/ follows))
RoundsAtEnd(p, next, half, follows) ==
  next > half \/ (next = half /\ (Odd(p.digits) \/ follows))

PrintSegment(s, precision) ==
  LET first == s.digits \div 10^(Part + 1)
      second_third == s.digits % 10^(Part + 1)
      second == second_third \div 10
      third == second_third % 10
      one == PrintedPart(first, IF precision < Part THEN precision ELSE Part)
      two == PrintedPart(second, precision - Part)
  IN  CASE precision < Part -> [digits |-> one.digits, up |-> RoundsInside(one, second_third # 0 \/ s.more)]
        [] precision = Part -> [digits |-> one.digits, up |-> RoundsAtEnd(one, second_third, 5 * 10^Part, s.more)]
        [] precision > Part /\ precision < 2 * Part ->
             [digits |-> one.digits \o two.digits, up |-> RoundsInside(two, third # 0 \/ s.more)]
        [] OTHER -> [digits |-> one.digits \o two.digits, up |-> RoundsAtEnd(two, third, 5, s.more)]

(* By the first digits, if there are more of them than the precision asks. *)
FormatBySegment(n, s, precision, fixed) ==
  LET printed == PrintSegment(s, precision)
      exp == s.exp + s.size - precision
      up == s.digits + (IF s.more THEN 1 ELSE 0) > 5 * 10^(SegmentDigits - 1)
  IN  CASE precision < 0 -> [digits |-> <<>>, exp |-> s.exp + s.size]
        [] precision = 0 -> [digits |-> <<IF up THEN 1 ELSE 0>>, exp |-> s.exp + s.size]
        [] precision > 0 -> IF printed.up THEN RoundedUp(printed.digits, exp, fixed)
                            ELSE [digits |-> printed.digits, exp |-> exp]

(* Or by format_dragon(), from this exponent or, for a long, an estimate   *)
(* by the logarithm that may be one too large.                             *)
DragonFlags(n, fixed) ==
  (IF Fp(n).closer THEN {"predecessor_closer"} ELSE {}) \cup (IF fixed THEN {"fixed"} ELSE {})
    \cup (IF n.kind = "long" THEN {"fixup"} ELSE {})
Estimate(fp) == -((-((fp.e + Bsr(fp.f)) * 30103)) \div 100000)

WithoutTrailing(d, keep) ==
  LET size == IF keep THEN Len(d.digits)
              ELSE CHOOSE k \in 0..Len(d.digits) :
                     (k = 0 \/ d.digits[k] # 0) /\ \A i \in (k + 1)..Len(d.digits) : d.digits[i] = 0
  IN  [digits |-> SubSeq(d.digits, 1, size), exp |-> d.exp + Len(d.digits) - size]

(* adjust_precision(): a fixed precision is after the point; it throws if  *)
(* the sum is no int.  For a long format_dragon() does it, of a precision  *)
(* that is limited before, and cannot throw.                               *)
CannotAdjust(precision, exp10) == exp10 > 0 /\ precision > max_int - exp10
Limited(precision) == IF precision > max_double_digits THEN max_double_digits ELSE precision

FormatDigits(n, s, precision, fixed) ==
  LET wanted == IF fixed /\ n.kind # "long" THEN precision + s.exp + s.size ELSE precision
  IN  IF n.kind # "long" /\ s.size > wanted THEN FormatBySegment(n, s, wanted, fixed)
      ELSE format_dragon(Fp(n), DragonFlags(n, fixed), Limited(wanted),
                         IF n.kind = "long" THEN Estimate(Fp(n)) ELSE s.exp + s.size - 1)

format_float(n, precision, specs) ==
  LET fixed == specs.type = "fixed"
  IN  IF Fp(n).f = 0
      THEN IF precision <= 0 \/ ~fixed THEN [digits |-> <<0>>, exp |-> 0]
           ELSE [digits |-> [i \in 1..precision |-> 0], exp |-> -precision]
      ELSE WithoutTrailing(FormatDigits(n, FirstSegment(n), precision, fixed), fixed \/ specs.alt)

-----------------------------------------------------------------------------
(* "[+-]d{2,4}", by pairs of digits.                                       *)
write_exponent(exp) ==
  LET abs == IF exp < 0 THEN -exp ELSE exp
      top == digits2(abs \div 100)
  IN  <<IF exp < 0 THEN "-" ELSE "+">>
        \o (CASE abs >= 1000 -> top [] abs \in 100..999 -> <<top[2]>> [] OTHER -> <<>>) \o digits2(abs % 100)

Zeros(n) == Repeat(<<"0">>, n)
Text(digits) == [i \in DOMAIN digits |-> Lower[digits[i] + 1]]
ExpFormat(significand, specs, sign, output_exp, point) ==
  LET size == Len(significand)
      num_zeros == IF specs.alt /\ specs.precision > size THEN specs.precision - size ELSE 0
      dot == IF specs.alt \/ size # 1 THEN point ELSE <<>>
  IN  getsign(sign) \o SubSeq(significand, 1, 1) \o dot \o SubSeq(significand, 2, size) \o Zeros(num_zeros)
        \o <<IF specs.upper THEN "E" ELSE "e">> \o write_exponent(output_exp)

(* 1234e5 -> 123400000[.0+], 1234e-2 -> 12.34[0+], 1234e-6 -> 0.001234     *)
FixedFormat(significand, exponent, specs, sign, point, loc) ==
  LET size == Len(significand)
      exp == exponent + size
      zeros == IF exp < 0 THEN -exp ELSE 0
      first == IF size = 0 /\ specs.precision >= 0 /\ specs.precision < zeros THEN specs.precision ELSE zeros
      grouped(digits) == IF specs.localized THEN apply(loc, digits) ELSE digits
      asked(has) == IF specs.alt /\ specs.precision > has THEN specs.precision - has ELSE 0
  IN  CASE exponent >= 0 -> getsign(sign) \o grouped(significand \o Zeros(exponent))
                              \o (IF specs.alt THEN point ELSE <<>>) \o Zeros(asked(exp))
        [] exponent < 0 /\ exp > 0 -> getsign(sign) \o grouped(SubSeq(significand, 1, exp)) \o point
                                        \o SubSeq(significand, exp + 1, size) \o Zeros(asked(size))
        [] OTHER -> getsign(sign) \o <<"0">>
                      \o (IF first # 0 \/ size # 0 \/ specs.alt THEN point \o Zeros(first) \o significand ELSE <<>>)

use_exp_format(output_exp, specs) ==
  \/ specs.type = "exp"
  \/ specs.type # "fixed" /\ (output_exp < -4 \/ output_exp >= (IF specs.precision > 0 THEN specs.precision ELSE exp_upper))

do_write_float(significand, exponent, specs, sign, loc) ==
  LET point == IF specs.localized THEN loc.point ELSE <<".">>
      output_exp == exponent + Len(significand) - 1
      text == IF use_exp_format(output_exp, specs) THEN ExpFormat(significand, specs, sign, output_exp, point)
              ELSE FixedFormat(significand, exponent, specs, sign, point, loc)
  IN  write_padded(specs, Len(text), text, "right")

-----------------------------------------------------------------------------
(* Hexadecimal digits of the fraction, in fours from the top; a half of    *)
(* the last is rounded up.                                                 *)
num_fraction_bits(n) == bits(n) + (IF implicit(n) THEN 1 ELSE 0)
num_xdigits(n) == (num_fraction_bits(n) + 3) \div 4

WriteHexDigits(text, last, exponent, specs, sign) ==
  LET more == IF specs.precision > last - 1 THEN specs.precision - (last - 1) ELSE 0
  IN  getsign(sign) \o <<"0", IF specs.upper THEN "X" ELSE "x">> \o SubSeq(text, 1, 1)
        \o (IF specs.alt \/ last > 1 \/ more > 0 THEN <<".">> ELSE <<>>) \o SubSeq(text, 2, last) \o Zeros(more)
        \o <<IF specs.upper THEN "P" ELSE "p", IF exponent < 0 THEN "-" ELSE "+">>
        \o do_format_decimal(IF exponent < 0 THEN -exponent ELSE exponent)

LastDigit(text, kept) == CHOOSE i \in 1..kept : (i = 1 \/ text[i] # "0") /\ \A j \in (i + 1)..kept : text[j] = "0"
WriteHexText(text, kept, exponent, specs, sign) ==
  WriteHexDigits(text, LastDigit(text, kept), exponent, specs, sign)

HexText(f, xdigits, upper) ==
  LET written == do_format_base2e(4, f, upper) IN Zeros(xdigits - Len(written)) \o written

(* A long may have a digit more after rounding, which moves the point.     *)
HexRounded(n, f, e, xdigits, cut, specs, sign) ==
  LET over == cut /\ ~implicit(n) /\ (f \div 2^bits(n)) % 2 = 1
  IN  WriteHexText(HexText(IF over THEN f \div 16 ELSE f, xdigits, specs.upper),
                   IF cut THEN specs.precision + 1 ELSE xdigits, IF over THEN e + 4 ELSE e, specs, sign)

RoundHex(f, inc) == IF (f % inc) \div (inc \div 16) >= 8 THEN ((f + inc) \div inc) * inc ELSE f
format_hexfloat(n, specs, sign) ==
  LET fp == Fp(n)
      xdigits == num_xdigits(n)
      leading == (fp.f \div 16^(xdigits - 1)) % 16
      e == fp.e + bits(n) - (IF implicit(n) THEN 0 ELSE 1) - (IF leading > 1 THEN Bsr(leading) ELSE 0)
      cut == specs.precision >= 0 /\ xdigits - 1 > specs.precision
  IN  HexRounded(n, IF cut THEN RoundHex(fp.f, 16^(xdigits - 1 - specs.precision)) ELSE fp.f, e, xdigits, cut, specs, sign)

-----------------------------------------------------------------------------
(* What precision and "#" the type stands for, and when it is refused as   *)
(* too big: there is one digit more in the form with an exponent.          *)
PrecisionOf(specs) == IF specs.precision < 0 /\ specs.type # "none" THEN 6 ELSE specs.precision
IsTooBig(n, specs) ==
  \/ specs.type = "exp" /\ PrecisionOf(specs) = max_int
  \/ /\ specs.type = "fixed" /\ n.kind # "long" /\ Fp(n).f # 0
     /\ LET s == FirstSegment(n) IN CannotAdjust(PrecisionOf(specs), s.exp + s.size)

FloatSpecs(n, specs) ==
  LET precision == PrecisionOf(specs)
  IN  CASE specs.type = "exp" -> [specs EXCEPT !.precision = precision + 1, !.alt = @ \/ specs.precision # 0]
        [] specs.type = "fixed" -> [specs EXCEPT !.precision = precision, !.alt = @ \/ specs.precision # 0]
        [] OTHER -> [specs EXCEPT !.precision = IF precision = 0 THEN 1 ELSE precision]

(* write_float(): the shortest by to_decimal() if no precision and type is *)
(* given.  A sign goes before the zeros that pad a number.                 *)
WriteDecimal(dec, specs, sign, loc) ==
  do_write_float(do_format_decimal(dec.significand), dec.exponent, specs, sign, loc)
WriteDigits(found, specs, sign, loc) == do_write_float(Text(found.digits), found.exp, specs, sign, loc)
WriteHex(hex, specs) == write_padded(specs, Len(hex), hex, "right")

WriteFinite(n, specs, sign, loc) ==
  LET asked == FloatSpecs(n, specs)
  IN  CASE specs.precision < 0 /\ specs.type = "none" /\ n.kind # "long" ->
             WriteDecimal(to_decimal(n, IF n.kind = "float" THEN 1 ELSE 2), specs, sign, loc)
        [] specs.type = "hexfloat" -> WriteHex(format_hexfloat(n, specs, sign), specs)
        [] IsTooBig(n, specs) -> Error
        [] OTHER -> WriteDigits(format_float(n, asked.precision, asked), asked, sign, loc)

write_float(n, specs, loc) ==
  LET sign == IF n.negative THEN "minus" ELSE specs.sign
      outside == specs.align = "numeric" /\ sign # "none"
      narrower == [specs EXCEPT !.width = IF @ = 0 THEN 0 ELSE @ - 1]
      out == IF outside THEN "none" ELSE sign
      finite == WriteFinite(n, IF outside THEN narrower ELSE specs, out, loc)
  IN  CASE ~isfinite(n) -> write_nonfinite(n, specs, sign)
        [] isfinite(n) /\ outside /\ finite # Error -> getsign(sign) \o finite
        [] OTHER -> finite
=============================================================================
