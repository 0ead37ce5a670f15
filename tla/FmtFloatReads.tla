--------------------------- MODULE FmtFloatReads ----------------------------
(***************************************************************************)
(* What the text of a floating-point number must be: the nearest number of *)
(* so many digits or the shortest that reads back, in the form of its type *)
(* and size.                                                               *)
(***************************************************************************)
EXTENDS FmtFloat, FmtReads

(* m * 10^q - c * 2^g, as a multiple of what has no fraction.              *)
Diff(m, q, c, g) == m * Pow(5, q) * Pow(2, q - g) - c * Pow(5, -q) * Pow(2, g - q)

(* A number with a point and an exponent: its digits, the place of the     *)
(* last one and what is to be seen of its form.                            *)
Place(s, chars) == LET at == {i \in DOMAIN s : s[i] \in chars} IN IF at = {} THEN Len(s) + 1 ELSE CHOOSE i \in at : TRUE
Exponent(s) == LET v == ValueOf(Tail(s), 10) IN IF Head(s) = "-" THEN -v ELSE v
IsNumber(s, base, mark) ==
  LET e == Place(s, mark)
      digits == SelectSeq(SubSeq(s, 1, e - 1), LAMBDA c : c \notin {",", "."})
  IN  /\ IsNumeral(digits, base) /\ s[1] \in DOMAIN DigitValue
      /\ Cardinality({i \in DOMAIN s : s[i] = "."}) <= 1
      /\ e <= Len(s) => e < Len(s) /\ s[e + 1] \in {"+", "-"} /\ IsNumeral(SubSeq(s, e + 2, Len(s)), 10)

Read(s, base, mark) ==
  LET e == Place(s, mark)
      p == Place(SubSeq(s, 1, e - 1), {"."})
      whole == SubSeq(s, 1, p - 1)
      part == SubSeq(s, p + 1, e - 1)
      digits == SelectSeq(whole, LAMBDA c : c # ",") \o part
      zeros == CHOOSE z \in 0..Len(part) : /\ \A i \in (Len(part) - z + 1)..Len(part) : part[i] = "0"
                                           /\ z = Len(part) \/ part[Len(part) - z] # "0"
      exponent == IF e > Len(s) THEN 0 ELSE Exponent(SubSeq(s, e + 1, Len(s)))
  IN  [whole |-> whole, part |-> part, digits |-> digits, exponent |-> exponent,
       number |-> ValueOf(SubSeq(digits, 1, Len(digits) - zeros), base), zeros |-> zeros,
       last |-> exponent - Len(part), pointed |-> p < e, scientific |-> e <= Len(s)]

(* The digits as a number, with the zeros at the end; whether it is exact. *)
Number10(r) == r.number * Pow(10, r.zeros)
Exactly(r, fp) == Diff(r.number, r.last + r.zeros, fp.f, fp.e) = 0

(* Nothing with its last digit at this place is nearer, and of two that    *)
(* are as near it is the even one.                                         *)
Nearest(number, last, fp) ==
  LET above == Diff(2 * number + 1, last, 2 * fp.f, fp.e)  \* from the half to the number: not negative
      below == Diff(2 * number - 1, last, 2 * fp.f, fp.e)
  IN  above >= 0 /\ below <= 0 /\ (above = 0 \/ below = 0 => number % 2 = 0)

(* The digit before the point or, in scientific form, of the exponent.     *)
FirstPlace(r) ==
  LET nonzero == {i \in DOMAIN r.digits : r.digits[i] # "0"}
  IN  IF nonzero = {} THEN 0 ELSE r.last + Len(r.digits) - (CHOOSE i \in nonzero : \A j \in nonzero : i <= j)

(* Where numbers start that are read as this one: a quarter of a unit      *)
(* below a power of two, else a half.  The ends belong to an even number.  *)
InInterval(number, last, fp) ==
  LET low == Diff(4 * number, last, 4 * fp.f - (IF fp.closer THEN 1 ELSE 2), fp.e)
      high == Diff(4 * number, last, 4 * fp.f + 2, fp.e)
  IN  IF fp.f % 2 = 0 THEN low >= 0 /\ high <= 0 ELSE low > 0 /\ high < 0

Shortest(number, last, fp) ==
  /\ InInterval(number, last, fp)
  /\ \A m \in {number \div 10, number \div 10 + 1} : ~InInterval(m, last + 1, fp)
  /\ InInterval(number + 1, last, fp) =>
       LET half == Diff(2 * number + 1, last, 2 * fp.f, fp.e) IN half > 0 \/ (half = 0 /\ number % 2 = 0)
  /\ InInterval(number - 1, last, fp) =>
       LET half == Diff(2 * number - 1, last, 2 * fp.f, fp.e) IN half < 0 \/ (half = 0 /\ number % 2 = 0)

RECURSIVE ShortestAt(_, _, _)
ShortestAt(number, last, fp) ==
  IF number % 10 = 0 THEN ShortestAt(number \div 10, last + 1, fp) ELSE Shortest(number, last, fp)

(* A type and its precision: so many digits after the point, or after the  *)
(* first; or so many digits, but not the zeros at the end, in the form     *)
(* that suits the exponent; or the shortest.                               *)
Wanted(specs, default) == IF specs.precision < 0 THEN default ELSE specs.precision

(* Past the digits that a double has zeros may be left out: the number is  *)
(* exact, with as many digits.                                             *)
FewerZeros(r, place, fp) == r.last > place /\ Len(r.digits) >= max_double_digits /\ Exactly(r, fp)

FixedReads(r, specs, fp) ==
  /\ \/ Len(r.part) = Wanted(specs, 6)
     \/ ~r.scientific /\ FewerZeros(r, -Wanted(specs, 6), fp)
  /\ r.pointed <=> r.part # <<>> \/ specs.alt
  /\ Exactly(r, fp) \/ Nearest(Number10(r), r.last, fp)

GeneralReads(r, specs, fp, significant) ==
  LET exact == FirstPlace(r) - significant + 1  \* the place of the last digit, if it is not zero
  IN  /\ r.last >= exact \/ fp.f = 0
      /\ IF specs.alt THEN r.pointed /\ (r.last = exact \/ (~r.scientific /\ FewerZeros(r, exact, fp))) ELSE r.pointed => Last(r.digits) # "0"
      /\ fp.f = 0 \/ Exactly(r, fp) \/ Nearest(Number10(r) * Pow(10, r.last - exact), exact, fp)

ShortestReads(r, specs, fp) ==
  /\ IF specs.alt THEN r.pointed ELSE r.pointed => Last(r.digits) # "0"
  /\ fp.f = 0 \/ ShortestAt(Number10(r), r.last, fp)

DecimalReadsAs(s, r, fp, specs, loc) ==
  LET p == IF specs.type = "general" THEN Wanted(specs, 6) ELSE specs.precision
      significant == IF p = 0 THEN 1 ELSE p
      shortest == specs.type = "none" /\ specs.precision < 0
      x == FirstPlace(r)
      limit == IF shortest THEN exp_upper ELSE significant
  IN  /\ IsNumber(s, 10, {"e", "E"})
      /\ fp.f = 0 => r.number = 0
      /\ r.scientific = (specs.type = "exp" \/ (specs.type # "fixed" /\ (x < -4 \/ x >= limit)))
      /\ IF r.scientific THEN Len(r.whole) = 1 /\ Len(s) - Place(s, {"e", "E"}) >= 3 ELSE Len(r.whole) = 1 \/ r.whole[1] # "0"
      /\ Grouped(r.whole, IF specs.localized /\ ~r.scientific THEN loc ELSE Classic)
      /\ CASE specs.type \in {"fixed", "exp"} -> FixedReads(r, specs, fp)
           [] shortest -> ShortestReads(r, specs, fp)
           [] OTHER -> GeneralReads(r, specs, fp, significant)
DecimalReads(s, n, specs, loc) == DecimalReadsAs(s, Read(s, 10, {"e", "E"}), Fp(n), specs, loc)

(* Exact without a precision; a half may go up or down.                    *)
HexReadsAs(r, fp, specs) ==
  LET last == r.exponent - 4 * Len(r.part)
      g == IF fp.e < last THEN fp.e ELSE last
      off == r.number * 16^r.zeros * 2^(last - g) - fp.f * 2^(fp.e - g)
  IN  /\ r.scientific /\ Len(r.whole) = 1 /\ (specs.alt => r.pointed)
      /\ IF specs.precision < 0 THEN off = 0 /\ (r.pointed => specs.alt \/ Last(r.part) # "0")
         ELSE Len(r.part) = specs.precision /\ 2 * off <= 2^(last - g) /\ 2 * off >= -2^(last - g)
HexReads(s, n, specs) ==
  LET start == IF specs.upper THEN <<"0", "X">> ELSE <<"0", "x">>
      t == WithoutStart(s, start)
  IN  /\ StartsWith(s, start) /\ IsNumber(t, 16, {"p", "P"})
      /\ HexReadsAs(Read(t, 16, {"p", "P"}), Fp(n), specs)

(* An int must hold the digits there are with this precision, but for a    *)
(* long in the fixed form.                                                 *)
WholeDigits(fp) ==
  LET whole == (fp.f * Pow(2, fp.e)) \div Pow(2, -fp.e)
  IN  CHOOSE d \in 0..9 : whole < 10^d /\ (d = 0 \/ whole >= 10^(d - 1))
TooPrecise(n, specs) ==
  \/ specs.type = "exp" /\ specs.precision + 1 > max_int
  \/ specs.type = "fixed" /\ n.kind # "long" /\ specs.precision + WholeDigits(Fp(n)) > max_int

FloatIsRight(call, text) ==
  LET n == call.value
      specs == call.specs
      sign == SignOf(IF n.negative THEN -1 ELSE 0, specs)
      word == CASE isnan(n) -> <<"n", "a", "n">> [] ~isnan(n) -> <<"i", "n", "f">>
      Word == CASE isnan(n) -> <<"N", "A", "N">> [] ~isnan(n) -> <<"I", "N", "F">>
      IsRight(s) == IF specs.type = "hexfloat" THEN HexReads(s, n, specs) ELSE DecimalReads(s, n, specs, call.loc)
  IN  CASE ~isfinite(n) ->
             WordReadsBack(text, sign \o (IF specs.upper THEN Word ELSE word),
                           IF specs.align = "numeric" THEN [specs EXCEPT !.align = "right", !.fill = <<" ">>] ELSE specs, "left")
        [] isfinite(n) /\ TooPrecise(n, specs) -> text = Error
        [] isfinite(n) /\ ~TooPrecise(n, specs) /\ specs.align = "numeric" ->
             /\ StartsWith(text, sign) /\ Len(text) >= specs.width
             /\ \E i \in (Len(sign) + 1)..Len(text) :
                  /\ \A j \in (Len(sign) + 1)..(i - 1) : text[j] = "0"
                  /\ i > Len(sign) + 1 => Len(text) = specs.width
                  /\ IsRight(SubSeq(text, i, Len(text)))
        [] isfinite(n) /\ ~TooPrecise(n, specs) /\ specs.align # "numeric" ->
             /\ Len(text) >= specs.width
             /\ \E from \in DOMAIN text, to \in DOMAIN text :
                  /\ from <= to /\ Field(text, specs, "right", from, to)
                  /\ StartsWith(SubSeq(text, from, to), sign)
                  /\ IsRight(WithoutStart(SubSeq(text, from, to), sign))
=============================================================================
