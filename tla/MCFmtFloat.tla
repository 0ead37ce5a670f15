------------------------------ MODULE MCFmtFloat ------------------------------
(***************************************************************************)
(* Floating-point numbers to write, and the specifiers to write them with. *)
(***************************************************************************)
EXTENDS FmtFloatReads

Stored(kind, negative, biased, field) == [kind |-> kind, negative |-> negative, biased |-> biased, field |-> field]
Call(n, specs, loc) == [api |-> "float", value |-> n, specs |-> specs, loc |-> loc]

(* Every number of the small formats; of the long one those at the ends    *)
(* and in the middle of a range.                                           *)
Numbers ==
  {Stored(k, FALSE, b, f) : k \in {"float", "double"}, b \in 0..max_exponent, f \in 0..(Hidden - 1)}
  \cup {Stored("long", FALSE, b, f) : b \in 1..max_exponent,
          f \in {128, 129, 130, 150, 160, 177, 191, 192, 199, 200, 201, 250, 254, 255}}
  \cup {Stored("long", FALSE, 0, f) : f \in {0, 1, 2, 50, 100, 127}}

FloatTypes == {"none", "general", "fixed", "exp", "hexfloat"}

(* What the reference multiplies must stay in the 32 bits of TLC: a bound  *)
(* on precision for the largest and the smallest numbers.                  *)
LastPlace(n, specs) ==
  LET fp == Fp(n)
      precision == IF specs.precision < 0 THEN 6 ELSE specs.precision
      top == floor_log10_pow2(fp.e + Bsr(fp.f))
  IN  CASE specs.type = "fixed" -> -precision
        [] specs.type = "none" /\ specs.precision < 0 -> top - 3
        [] OTHER -> top - precision
Fits(n, specs) ==
  LET fp == Fp(n)
      last == LastPlace(n, specs)
  IN  \/ specs.type = "hexfloat" \/ ~isfinite(n) \/ fp.f = 0
      \/ last >= -13 /\ 4 * fp.f + 4 <= (500000000 \div Pow(2, fp.e - last)) \div Pow(5, -last)

(* Left out is what the code does otherwise: zeros go before the "0x" of a *)
(* hexadecimal number, and the exponent of a subnormal long is not exact.  *)
KeptNumbers(calls) ==
  {c \in calls :
     /\ Fits(c.value, c.specs)
     /\ c.specs.type = "hexfloat" => c.specs.align # "numeric" /\ ~(c.value.kind = "long" /\ c.value.biased = 0)}

(* With a precision a float takes the way of a double.                     *)
ShortestCall ==
  KeptNumbers({Call(n, [NoSpecs EXCEPT !.type = t], Classic) : n \in {n \in Numbers : n.kind = "float"}, t \in FloatTypes})
PreciseCall ==
  KeptNumbers({Call(n, [NoSpecs EXCEPT !.type = t, !.precision = p[1], !.alt = p[2]], Classic) :
          n \in {n \in Numbers : n.kind # "float"}, t \in FloatTypes, p \in ((-1..5) \X {FALSE}) \cup ({-1, 0, 3} \X {TRUE})})
(* Precisions about the limits, of numbers with few digits.                *)
LimitCall ==
  {Call(Stored(n[1], n[2], n[3], n[4]), [NoSpecs EXCEPT !.type = t, !.precision = p, !.alt = a], Classic) :
     n \in {<<"double", FALSE, 0, 0>>, <<"double", TRUE, 11, 0>>, <<"double", FALSE, 12, 8>>, <<"double", FALSE, 5, 0>>,
            <<"double", FALSE, 8, 0>>, <<"double", FALSE, 6, 15>>, <<"double", FALSE, 23, 15>>, <<"float", FALSE, 15, 4>>,
            <<"float", FALSE, 10, 3>>, <<"long", FALSE, 0, 0>>, <<"long", FALSE, 1, 128>>, <<"long", FALSE, 2, 192>>,
            <<"long", FALSE, 0, 16>>, <<"long", FALSE, 23, 255>>, <<"double", FALSE, 24, 0>>},
     t \in {"none", "general", "fixed", "exp"}, p \in 8..max_int, a \in BOOLEAN}
  \cup {Call(Stored("double", TRUE, 15, 4), [NoSpecs EXCEPT !.type = "fixed", !.precision = p, !.width = w,
                                                          !.align = "numeric", !.fill = <<"0">>], Classic) :
          p \in {10, 18, 19}, w \in {0, 26}}
FormedCall ==
  KeptNumbers({Call(Stored("float", negative, b[1], b[2]),
        [NoSpecs EXCEPT !.type = t, !.sign = s, !.upper = u, !.width = w, !.align = al.align, !.fill = al.fill, !.localized = l],
        IF l THEN [Classic EXCEPT !.grouping = <<2>>, !.sep = <<",">>] ELSE Classic) :
     negative \in BOOLEAN, b \in {<<0, 0>>, <<7, 7>>, <<16, 8>>, <<23, 15>>, <<24, 0>>, <<24, 3>>}, t \in FloatTypes,
     s \in {"none", "plus", "space"}, u \in BOOLEAN, w \in {0, 14}, l \in BOOLEAN,
     al \in [align : {"none", "left"}, fill : {<<"*">>}] \cup {[align |-> "numeric", fill |-> <<"0">>]}})
=============================================================================
