--------------------------- MODULE FmtPrintfReads ---------------------------
(***************************************************************************)
(* What printf must print, by the C standard.  A format here is a list of  *)
(* directives with a bar after each.  Left out is what the standard leaves *)
(* undefined, and what the code does otherwise: a sign for an unsigned     *)
(* number, no digits for a zero with precision zero, a negative precision, *)
(* a precision in the format that no int holds, "#" for what is zero only  *)
(* once it is converted, zeros in front of a width that has so many digits *)
(* with them that it is refused.                                           *)
(***************************************************************************)
EXTENDS FmtPrintf, FmtReads

(* A directive, part by part.  A width or precision is a text: <<>> is     *)
(* none, <<"*">> and <<".", "*">> take it from an argument.                *)
Plain == [index |-> <<>>, flags |-> <<>>, width |-> <<>>, precision |-> <<>>, length |-> <<>>, conversion |-> "d"]
DirectiveText(d) ==
  <<"%">> \o d.index \o d.flags \o d.width \o d.precision \o d.length \o <<d.conversion, "|">>
FormatText(directives) == FlattenSeq([i \in DOMAIN directives |-> DirectiveText(directives[i])])

Has(d, flag) == \E i \in DOMAIN d.flags : d.flags[i] = flag
FromStar(part) == part # <<>> /\ Last(part) = "*"
Decimal(part) == ValueOf(SelectSeq(part, LAMBDA c : c # "."), 10)

(* The arguments that the directives take, in order: width, precision and  *)
(* then the value; a directive with a number takes that one.               *)
Takes(d) == Len(SelectSeq(<<d.width, d.precision>>, FromStar))
Before(directives, i) == FoldLeft(LAMBDA n, d : n + Takes(d) + 1, 0, SubSeq(directives, 1, i - 1))
WidthAt(directives, i) == Before(directives, i) + 1
PrecisionAt(directives, i) == Before(directives, i) + Takes(directives[i])
ValueAt(directives, i) ==
  IF directives[i].index # <<>> THEN Decimal(Front(directives[i].index)) ELSE Before(directives, i) + Takes(directives[i]) + 1

Converts == [d |-> integral, i |-> integral, u |-> integral, o |-> integral, x |-> integral, X |-> integral,
             c |-> integral, s |-> {"string", "cstring"}, p |-> {"pointer", "cstring"}]

(* A call is right if either all or no directives are numbered, each finds *)
(* its arguments and its conversion is for the type of argument it has,    *)
(* and an int holds each width, without its sign, and each precision.      *)
RightCall(directives, args) ==
  /\ \/ \A i \in DOMAIN directives : directives[i].index # <<>> /\ Takes(directives[i]) = 0
     \/ \A i \in DOMAIN directives : directives[i].index = <<>>
  /\ \A i \in DOMAIN directives :
       LET d == directives[i]
           taken == {<<WidthAt(directives, i), integral>> : w \in {w \in {d.width} : FromStar(w)}}
                    \cup {<<PrecisionAt(directives, i), integral>> : p \in {p \in {d.precision} : FromStar(p)}}
       IN  /\ d.conversion \in DOMAIN Converts
           /\ ~FromStar(d.width) => Decimal(d.width) < TooBig
           /\ \A t \in taken \cup {<<ValueAt(directives, i), Converts[d.conversion]>>} :
                t[1] \in DOMAIN args /\ args[t[1]].type \in t[2]
           /\ FromStar(d.width) => args[WidthAt(directives, i)].value \in (-TooBig + 1)..(TooBig - 1)
           /\ FromStar(d.precision) => args[PrecisionAt(directives, i)].value \in -TooBig..(TooBig - 1)

(* The number that is printed: modulo the size of the type that the length *)
(* names, or that the argument has, in the range that the conversion says. *)
NumberOf(d, arg) ==
  LET length == FlattenSeq(<<d.length>>)
      own == BitsOf[arg.type]
      bits == CASE length = <<>> -> own [] length = <<"h">> -> ShortBits [] length = <<"h", "h">> -> CharBits [] OTHER -> IntBits
      width == IF bits = IntBits /\ d.conversion \notin {"d", "i"} THEN own ELSE bits
      low == IF d.conversion \in {"d", "i"} /\ width > 1 THEN -(2^(width - 1)) ELSE 0
  IN  CHOOSE n \in low..(low + 2^width - 1) : (n - arg.value) % 2^width = 0

BaseOf == [d |-> "dec", i |-> "dec", u |-> "dec", o |-> "oct", x |-> "hex", X |-> "hex"]

(* The specifiers a directive stands for; "-" and a negative width are     *)
(* left, and "0" pads a number only, without precision and not on the left.*)
SpecsInC(directives, i, args) ==
  LET d == directives[i]
      star == IF FromStar(d.width) THEN args[WidthAt(directives, i)].value ELSE 0
      width == IF FromStar(d.width) THEN (IF star < 0 THEN -star ELSE star) ELSE Decimal(d.width)
      precision == CASE d.precision = <<>> -> -1 [] FromStar(d.precision) -> args[PrecisionAt(directives, i)].value
                     [] OTHER -> Decimal(d.precision)
      left == Has(d, "-") \/ star < 0
      numeric == d.conversion \in DOMAIN BaseOf
      zeros == Has(d, "0") /\ numeric /\ ~left /\ precision = -1
  IN  [NoSpecs EXCEPT
         !.align = CASE left -> "left" [] zeros -> "numeric" [] OTHER -> "right",
         !.fill = IF zeros THEN <<"0">> ELSE <<" ">>,
         !.width = width, !.precision = precision,
         !.type = IF numeric THEN BaseOf[d.conversion] ELSE "none",
         !.upper = d.conversion = "X",
         !.alt = Has(d, "#") /\ numeric /\ NumberOf(d, args[ValueAt(directives, i)]) # 0,
         !.sign = CASE d.conversion \notin {"d", "i"} -> "none" [] Has(d, "+") -> "plus"
                    [] Has(d, " ") /\ ~Has(d, "+") -> "space" [] OTHER -> "none"]

IsNull(arg) == (arg.type = "pointer" /\ arg.value = 0) \/ (arg.type = "cstring" /\ arg.value = Null)
ReadsInC(d, specs, arg, text) ==
  LET word == CASE d.conversion = "c" -> CharOf(arg.value)
                [] IsNull(arg) -> IF d.conversion = "s" THEN <<"(", "n", "u", "l", "l", ")">> ELSE <<"(", "n", "i", "l", ")">>
                [] OTHER -> IF specs.precision \in 0..Len(arg.value) THEN SubSeq(arg.value, 1, specs.precision) ELSE arg.value
  IN  CASE d.conversion \in DOMAIN BaseOf -> IntegerReadsBack(text, NumberOf(d, arg), specs, Classic)
        [] d.conversion = "p" /\ ~IsNull(arg) ->
             IntegerReadsBack(text, IF arg.type = "pointer" THEN arg.value ELSE Address, [specs EXCEPT !.type = "hex", !.alt = TRUE], Classic)
        [] OTHER -> WordReadsBack(text, word, specs, "right")
FieldIsRight(directives, i, args, text) ==
  ReadsInC(directives[i], SpecsInC(directives, i, args), args[ValueAt(directives, i)], text)

RECURSIVE Fields(_)
Fields(text) ==
  IF text = <<>> THEN <<>>
  ELSE LET bar == CHOOSE i \in DOMAIN text : text[i] = "|" /\ \A j \in 1..(i - 1) : text[j] # "|"
       IN  <<SubSeq(text, 1, bar - 1)>> \o Fields(SubSeq(text, bar + 1, Len(text)))

(* A format that ends before its conversion is refused; "%%" is a text.    *)
FormatOf(call) ==
  LET whole == (IF call.percent THEN <<"%", "%">> ELSE <<>>) \o FormatText(call.directives)
  IN  IF call.cut THEN SubSeq(whole, 1, Len(whole) - 2) ELSE whole

PrintfIsRight(call, text) ==
  IF ~call.cut /\ RightCall(call.directives, call.args)
  THEN text # Error /\ LET fields == Fields(IF call.percent THEN Tail(text) ELSE text)
       IN  /\ call.percent => Head(text) = "%"
           /\ Len(fields) = Len(call.directives)
           /\ \A i \in DOMAIN fields : FieldIsRight(call.directives, i, call.args, fields[i])
  ELSE text = Error
=============================================================================
