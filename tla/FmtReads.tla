------------------------------ MODULE FmtReads ------------------------------
(***************************************************************************)
(* What a text of an integer or a string must be, stated without the way   *)
(* it is computed: the text is read back.                                  *)
(***************************************************************************)
EXTENDS FmtInt, FmtUnicode

(* Reading an integer: its sign, the prefix of its base and its digits.    *)
DigitValue == [c \in ToSet(Lower) \cup ToSet(Upper) |->
                 (CHOOSE i \in 1..16 : Lower[i] = c \/ Upper[i] = c) - 1]
Base(type) == CASE type = "hex" -> 16 [] type = "oct" -> 8 [] type = "bin" -> 2 [] OTHER -> 10
IsNumeral(s, base) == s # <<>> /\ \A i \in DOMAIN s : s[i] \in DOMAIN DigitValue /\ DigitValue[s[i]] < base
ValueOf(s, base) == FoldLeft(LAMBDA v, c : v * base + DigitValue[c], 0, s)

SignOf(v, specs) == CASE v < 0 -> <<"-">> [] v >= 0 /\ specs.sign = "plus" -> <<"+">>
                     [] v >= 0 /\ specs.sign = "space" -> <<" ">> [] OTHER -> <<>>
PrefixOf(specs) == CASE specs.alt /\ specs.type = "hex" -> <<"0", IF specs.upper THEN "X" ELSE "x">>
                     [] specs.alt /\ specs.type = "bin" -> <<"0", IF specs.upper THEN "B" ELSE "b">>
                     [] OTHER -> <<>>

StartsWith(s, start) == Len(s) >= Len(start) /\ SubSeq(s, 1, Len(start)) = start
WithoutStart(s, start) == SubSeq(s, Len(start) + 1, Len(s))

(* The groups of digits from the right have the sizes of the locale.       *)
Grouped(s, loc) ==
  LET at == {i \in DOMAIN s : s[i] = ","}
      digits == [i \in DOMAIN s |-> Cardinality({j \in i..Len(s) : j \notin at})]  \* from the right
      ends == {digits[i] : i \in at}
      size(k) == loc.grouping[IF k <= Len(loc.grouping) THEN k ELSE Len(loc.grouping)]
      sums == {FoldLeft(LAMBDA a, b : a + b, 0, [i \in 1..k |-> size(i)]) :
                 k \in {n \in 1..Len(s) : \A i \in 1..n : size(i) # CharMax}}
  IN  IF loc.sep = <<>> THEN at = {} ELSE ends = {e \in sums : e < Len(s) - Cardinality(at)}

(* A field: what is outside of it is fill, on the sides that alignment     *)
(* says, and no more of it than the width needs.                           *)
Field(text, specs, default, from, to) ==
  LET align == IF specs.align = "none" THEN default ELSE specs.align
      left == from - 1
      right == Len(text) - to
  IN  /\ left > 0 \/ right > 0 => Len(text) = specs.width
      /\ \A i \in DOMAIN text : i \in from..to \/ text[i] = specs.fill[1]
      /\ align = "left" => left = 0
      /\ align \in {"right", "numeric"} => right = 0
      /\ align = "center" => right - left \in {0, 1}

Larger(a, b) == IF a > b THEN a ELSE b

(* As many digits as the value has, one more for the prefix of an octal    *)
(* number, and zeros up to what is asked for.                              *)
IntegerIn(s, v, specs, loc) ==
  LET before == SignOf(v, specs) \o PrefixOf(specs)
      numeral == WithoutStart(s, before)
      digits == SelectSeq(numeral, LAMBDA c : c # ",")
      base == Base(specs.type)
      abs == IF v < 0 THEN -v ELSE v
      has == CHOOSE n \in 1..IntBits : abs < base^n /\ (n = 1 \/ abs >= base^(n - 1))
      octal == IF specs.alt /\ specs.type = "oct" /\ abs # 0 THEN 1 ELSE 0
      asked == IF specs.localized THEN 0
               ELSE IF specs.align = "numeric" THEN specs.width - Len(before) ELSE specs.precision
  IN  /\ StartsWith(s, before)
      /\ IsNumeral(digits, base) /\ ValueOf(digits, base) = abs
      /\ Len(digits) = Larger(has + octal, asked)
      /\ Grouped(SubSeq(numeral, 1 + octal, Len(numeral)), IF specs.localized THEN loc ELSE Classic)

IntegerReadsBack(text, value, specs, loc) ==
  /\ Len(text) >= specs.width
  /\ \E from \in DOMAIN text, to \in DOMAIN text :
       /\ from <= to
       /\ Field(text, specs, "right", from, to)
       /\ IntegerIn(SubSeq(text, from, to), value, specs, loc)

WordReadsBack(text, word, specs, default) ==
  /\ Len(text) >= specs.width
  /\ \E from \in 1..(Len(text) + 1) :
       LET to == from + Len(word) - 1
       IN  SubSeq(text, from, to) = word /\ Field(text, specs, default, from, to)

(* A bool or a char is text unless it is asked for as a number; a char is  *)
(* refused what only a number can have.                                    *)
TextReadsBack(call, text) ==
  LET word == CASE call.api = "charAs" -> CharOf(call.value) [] call.api = "bool" /\ call.value = 1 -> <<"t", "r", "u", "e">>
                [] OTHER -> <<"f", "a", "l", "s", "e">>
      ofNumber == call.specs.sign # "none" \/ call.specs.alt \/ call.specs.align = "numeric"
  IN  IF call.api = "charAs" /\ ofNumber THEN text = Error
      ELSE WordReadsBack(text, word, [call.specs EXCEPT !.align = IF @ = "numeric" THEN "right" ELSE @], "left")

IntegerCallReads(call, text) ==
  IF call.api \in {"bool", "charAs"} /\ call.specs.type = "none" THEN TextReadsBack(call, text)
  ELSE IntegerReadsBack(text, call.value, call.specs, call.loc)

-----------------------------------------------------------------------------
(* Well-formed UTF-8: what encodes a code point.                           *)
PointsOf(len) == CASE len = 1 -> 0..127 [] len = 2 -> 128..2047
                   [] len = 3 -> (2048..55295) \cup (57344..65535) [] len = 4 -> 65536..MaxCodePoint
PointFrom(b) == CASE Len(b) = 1 -> b[1] [] Len(b) = 2 -> (b[1] % 32) * 64 + (b[2] % 64)
                  [] Len(b) = 3 -> (b[1] % 16) * 4096 + (b[2] % 64) * 64 + (b[3] % 64)
                  [] Len(b) = 4 -> (b[1] % 8) * 2^18 + (b[2] % 64) * 4096 + (b[3] % 64) * 64 + (b[4] % 64)
Encodes(b) == PointFrom(b) \in PointsOf(Len(b)) /\ EncodeUtf8(PointFrom(b)) = b

(* A string as characters and bytes that are part of none.                 *)
RECURSIVE Split(_)
Split(s) ==
  IF s = <<>> THEN <<>>
  ELSE LET sizes == {n \in 1..4 : n <= Len(s) /\ Encodes(SubSeq(s, 1, n))}
           n == IF sizes = {} THEN 1 ELSE CHOOSE m \in sizes : TRUE
       IN  <<[bytes |-> SubSeq(s, 1, n), ok |-> sizes # {}]>> \o Split(SubSeq(s, n + 1, Len(s)))

Columns(s) ==
  LET cs == Split(s)
  IN  FoldLeft(LAMBDA w, c : w + (IF c.ok /\ IsWide(PointFrom(c.bytes)) THEN 2 ELSE 1), 0, cs)

JoinBytes(cs) == FlattenSeq([i \in DOMAIN cs |-> cs[i].bytes])

(* The first characters, no more than precision, between whole copies of   *)
(* the fill, as many as columns are left.                                  *)
StringFits(call, text) ==
  LET s == Split(call.value)
      n == IF call.specs.precision \in 0..Len(s) THEN call.specs.precision ELSE Len(s)
      cut == JoinBytes(SubSeq(s, 1, n))
      columns == Columns(cut)
      missing == IF call.specs.width > columns THEN call.specs.width - columns ELSE 0
  IN  \E left \in 0..missing :
        /\ text = Repeat(call.specs.fill, left) \o cut \o Repeat(call.specs.fill, missing - left)
        /\ left = IF call.specs.align = "center" THEN missing \div 2 ELSE 0

(* Reading what is escaped.  "\x85" is the byte and the code point.        *)
Unhex(c) == IF c \in 48..57 THEN c - 48 ELSE c - 87
Number(s) == FoldLeft(LAMBDA v, c : v * 16 + Unhex(c), 0, s)
EscapeSize(c) == CASE c = 120 -> 4 [] c = 117 -> 6 [] c = 85 -> 10 [] OTHER -> 2
Escaped(s) ==
  CASE s[2] \in {120, 117, 85} -> {EncodeUtf8(Number(SubSeq(s, 3, Len(s))))}
                                  \cup (IF s[2] = 120 THEN {<<Number(SubSeq(s, 3, 4))>>} ELSE {})
    [] s[2] = 110 -> {<<10>>} [] s[2] = 114 -> {<<13>>} [] s[2] = 116 -> {<<9>>}
    [] OTHER -> {<<s[2]>>}

RECURSIVE Readings(_)
Readings(s) ==
  IF s = <<>> THEN {<<>>}
  ELSE LET n == IF s[1] = Backslash THEN EscapeSize(s[2]) ELSE 1
           first == IF s[1] = Backslash THEN Escaped(SubSeq(s, 1, n)) ELSE {<<s[1]>>}
       IN  {f \o r : f \in first, r \in Readings(SubSeq(s, n + 1, Len(s)))}

(* Escaped text is printable, and can be read.                             *)
Printable(s) ==
  LET cs == Split(s) IN \A i \in DOMAIN cs : cs[i].ok /\ ~(PointFrom(cs[i].bytes) \in Unprintable \cup (0..31) \cup {127})

StringReadsBack(call, text, quote) ==
  LET to == CHOOSE i \in DOMAIN text : text[i] = quote /\ \A j \in (i + 1)..Len(text) : text[j] = 32
      inside == SubSeq(text, 2, to - 1)
  IN  /\ text[1] = quote /\ to > 1
      /\ call.value \in Readings(inside)
      /\ Printable(text) /\ Len(text) >= call.specs.width

(* UTF-16 is the same string, or there is none.                            *)
Utf16Agrees(call, text) ==
  IF \A i \in DOMAIN Split(call.value) : Split(call.value)[i].ok
  THEN to_utf8(text, FALSE, "abort") = call.value ELSE text = NoText

(* Surrogates come in pairs; alone they are refused or replaced, and there *)
(* are none of 32 bits.                                                    *)
Utf8Agrees(call, text) ==
  LET u == call.value
      second(i) == i > 1 /\ ~call.wide /\ IsPair(u, i - 1) /\ ~(i > 2 /\ IsPair(u, i - 2))
      alone == {i \in DOMAIN u : IsSurrogate(u[i]) /\ (call.wide \/ ~(IsPair(u, i) \/ second(i)))}
      clean == [i \in DOMAIN u |-> IF i \in alone THEN 65533 ELSE u[i]]
  IN  IF alone # {} /\ (call.wide \/ call.policy = "abort") THEN text = NoText
      ELSE IF call.wide
           THEN [i \in DOMAIN Split(text) |-> PointFrom(Split(text)[i].bytes)] = u
           ELSE utf8_to_utf16(text) = clean

FillIsRead(call, text) ==
  LET c == call.value[1]
      p == text[1]
  IN  IF call.value[2] \in DOMAIN AlignOfByte
      THEN CASE c = OpenBracket -> ~p.ok [] c = CloseBracket -> p.ok /\ p.rest = 1
             [] OTHER -> p.ok /\ p.specs.fill = EncodeUtf8(c) /\ p.specs.align = AlignOfByte[call.value[2]]
      ELSE p.ok /\ p.specs.fill = NoSpecs.fill


StringCallReads(call, text) ==
  CASE call.api = "string" -> IF call.specs.type = "debug" THEN StringReadsBack(call, text, Quote) ELSE StringFits(call, text)
    [] call.api = "char" -> StringReadsBack(call, text, Apostrophe)
    [] call.api = "utf16" -> Utf16Agrees(call, text)
    [] call.api = "utf8" -> Utf8Agrees(call, text)
    [] call.api = "align" -> FillIsRead(call, text)
=============================================================================
