----------------------------- MODULE FmtUnicode -----------------------------
(***************************************************************************)
(* fmt: strings in UTF-8.  A text is a sequence of bytes here.  Decoding,  *)
(* the columns a string takes, cutting it after some characters, escaping  *)
(* ("{:?}"), padding it with a fill of several bytes, and UTF-16.          *)
(***************************************************************************)
EXTENDS FmtText

CONSTANT Unprintable  \* the code points the tables of is_printable() exclude

Quote == 34
Apostrophe == 39
Backslash == 92
MaxCodePoint == 1114111    \* 0x10ffff
Invalid == MaxCodePoint + 1  \* invalid_code_point, and a negative char: both are larger

(* code_point_length(): from the first byte, 1 if it cannot be one.        *)
code_point_length(byte) ==
  CASE byte \in 192..223 -> 2 [] byte \in 224..239 -> 3 [] byte \in 240..247 -> 4 [] OTHER -> 1

(* utf8_decode() reads four bytes; those after the string are zeros.       *)
SizeOf(byte) == CASE byte \in 0..127 -> 1 [] byte \in 128..191 \/ byte >= 248 -> 0
                  [] OTHER -> code_point_length(byte)
masks == <<1, 128, 32, 16, 8>>             \* the bits of the first byte, as moduli
mins == <<4194304, 0, 128, 2048, 65536>>
shiftc == <<0, 18, 12, 6, 0>>
tails == <<3, 0, 1, 2, 3>>                 \* bytes that must start with 10

utf8_decode(s, i) ==
  LET byte(k) == IF i + k <= Len(s) THEN s[i + k] ELSE 0
      len == SizeOf(byte(0))
      bits == (byte(0) % masks[len + 1]) * 2^18 + (byte(1) % 64) * 2^12 + (byte(2) % 64) * 2^6 + (byte(3) % 64)
      cp == bits \div 2^shiftc[len + 1]
      error == \/ cp < mins[len + 1] \/ cp \div 2^11 = 27 \/ cp > MaxCodePoint
               \/ \E k \in 1..tails[len + 1] : byte(k) \div 64 # 2
  IN  IF error THEN [cp |-> Invalid, from |-> i, size |-> 1]
      ELSE [cp |-> cp, from |-> i, size |-> len]

(* Mutant: an error skips what the first byte announces.                   *)
RECURSIVE DecodeSkipping(_, _)
DecodeSkipping(s, i) ==
  IF i > Len(s) THEN <<>>
  ELSE LET c == utf8_decode(s, i)
       IN  <<c>> \o DecodeSkipping(s, i + (IF c.cp = Invalid THEN code_point_length(s[i]) ELSE c.size))

(* The code points that for_each_codepoint() visits, from the i-th byte.   *)
RECURSIVE Decode(_, _)
Decode(s, i) == IF i > Len(s) THEN <<>>
                ELSE LET c == utf8_decode(s, i) IN <<c>> \o Decode(s, i + c.size)

for_each_codepoint(s) == Decode(s, 1)
BytesOf(s, c) == SubSeq(s, c.from, c.from + c.size - 1)

IsWide(cp) ==
  \/ cp \in 4352..4447 \/ cp \in {9001, 9002} \/ (cp \in 11904..42191 /\ cp # 12351) \/ cp \in 44032..55203
  \/ cp \in 63744..64255 \/ cp \in 65040..65049 \/ cp \in 65072..65135 \/ cp \in 65280..65376
  \/ cp \in 65504..65510 \/ cp \in 131072..196605 \/ cp \in 196608..262141 \/ cp \in 127744..128591
  \/ cp \in 129280..129535

compute_width(s) ==
  FoldLeft(LAMBDA w, c : w + (IF IsWide(c.cp) THEN 2 ELSE 1), 0, for_each_codepoint(s))

(* Bytes before the n-th code point, counted from 0.                       *)
code_point_index(s, n) ==
  LET cs == for_each_codepoint(s) IN IF n < Len(cs) THEN cs[n + 1].from - 1 ELSE Len(s)

-----------------------------------------------------------------------------
is_printable(cp) == cp <= MaxCodePoint /\ cp \notin Unprintable
needs_escape(cp) == cp < 32 \/ cp \in {127, Quote, Backslash} \/ ~is_printable(cp)

HexDigit(d) == IF d < 10 THEN 48 + d ELSE 87 + d
RECURSIVE Hex(_, _)
Hex(value, width) == IF width = 0 THEN <<>> ELSE Append(Hex(value \div 16, width - 1), HexDigit(value % 16))

write_codepoint(width, prefix, cp) == <<Backslash, prefix>> \o Hex(cp, width)

Short == [cp \in {10, 13, 9, Quote, Apostrophe, Backslash} |->
            CASE cp = 10 -> 110 [] cp = 13 -> 114 [] cp = 9 -> 116 [] OTHER -> cp]

write_escaped_cp(cp, bytes) ==
  CASE cp \in DOMAIN Short -> <<Backslash, Short[cp]>>
    [] cp \notin DOMAIN Short /\ cp < 256 -> write_codepoint(2, 120, cp)
    [] cp \in 256..65535 -> write_codepoint(4, 117, cp)
    [] cp \in 65536..(MaxCodePoint) -> write_codepoint(8, 85, cp)
    [] cp > MaxCodePoint -> FlattenSeq([i \in DOMAIN bytes |-> write_codepoint(2, 120, bytes[i])])

(* find_escape() ends a run of what is written as it is.                   *)
write_escaped_string(s) ==
  LET cs == for_each_codepoint(s)
      piece(c) == IF needs_escape(c.cp) THEN write_escaped_cp(c.cp, BytesOf(s, c)) ELSE BytesOf(s, c)
  IN  <<Quote>> \o FlattenSeq([i \in DOMAIN cs |-> piece(cs[i])]) \o <<Quote>>

(* A char from 128 is negative: as a code point it is too large.           *)
write_escaped_char(v) ==
  LET cp == IF v < 128 THEN v ELSE Invalid
  IN  <<Apostrophe>>
      \o (IF (needs_escape(cp) /\ v # Quote) \/ v = Apostrophe THEN write_escaped_cp(cp, <<v>>) ELSE <<v>>)
      \o <<Apostrophe>>

-----------------------------------------------------------------------------
(* write() of a string: precision counts characters, width columns.        *)
(* Escaped, all of it is written and its columns are its bytes.            *)
write_string(s, specs) ==
  LET size == IF specs.precision >= 0 /\ specs.precision < Len(s)
              THEN code_point_index(s, specs.precision) ELSE Len(s)
      escaped == write_escaped_string(s)
      text == SubSeq(s, 1, size)
  IN  IF specs.type = "debug" THEN write_padded(specs, Len(escaped), escaped, "left")
      ELSE write_padded(specs, IF specs.width # 0 THEN compute_width(text) ELSE 0, text, "left")

write_debug_char(v, specs) ==
  write_padded(specs, 1, IF specs.type = "debug" THEN write_escaped_char(v) ELSE <<v>>, "left")

(* parse_align(): an alignment, or a character and an alignment.  What is  *)
(* left of the specifiers starts at rest.                                  *)
AlignOfByte == [b \in {60, 62, 94} |-> CASE b = 60 -> "left" [] b = 62 -> "right" [] b = 94 -> "center"]
OpenBracket == 123
CloseBracket == 125

parse_align(s, specs) ==
  LET len == code_point_length(s[1])
      after == IF len < Len(s) THEN len + 1 ELSE 1
      aligned(p) == s[p] \in DOMAIN AlignOfByte
  IN  CASE after # 1 /\ aligned(after) ->
             (CASE s[1] = CloseBracket -> [ok |-> TRUE, specs |-> specs, rest |-> 1]
                [] s[1] = OpenBracket -> [ok |-> FALSE, specs |-> specs, rest |-> 1]
                [] OTHER -> [ok |-> TRUE, rest |-> after + 1,
                             specs |-> [specs EXCEPT !.fill = SubSeq(s, 1, len), !.align = AlignOfByte[s[after]]]])
        [] ~(after # 1 /\ aligned(after)) /\ aligned(1) ->
             [ok |-> TRUE, rest |-> 2, specs |-> [specs EXCEPT !.align = AlignOfByte[s[1]]]]
        [] OTHER -> [ok |-> TRUE, rest |-> 1, specs |-> [specs EXCEPT !.align = "none"]]

-----------------------------------------------------------------------------
Replacement == <<239, 191, 189>>
NoText == <<-1>>  \* the conversion fails

(* One code point; those between 0xd800 and 0xdfff have no encoding.       *)
EncodeUtf8(c) ==
  CASE c < 128 -> <<c>>
    [] c \in 128..2047 -> <<192 + (c \div 64), 128 + (c % 64)>>
    [] c \in 2048..55295 \cup 57344..65535 ->
         <<224 + (c \div 4096), 128 + ((c % 4096) \div 64), 128 + (c % 64)>>
    [] c \in 65536..MaxCodePoint ->
         <<240 + (c \div 2^18), 128 + ((c % 2^18) \div 4096), 128 + ((c % 4096) \div 64), 128 + (c % 64)>>
    [] OTHER -> NoText

IsSurrogate(c) == c \in 55296..57343
IsPair(units, i) == /\ units[i] \in 55296..56319
                    /\ i < Len(units) /\ units[i + 1] \in 56320..57343

(* to_utf8<WChar>::convert(); wide is whether a WChar has 32 bits.         *)
RECURSIVE ConvertFrom(_, _, _, _)
ConvertFrom(units, i, wide, policy) ==
  IF i > Len(units) THEN <<>>
  ELSE LET c == units[i]
           pair == ~wide /\ IsPair(units, i)
           here == CASE pair -> EncodeUtf8((c - 55296) * 1024 + (units[i + 1] - 56320) + 65536)
                     [] ~wide /\ IsSurrogate(c) /\ ~pair -> IF policy = "replace" THEN Replacement ELSE NoText
                     [] OTHER -> EncodeUtf8(c)
           others == ConvertFrom(units, i + (IF pair THEN 2 ELSE 1), wide, policy)
       IN  IF here = NoText \/ others = NoText THEN NoText ELSE here \o others

to_utf8(units, wide, policy) == ConvertFrom(units, 1, wide, policy)

utf8_to_utf16(s) ==
  LET cs == for_each_codepoint(s)
      units(cp) == IF cp <= 65535 THEN <<cp>>
                   ELSE <<55296 + ((cp - 65536) \div 1024), 56320 + ((cp - 65536) % 1024)>>
  IN  IF \E i \in DOMAIN cs : cs[i].cp = Invalid THEN NoText
      ELSE FlattenSeq([i \in DOMAIN cs |-> units(cs[i].cp)])
=============================================================================
