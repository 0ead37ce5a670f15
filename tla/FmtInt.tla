------------------------------- MODULE FmtInt -------------------------------
(***************************************************************************)
(* fmt: integers, booleans, characters and pointers as text.  Arithmetic   *)
(* is that of IntBits bits, of which the code has 32, 64 and 128.          *)
(***************************************************************************)
EXTENDS FmtText

CONSTANT IntBits  \* at most 14: the products must stay in the 32 bits of TLC

(* The place of the highest bit: clz() ^ 31.                               *)
Bsr(n) == CHOOSE b \in 0..(IntBits - 1) : 2^b <= n /\ n < 2^(b + 1)
OneIfZero(n) == IF n % 2 = 0 THEN n + 1 ELSE n  \* n | 1

(* By a table of the digits that numbers with a highest bit have at most.  *)
bsr2log10 == <<1, 1, 1, 2, 2, 2, 3, 3, 3, 4, 4, 4, 4, 5>>
zero_or_powers_of_10(t) == IF t = 1 THEN 0 ELSE 10^(t - 1)

do_count_digits64(n) ==
  LET t == bsr2log10[Bsr(OneIfZero(n)) + 1]
  IN  IF n < zero_or_powers_of_10(t) THEN t - 1 ELSE t

(* By one addition, which carries into the upper half if n has a digit     *)
(* more than the least number with its highest bit.                        *)
Thresholds == <<0, 0, 0, 10, 10, 10, 100, 100, 100, 1000, 1000, 1000, 10000, 10000>>
DigitsOf == [t \in {0, 10, 100, 1000, 10000} |->
               CASE t = 0 -> 1 [] t = 10 -> 2 [] t = 100 -> 3 [] t = 1000 -> 4 [] t = 10000 -> 5]
Increment(t) == DigitsOf[t] * 2^IntBits - t  \* sizeof(#T) - 1 is the digits of T

do_count_digits32(n) == (n + Increment(Thresholds[Bsr(OneIfZero(n)) + 1])) \div 2^IntBits

RECURSIVE count_digits_fallback(_)
count_digits_fallback(n) ==
  CASE n < 10 -> 1 [] n \in 10..99 -> 2 [] n \in 100..999 -> 3 [] n \in 1000..9999 -> 4
    [] OTHER -> 4 + count_digits_fallback(n \div 10000)

(* Digits of a base that is a power of two.                                *)
count_digits_base2e(bits, n) == Bsr(OneIfZero(n)) \div bits + 1

-----------------------------------------------------------------------------
Lower == <<"0", "1", "2", "3", "4", "5", "6", "7", "8", "9", "a", "b", "c", "d", "e", "f">>
Upper == <<"0", "1", "2", "3", "4", "5", "6", "7", "8", "9", "A", "B", "C", "D", "E", "F">>

digits2(value) == <<Lower[value \div 10 + 1], Lower[(value % 10) + 1]>>

RECURSIVE do_format_decimal(_)
do_format_decimal(value) ==
  CASE value >= 100 -> do_format_decimal(value \div 100) \o digits2(value % 100)
    [] value \in 10..99 -> digits2(value)
    [] value < 10 -> <<Lower[value + 1]>>

RECURSIVE do_format_base2e(_, _, _)
do_format_base2e(bits, value, upper) ==
  LET digit == <<(IF upper THEN Upper ELSE Lower)[(value % 2^bits) + 1]>>
  IN  IF value < 2^bits THEN digit
      ELSE do_format_base2e(bits, value \div 2^bits, upper) \o digit

(* Digits go into room for so many of them from its end: what is not       *)
(* written to is shown as "?", and what does not fit is before the room.   *)
InRoom(digits, room) ==
  [i \in 1..room |-> LET at == i + Len(digits) - room IN IF at < 1 THEN "?" ELSE digits[at]]

format_decimal(value, num_digits) == InRoom(do_format_decimal(value), num_digits)
format_base2e(bits, value, num_digits) == InRoom(do_format_base2e(bits, value, FALSE), num_digits)

-----------------------------------------------------------------------------
(* The value without its sign, modulo 2^IntBits, and what the sign gives.  *)
make_write_int_arg(value, sign) ==
  [abs_value |-> IF value < 0 THEN (0 - value) % 2^IntBits ELSE value,
   prefix |-> getsign(IF value < 0 THEN "minus" ELSE IF sign = "minus" THEN "none" ELSE sign)]

BaseBits == [hex |-> 4, oct |-> 3, bin |-> 1]
IntDigits(value, specs) ==
  IF specs.type \in DOMAIN BaseBits
  THEN do_format_base2e(BaseBits[specs.type], value, specs.upper /\ specs.type = "hex")
  ELSE do_format_decimal(value)

(* "#".  The octal prefix is a digit: not if precision or zero gives one.  *)
BasePrefix(value, specs, num_digits) ==
  CASE ~specs.alt -> <<>>
    [] specs.type = "hex" -> <<"0", IF specs.upper THEN "X" ELSE "x">>
    [] specs.type = "bin" -> <<"0", IF specs.upper THEN "B" ELSE "b">>
    [] specs.type = "oct" -> IF specs.precision <= num_digits /\ value # 0 THEN <<"0">> ELSE <<>>
    [] OTHER -> <<>>

(* Mutant: the prefix is not counted.                                      *)
size_paddingOfDigits(num_digits, prefix, specs) ==
  CASE specs.align = "numeric" /\ specs.width > num_digits -> specs.width - num_digits
    [] specs.align # "numeric" /\ specs.precision > num_digits -> specs.precision - num_digits
    [] OTHER -> 0

(* The zeros between the prefix and the digits.                            *)
size_padding(num_digits, prefix, specs) ==
  LET size == Len(prefix) + num_digits
  IN  CASE specs.align = "numeric" /\ specs.width > size -> specs.width - size
        [] specs.align # "numeric" /\ specs.precision > num_digits -> specs.precision - num_digits
        [] OTHER -> 0

(* One column, whatever stands for the character ("\n" if escaped).        *)
write_char(text, specs) == write_padded(specs, 1, text, "left")
CharOf(value) == <<"c">>  \* which one: left out

(* <left-padding><prefix><numeric-padding><digits><right-padding>          *)
write_int(arg, specs) ==
  LET digits == IntDigits(arg.abs_value, specs)
      prefix == arg.prefix \o BasePrefix(arg.abs_value, specs, Len(digits))
      zeros == Repeat(<<"0">>, size_padding(Len(digits), prefix, specs))
      text == prefix \o zeros \o digits
  IN  CASE specs.type = "chr" -> write_char(CharOf(arg.abs_value), specs)
        [] specs.type # "chr" /\ specs.width = 0 /\ specs.precision = -1 -> prefix \o digits
        [] OTHER -> write_padded(specs, Len(text), text, "right")

-----------------------------------------------------------------------------
(* digit_grouping: the places of separators, counted from the right.  The  *)
(* last size repeats; one that is not positive, or CHAR_MAX, ends it.      *)
CharMax == 127
GroupSize(grouping, i) == grouping[IF i <= Len(grouping) THEN i ELSE Len(grouping)]
NoMore(grouping, i) == i <= Len(grouping) /\ (grouping[i] <= 0 \/ grouping[i] = CharMax)

RECURSIVE Separators(_, _, _, _)
Separators(grouping, i, pos, num_digits) ==
  IF NoMore(grouping, i) \/ pos + GroupSize(grouping, i) >= num_digits THEN {}
  ELSE {pos + GroupSize(grouping, i)} \cup Separators(grouping, i + 1, pos + GroupSize(grouping, i), num_digits)

apply(loc, digits) ==
  LET n == Len(digits)
      places == IF loc.sep = <<>> THEN {} ELSE Separators(loc.grouping, 1, 0, n)
  IN  FlattenSeq([i \in 1..n |-> (IF n - i + 1 \in places THEN loc.sep ELSE <<>>) \o <<digits[i]>>])

(* write_int() with grouping: all padding, zeros too, is on the outside,   *)
(* and precision has no effect.                                            *)
write_int_grouped(arg, specs, loc) ==
  LET digits == IntDigits(arg.abs_value, specs)
      text == arg.prefix \o BasePrefix(arg.abs_value, specs, Len(digits)) \o apply(loc, digits)
  IN  IF specs.type = "chr" THEN write_char(CharOf(arg.abs_value), specs)
      ELSE write_padded(specs, Len(text), text, "right")

-----------------------------------------------------------------------------
(* write(value, specs), by type of the argument.                           *)
WriteInt(value, specs, loc) ==
  LET arg == make_write_int_arg(value, specs.sign)
  IN  IF specs.localized THEN write_int_grouped(arg, specs, loc) ELSE write_int(arg, specs)

(* write(value): without specifiers, by the count of digits of its width.  *)
WriteIntPlain(value, num_digits) ==
  (IF value < 0 THEN <<"-">> ELSE <<>>)
    \o format_decimal(IF value < 0 THEN (0 - value) % 2^IntBits ELSE value, num_digits)

WriteBool(value, specs) ==
  IF specs.type \in {"none", "string"}
  THEN write_bytes(specs, IF value THEN <<"t", "r", "u", "e">> ELSE <<"f", "a", "l", "s", "e">>)
  ELSE WriteInt(IF value THEN 1 ELSE 0, specs, Classic)

(* A char is one column of text or, as a number, unsigned.                 *)
check_char_specs(specs) == specs.type \in {"none", "chr", "debug"}
BadCharSpecs(specs) ==
  check_char_specs(specs) /\ (specs.align = "numeric" \/ specs.sign # "none" \/ specs.alt)

WriteChar(value, specs, loc) ==
  CASE BadCharSpecs(specs) -> Error
    [] check_char_specs(specs) /\ ~BadCharSpecs(specs) -> write_char(CharOf(value), specs)
    [] ~check_char_specs(specs) -> WriteInt(value, specs, loc)

write_ptr(value, specs) ==
  LET num_digits == count_digits_base2e(4, value)
  IN  write_padded(specs, 2 + num_digits, <<"0", "x">> \o format_base2e(4, value, num_digits), "right")
=============================================================================
