----------------------------- MODULE FmtPrintf ------------------------------
(***************************************************************************)
(* fmt: printf formats of integers, characters, strings and pointers.  The *)
(* types have other widths than in C, in the same order; long, long long,  *)
(* intmax_t, size_t and ptrdiff_t all are the widest.                      *)
(***************************************************************************)
EXTENDS FmtInt

(* The bits of char, short and int.                                        *)
CharBits == 4
ShortBits == 6
NarrowBits == 8
TooBig == 2^(NarrowBits - 1)  \* the first number that an int cannot hold

(* The types of arguments.  A C string or a pointer may be null.           *)
BitsOf == [bool |-> 1, char |-> CharBits, int |-> NarrowBits, uint |-> NarrowBits, llong |-> IntBits, ullong |-> IntBits]
integral == DOMAIN BitsOf
Null == <<"null">>
Address == 19  \* of a C string that is not null

Unsigned(value, bits) == value % 2^bits
Signed(value, bits) == ((value + 2^(bits - 1)) % 2^bits) - 2^(bits - 1)

(* Conversion to the type of a length modifier, signed or not by the       *)
(* conversion that follows.  To a wide unsigned type goes the unsigned     *)
(* form of the narrow type that the argument has.                          *)
LengthBits == [hh |-> CharBits, h |-> ShortBits, l |-> IntBits, ll |-> IntBits, j |-> IntBits, z |-> IntBits, t |-> IntBits]
convert_arg(arg, length, conversion) ==
  LET bits == IF length \in DOMAIN LengthBits THEN LengthBits[length] ELSE BitsOf[arg.type]
      same == length = "none" /\ arg.type = "bool"
      number(v) == [type |-> IF bits <= NarrowBits THEN "int" ELSE "llong", value |-> v]
  IN  CASE arg.type \notin integral \/ length = "L" \/ (arg.type = "bool" /\ conversion = "s") \/ same -> arg
        [] OTHER -> IF conversion \in {"d", "i"} THEN number(Signed(arg.value, bits))
                    ELSE IF bits <= NarrowBits THEN number(Unsigned(arg.value, bits))
                    ELSE number(Unsigned(arg.value, BitsOf[arg.type]))

parse_printf_presentation_type(c, type) ==
  CASE c = "d" /\ type \in integral -> "dec"
    [] c = "o" /\ type \in integral -> "oct"
    [] c \in {"x", "X"} /\ type \in integral -> "hex"
    [] c = "c" /\ type \in integral -> "chr"
    [] c = "s" /\ type \in {"string", "cstring"} -> "string"
    [] c = "p" /\ type \in {"pointer", "cstring"} -> "pointer"
    [] OTHER -> "none"

-----------------------------------------------------------------------------
(* printf_arg_formatter.                                                   *)
write_null_pointer(specs, is_string) ==
  write_bytes(specs, IF is_string THEN <<"(", "n", "u", "l", "l", ")">> ELSE <<"(", "n", "i", "l", ")">>)

write_text(text, specs) ==
  LET size == IF specs.precision >= 0 /\ specs.precision < Len(text) THEN specs.precision ELSE Len(text)
  IN  write_padded(specs, size, SubSeq(text, 1, size), "left")

CharSpecs(specs) ==
  [specs EXCEPT !.sign = "none", !.alt = FALSE, !.fill = <<" ">>,
                !.align = IF @ \in {"none", "numeric"} THEN "right" ELSE @]

printf_arg_formatter(arg, specs) ==
  CASE arg.type \in integral /\ specs.type = "chr" -> write_char(CharOf(arg.value), CharSpecs(specs))
    [] arg.type \in integral /\ specs.type # "chr" -> WriteInt(arg.value, specs, Classic)
    [] arg.type = "cstring" /\ arg.value = Null -> write_null_pointer(specs, specs.type # "pointer")
    [] arg.type = "cstring" /\ arg.value # Null /\ specs.type = "pointer" -> write_ptr(Address, specs)
    [] arg.type \in {"string", "cstring"} /\ arg.value # Null /\ specs.type # "pointer" -> write_text(arg.value, specs)
    [] arg.type = "pointer" -> IF arg.value = 0 THEN write_null_pointer(specs, FALSE) ELSE write_ptr(arg.value, specs)

-----------------------------------------------------------------------------
(* A parse: where it is, the number of the next argument (-1 once numbers  *)
(* are given), the number given here (-1 if none) and the specifiers.      *)
IsDigit(c) == c \in ToSet(SubSeq(Lower, 1, 10))

(* Of at most digits10 + 1 digits, here 3, zeros in front included.        *)
parse_nonnegative_int(s, i) ==
  LET to == CHOOSE j \in i..Len(s) : ~IsDigit(At(s, j + 1)) /\ \A k \in i..j : IsDigit(s[k])
      value == FoldLeft(LAMBDA v, c : v * 10 + (CHOOSE d \in 1..10 : Lower[d] = c) - 1, 0, SubSeq(s, i, to))
  IN  [value |-> IF to - i > 2 \/ value >= TooBig THEN -1 ELSE value, to |-> to]

(* get_arg(): the argument with a number, or else the next one.            *)
NoArg == [type |-> "missing", value |-> 0]
get_arg(p, index, args) ==
  LET id == IF index < 0 THEN p.next + 1 ELSE index
  IN  IF (index < 0 /\ p.next < 0) \/ (index >= 0 /\ p.next > 0) \/ id \notin DOMAIN args THEN NoArg ELSE args[id]
Took(p, index) == [p EXCEPT !.next = IF index < 0 THEN p.next + 1 ELSE -1]

parse_flags(s, p) ==
  LET to == CHOOSE j \in p.at..(Len(s) + 1) :
              At(s, j) \notin {"-", "+", "0", " ", "#"} /\ \A k \in p.at..(j - 1) : s[k] \in {"-", "+", "0", " ", "#"}
      flags == {s[k] : k \in p.at..(to - 1)}
  IN  [p EXCEPT !.at = to,
         !.specs = [@ EXCEPT !.align = IF "-" \in flags THEN "left" ELSE @,
                             !.sign = CASE "+" \in flags -> "plus" [] " " \in flags /\ "+" \notin flags -> "space" [] OTHER -> @,
                             !.fill = IF "0" \in flags THEN <<"0">> ELSE @,
                             !.alt = @ \/ "#" \in flags]]

(* A width from an argument: negative is on the left.  It is refused if an *)
(* int does not hold it without its sign.                                  *)
printf_width_handler(p, args) ==
  LET arg == get_arg(p, -1, args)
      ok == arg.type \in integral /\ -TooBig < arg.value /\ arg.value < TooBig
      q == [Took(p, -1) EXCEPT !.at = @ + 1]
  IN  CASE ~ok -> [q EXCEPT !.ok = FALSE]
        [] ok /\ arg.value < 0 -> [q EXCEPT !.specs.width = -arg.value, !.specs.align = "left"]
        [] ok /\ arg.value >= 0 -> [q EXCEPT !.specs.width = arg.value]

ParseWidth(s, p, args) ==
  LET n == parse_nonnegative_int(s, p.at)
  IN  CASE IsDigit(At(s, p.at)) -> [p EXCEPT !.at = n.to + 1, !.specs.width = n.value, !.ok = n.value # -1]
        [] At(s, p.at) = "*" -> printf_width_handler(p, args)
        [] OTHER -> p

(* A number first is that of the argument, or the width; zeros in front of *)
(* the width are the flag.                                                 *)
HeaderFrom(s, p, n, args) ==
  LET zero == [p EXCEPT !.at = n.to + 1, !.specs.fill = IF At(s, p.at) = "0" THEN <<"0">> ELSE @]
      rest == CASE ~IsDigit(At(s, p.at)) -> p
                [] IsDigit(At(s, p.at)) /\ At(s, n.to + 1) = "$" ->
                     [p EXCEPT !.at = n.to + 2, !.index = IF n.value = -1 THEN TooBig - 1 ELSE n.value]
                [] OTHER -> zero
  IN  IF IsDigit(At(s, p.at)) /\ At(s, n.to + 1) # "$" /\ n.value # 0
      THEN [zero EXCEPT !.specs.width = n.value, !.ok = n.value # -1]
      ELSE ParseWidth(s, parse_flags(s, rest), args)
parse_header(s, p, args) == HeaderFrom(s, p, parse_nonnegative_int(s, p.at), args)

(* A precision from one: negative is none, and what no int holds refused.  *)
printf_precision_handler(p, args) ==
  LET arg == get_arg(p, -1, args)
      fits_in_int == -TooBig <= arg.value /\ arg.value < TooBig
      q == [Took(p, -1) EXCEPT !.at = @ + 2]
  IN  IF arg.type \notin integral \/ ~fits_in_int THEN [q EXCEPT !.ok = FALSE]
      ELSE [q EXCEPT !.specs.precision = IF arg.value > 0 THEN arg.value ELSE 0]

ParsePrecision(s, p, args) ==
  LET n == parse_nonnegative_int(s, p.at + 1)
  IN  CASE At(s, p.at) # "." -> p
        [] At(s, p.at) = "." /\ IsDigit(At(s, p.at + 1)) ->
             [p EXCEPT !.at = n.to + 1, !.specs.precision = IF n.value = -1 THEN 0 ELSE n.value]
        [] At(s, p.at) = "." /\ At(s, p.at + 1) = "*" -> printf_precision_handler(p, args)
        [] OTHER -> [p EXCEPT !.at = @ + 1, !.specs.precision = 0]

-----------------------------------------------------------------------------
(* Mutant: zeros also if there is a precision.                             *)
FlagsForZero(specs, arg) ==
  LET alt == specs.alt /\ ~(arg.type \in integral /\ arg.value = 0)
      zeros == specs.fill = <<"0">> /\ arg.type \in integral /\ specs.align # "left"
  IN  [specs EXCEPT !.alt = alt, !.fill = IF zeros THEN @ ELSE <<" ">>, !.align = IF zeros THEN "numeric" ELSE @]

(* What flags give way to: "0" to a precision, to "-" and to an argument   *)
(* that is no number; "#" to a zero.                                       *)
FlagsFor(specs, arg) ==
  LET alt == specs.alt /\ ~(arg.type \in integral /\ arg.value = 0)
      zeros == specs.fill = <<"0">> /\ arg.type \in integral /\ specs.align # "left" /\ specs.precision < 0
  IN  [specs EXCEPT !.alt = alt, !.fill = IF zeros THEN @ ELSE <<" ">>, !.align = IF zeros THEN "numeric" ELSE @]

(* A C string with a precision is read no further than that.               *)
CutString(arg, specs) ==
  IF specs.precision >= 0 /\ arg.type = "cstring"
  THEN [type |-> "string", value |-> SubSeq(arg.value, 1, IF specs.precision < Len(arg.value) THEN specs.precision ELSE Len(arg.value))]
  ELSE arg

(* One conversion, from what follows "%": its text and where it ends.      *)
LengthAt(s, at) ==
  LET two == <<At(s, at), At(s, at + 1)>>
  IN  CASE two = <<"h", "h">> -> "hh" [] two = <<"l", "l">> -> "ll"
        [] At(s, at) \in {"h", "l"} /\ two \notin {<<"h", "h">>, <<"l", "l">>} -> At(s, at)
        [] At(s, at) \in {"j", "z", "t", "L"} -> At(s, at)
        [] OTHER -> "none"

Converted(arg, length, c, specs) ==
  LET type == parse_printf_presentation_type(IF c \in {"i", "u"} /\ arg.type \in integral THEN "d" ELSE c, arg.type)
  IN  IF arg = NoArg \/ type = "none" THEN Error
      ELSE printf_arg_formatter(convert_arg(arg, length, c), [FlagsFor(specs, arg) EXCEPT !.type = type, !.upper = c = "X"])
ConvertedAt(s, p, length, last, args) ==
  [to |-> last, next |-> Took(p, p.index).next,
   text |-> IF ~p.ok THEN Error
            ELSE Converted(CutString(get_arg(p, p.index, args), p.specs), length, At(s, last), p.specs)]
WithLength(s, p, length, args) ==
  ConvertedAt(s, p, length, p.at + (CASE length = "none" -> 0 [] length \in {"hh", "ll"} -> 2 [] OTHER -> 1), args)
WithPrecision(s, p, args) == WithLength(s, p, LengthAt(s, p.at), args)
Conversion(s, at, next, args) ==
  LET start == [ok |-> TRUE, at |-> at, next |-> next, index |-> -1, specs |-> [NoSpecs EXCEPT !.align = "right"]]
  IN  WithPrecision(s, ParsePrecision(s, parse_header(s, start, args), args), args)

RECURSIVE VprintfFrom(_, _, _, _)
Joined(text, rest) == IF text = Error \/ rest = Error THEN Error ELSE text \o rest
AfterConversion(s, c, args) == Joined(c.text, VprintfFrom(s, c.to + 1, c.next, args))
VprintfFrom(s, at, next, args) ==
  CASE at > Len(s) -> <<>>
    [] At(s, at) = "%" /\ At(s, at + 1) = "%" -> Joined(<<"%">>, VprintfFrom(s, at + 2, next, args))
    [] At(s, at) = "%" /\ At(s, at + 1) # "%" -> AfterConversion(s, Conversion(s, at + 1, next, args), args)
    [] OTHER -> Joined(<<s[at]>>, VprintfFrom(s, at + 1, next, args))

vprintf(format, args) == VprintfFrom(format, 1, 0, args)
=============================================================================
