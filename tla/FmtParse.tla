------------------------------ MODULE FmtParse ------------------------------
(***************************************************************************)
(* fmt: how a format string is read while a line is formatted.  The text   *)
(* between the fields is copied; a field "{id:specs}" finds its argument   *)
(* and its specifiers.  A step is one turn of the loop of                  *)
(* parse_format_string() or of parse_format_specs().                       *)
(*                                                                         *)
(* A character is a string of length one, a format string a sequence of    *)
(* them.  What is written for an argument is left to other modules: out    *)
(* has the argument and the specifiers in its place.                       *)
(***************************************************************************)
EXTENDS Integers, Sequences, SequencesExt, FiniteSetsExt

CONSTANTS
  FormatStrings,  \* the format strings
  Args,           \* the arguments: a sequence of [type, value]
  Names,          \* the named ones: from names to ids, which begin with 0
  IntBits         \* the size of int: 32

VARIABLES
  fmt,          \* the format string
  p,            \* the next character, counted from 1
  begin,        \* the first one not copied yet
  next_arg_id,  \* next_arg_id_ of the parse_context
  pc,           \* "text", "specs", "done", "error"
  arg,          \* the argument of the field
  state,        \* enter_state.current_state: the order of the specifiers
  specs,        \* dynamic_format_specs
  out           \* characters and fields

vars == <<fmt, p, begin, next_arg_id, pc, arg, state, specs, out>>

Digits == <<"0", "1", "2", "3", "4", "5", "6", "7", "8", "9">>
DigitChars == ToSet(Digits)
IsDigit(c) == c \in DigitChars
Digit(c) == (CHOOSE i \in DOMAIN Digits : Digits[i] = c) - 1

Letters == {"a", "b", "c", "d", "e", "f", "g", "o", "p", "s", "x",
            "A", "B", "E", "F", "G", "L", "X", "_"}

(* is_name_start(), of the characters that occur.                          *)
is_name_start(c) == c \in Letters

(* The type of an argument, and the sets of types.                         *)
sint_set == {"int", "long_long"}
uint_set == {"uint", "ulong_long"}
float_set == {"float", "double"}
integral_set == sint_set \cup uint_set \cup {"bool", "char"}
arithmetic_set == integral_set \cup float_set

IntMax == 2^(IntBits - 1) - 1

NoRef == [kind |-> "none"]
DefaultSpecs == [type |-> "none", align |-> "none", sign |-> "none", upper |-> FALSE,
                 alt |-> FALSE, localized |-> FALSE, fill |-> " ", width |-> 0, precision |-> -1,
                 width_ref |-> NoRef, precision_ref |-> NoRef]

At(i) == IF i \in DOMAIN fmt THEN fmt[i] ELSE "end"

-----------------------------------------------------------------------------
(* Unsigned arithmetic of the digits from b to e - 1.                      *)
Unsigned(b, e) ==
  LET value[i \in b..e] == IF i = b THEN 0 ELSE (value[i - 1] * 10 + Digit(fmt[i - 1])) % 2^IntBits
  IN  value[e]

(* Where a run of some characters ends.                                    *)
RunEnd(b, chars) == Min({e \in b..(Len(fmt) + 1) : At(e) \notin chars})

digits10 == (IntBits * 3) \div 10

(* A run of digits that int can hold.                                      *)
FitsInt(b, e) ==
  \/ e - b <= digits10
  \/ e - b = digits10 + 1 /\ Unsigned(b, e - 1) * 10 + Digit(fmt[e - 1]) <= IntMax

(* A number at b, error_value if int cannot hold it.                       *)
parse_nonnegative_int(b, error_value) ==
  LET e == RunEnd(b, DigitChars)
  IN  [end |-> e, value |-> IF FitsInt(b, e) THEN Unsigned(b, e) ELSE error_value]

Failed == [ok |-> FALSE]

(* An index or a name at b.                                                *)
parse_arg_id(b) ==
  IF IsDigit(At(b))
  THEN LET n == IF At(b) # "0" THEN parse_nonnegative_int(b, IntMax)
                ELSE [end |-> b + 1, value |-> 0]
       IN  IF At(n.end) \in {"}", ":"}
           THEN [ok |-> TRUE, end |-> n.end, ref |-> [kind |-> "index", index |-> n.value]]
           ELSE Failed
  ELSE LET e == RunEnd(b, Letters \cup DigitChars)
       IN  IF is_name_start(At(b))
           THEN [ok |-> TRUE, end |-> e,
                 ref |-> [kind |-> "name", name |-> SubSeq(fmt, b, e - 1)]]
           ELSE Failed

(* Mutant: an index is taken after automatic ones.                         *)
CanReferUnchecked(ref) == ref.kind = "auto" => next_arg_id >= 0

(* parse_context: an automatic index is refused after a manual one and a   *)
(* manual one after an automatic one; a name is taken always.              *)
CanRefer(ref) == CASE ref.kind = "auto"  -> next_arg_id >= 0
                   [] ref.kind = "index" -> next_arg_id <= 0
                   [] ref.kind = "name"  -> TRUE

NextId(ref) == IF ref.kind = "auto" THEN next_arg_id + 1 ELSE -1

(* The argument a reference means, or -1.                                  *)
ArgId(ref) == CASE ref.kind = "auto"  -> next_arg_id
                [] ref.kind = "index" -> ref.index
                [] ref.kind = "name"  -> IF ref.name \in DOMAIN Names THEN Names[ref.name] ELSE -1

HasArg(id) == id \in 0..(Len(Args) - 1)
ArgOf(id) == Args[id + 1]

Auto == [kind |-> "auto"]

(* The reference of a dynamic width or precision, known by its argument.   *)
Index(ref) == [kind |-> "index", index |-> ArgId(ref)]

Fail == pc' = "error" /\ UNCHANGED <<fmt, p, begin, next_arg_id, arg, state, specs, out>>

-----------------------------------------------------------------------------
Init ==
  /\ fmt \in FormatStrings
  /\ p = 1 /\ begin = 1 /\ next_arg_id = 0 /\ pc = "text"
  /\ arg = 0 /\ state = 0 /\ specs = DefaultSpecs /\ out = <<>>

(* on_text()                                                               *)
Char(c) == [char |-> c]
Text(e) == out \o [i \in 1..(e - begin) |-> Char(fmt[begin + i - 1])]

(* parse_format_string(): a character of the text.                         *)
Character ==
  /\ pc = "text" /\ p <= Len(fmt) /\ fmt[p] \notin {"{", "}"}
  /\ p' = p + 1
  /\ UNCHANGED <<fmt, begin, next_arg_id, pc, arg, state, specs, out>>

Finish ==
  /\ pc = "text" /\ p > Len(fmt)
  /\ out' = Text(p)
  /\ pc' = "done"
  /\ UNCHANGED <<fmt, p, begin, next_arg_id, arg, state, specs>>

CloseBrace ==
  /\ pc = "text" /\ At(p) = "}" /\ At(p + 1) = "}"
  /\ out' = Text(p + 1)
  /\ p' = p + 2 /\ begin' = p + 2
  /\ UNCHANGED <<fmt, next_arg_id, pc, arg, state, specs>>

Unmatched == pc = "text" /\ At(p) = "}" /\ At(p + 1) # "}" /\ Fail

(* parse_replacement_field(): an escaped brace, ...                        *)
OpenBrace ==
  /\ pc = "text" /\ At(p) = "{" /\ At(p + 1) = "{"
  /\ out' = Append(Text(p), Char("{"))
  /\ p' = p + 2 /\ begin' = p + 2
  /\ UNCHANGED <<fmt, next_arg_id, pc, arg, state, specs>>

(* ... or a field: its reference, ...                                      *)
FieldRef == IF At(p + 1) \in {"}", ":"} THEN [ok |-> TRUE, end |-> p + 1, ref |-> Auto]
            ELSE parse_arg_id(p + 1)

FieldIsRead(end) ==
  /\ pc = "text" /\ At(p) = "{" /\ At(p + 1) \notin {"{", "end"}
  /\ FieldRef.ok /\ CanRefer(FieldRef.ref) /\ HasArg(ArgId(FieldRef.ref))
  /\ At(FieldRef.end) = end
  /\ next_arg_id' = NextId(FieldRef.ref)

(* ... which is all there is, and the argument is formatted by default,    *)
Field ==
  /\ FieldIsRead("}")
  /\ out' = Append(Text(p), [arg |-> ArgId(FieldRef.ref), specs |-> DefaultSpecs])
  /\ p' = FieldRef.end + 1 /\ begin' = FieldRef.end + 1
  /\ UNCHANGED <<fmt, pc, arg, state, specs>>

(* ... or specifiers follow: on_format_specs().                            *)
FieldWithSpecs ==
  /\ FieldIsRead(":")
  /\ out' = Text(p)
  /\ p' = FieldRef.end + 1
  /\ pc' = "specs" /\ arg' = ArgId(FieldRef.ref) /\ state' = 0 /\ specs' = DefaultSpecs
  /\ UNCHANGED <<fmt, begin>>

BadField ==
  /\ pc = "text" /\ At(p) = "{" /\ At(p + 1) # "{"
  /\ \/ At(p + 1) = "end"
     \/ ~FieldRef.ok
     \/ FieldRef.ok /\ ~(/\ CanRefer(FieldRef.ref) /\ HasArg(ArgId(FieldRef.ref))
                         /\ At(FieldRef.end) \in {"}", ":"})
  /\ Fail

-----------------------------------------------------------------------------
(* parse_format_specs().  The first character is the fill if the second is *)
(* an alignment.                                                           *)
AlignOf == [c \in {"<", ">", "^"} |-> CASE c = "<" -> "left" [] c = ">" -> "right" [] OTHER -> "center"]
IsAlign(c) == c \in DOMAIN AlignOf

C == IF state = 0 /\ IsAlign(At(p + 1)) THEN "fill" ELSE At(p)

(* enter_state(): each kind of specifier once, in this order: 1 align,     *)
(* 2 sign, 3 hash, 4 zero, 5 width, 6 precision, 7 locale.                 *)
Entering(s, types) == state < s /\ ArgOf(arg).type \in types

Types == {a.type : a \in ToSet(Args)}

Took(s, n, new) ==
  /\ state' = s /\ p' = p + n /\ specs' = new
  /\ UNCHANGED <<fmt, begin, next_arg_id, pc, arg, out>>

Align ==
  /\ pc = "specs" /\ C \in DOMAIN AlignOf /\ Entering(1, Types)
  /\ Took(1, 1, [specs EXCEPT !.align = AlignOf[C]])

Fill ==
  /\ pc = "specs" /\ C = "fill" /\ At(p) \notin {"{", "}"}
  /\ Took(1, 2, [specs EXCEPT !.fill = At(p), !.align = AlignOf[At(p + 1)]])

SignOf == [c \in {"+", " ", "-"} |-> CASE c = "+" -> "plus" [] c = " " -> "space" [] OTHER -> "none"]

Sign ==
  /\ pc = "specs" /\ C \in DOMAIN SignOf /\ Entering(2, sint_set \cup float_set)
  /\ Took(2, 1, [specs EXCEPT !.sign = SignOf[C]])

Hash ==
  /\ pc = "specs" /\ C = "#" /\ Entering(3, arithmetic_set)
  /\ Took(3, 1, [specs EXCEPT !.alt = TRUE])

(* "0" is ignored if there is an alignment.                                *)
Zero ==
  /\ pc = "specs" /\ C = "0" /\ Entering(4, arithmetic_set)
  /\ Took(4, 1, IF specs.align # "none" THEN specs
                ELSE [specs EXCEPT !.align = "numeric", !.fill = "0"])

Locale ==
  /\ pc = "specs" /\ C = "L" /\ Entering(7, arithmetic_set)
  /\ Took(7, 1, [specs EXCEPT !.localized = TRUE])

(* parse_dynamic_spec() at b: a number or a reference in braces.           *)
DynamicSpec(b) ==
  IF IsDigit(At(b))
  THEN LET n == parse_nonnegative_int(b, -1)
       IN  IF n.value = -1 THEN Failed
           ELSE [ok |-> TRUE, end |-> n.end, value |-> n.value, ref |-> NoRef]
  ELSE LET r == IF At(b + 1) \in {"}", ":"} THEN [ok |-> TRUE, end |-> b + 1, ref |-> Auto]
                ELSE parse_arg_id(b + 1)
       IN  IF At(b) = "{" /\ At(b + 1) # "end" /\ r.ok /\ At(r.end) = "}" /\ CanRefer(r.ref)
           THEN [ok |-> TRUE, end |-> r.end + 1, value |-> -1, ref |-> r.ref]
           ELSE Failed

TookDynamic(s, d, new) ==
  /\ state' = s /\ p' = d.end /\ specs' = new
  /\ next_arg_id' = IF d.ref = NoRef THEN next_arg_id ELSE NextId(d.ref)
  /\ UNCHANGED <<fmt, begin, pc, arg, out>>

Width ==
  /\ pc = "specs" /\ (C = "{" \/ (IsDigit(C) /\ C # "0")) /\ Entering(5, Types)
  /\ DynamicSpec(p).ok
  /\ LET d == DynamicSpec(p)
     IN  TookDynamic(5, d, IF d.ref = NoRef THEN [specs EXCEPT !.width = d.value]
                           ELSE [specs EXCEPT !.width_ref = Index(d.ref)])

Precision ==
  /\ pc = "specs" /\ C = "." /\ Entering(6, float_set \cup {"string", "cstring"})
  /\ DynamicSpec(p + 1).ok
  /\ LET d == DynamicSpec(p + 1)
     IN  TookDynamic(6, d, IF d.ref = NoRef THEN [specs EXCEPT !.precision = d.value]
                           ELSE [specs EXCEPT !.precision_ref = Index(d.ref)])

(* parse_presentation_type(): the types it is for, and what it means.      *)
Presentation ==
  [c \in {"d", "x", "X", "o", "b", "B", "e", "E", "f", "F", "g", "G", "a", "A", "c", "s", "p", "?"} |->
     CASE c = "d" -> [type |-> "dec", for |-> integral_set]
       [] c \in {"x", "X"} -> [type |-> "hex", for |-> integral_set]
       [] c = "o" -> [type |-> "oct", for |-> integral_set]
       [] c \in {"b", "B"} -> [type |-> "bin", for |-> integral_set]
       [] c \in {"e", "E"} -> [type |-> "exp", for |-> float_set]
       [] c \in {"f", "F"} -> [type |-> "fixed", for |-> float_set]
       [] c \in {"g", "G"} -> [type |-> "general", for |-> float_set]
       [] c \in {"a", "A"} -> [type |-> "hexfloat", for |-> float_set]
       [] c = "c" -> [type |-> "chr", for |-> integral_set \ {"bool"}]
       [] c = "s" -> [type |-> "string", for |-> {"bool", "string", "cstring"}]
       [] c = "p" -> [type |-> "pointer", for |-> {"pointer", "cstring"}]
       [] c = "?" -> [type |-> "debug", for |-> {"char", "string", "cstring"}]]

IsUpper(c) == c \in {"X", "B", "E", "F", "G", "A"}

(* get_dynamic_spec(): a width or precision that is an argument.           *)
DynamicOk(ref) ==
  ref = NoRef \/ (/\ HasArg(ref.index)
                  /\ ArgOf(ref.index).type \in integral_set \ {"bool", "char"}
                  /\ ArgOf(ref.index).value \in 0..IntMax)
Resolved(ref, static) == IF ref = NoRef THEN static ELSE ArgOf(ref.index).value

(* The field ends at e; the argument is written.                           *)
FieldEnds(e, new) ==
  IF At(e) = "}" /\ DynamicOk(new.width_ref) /\ DynamicOk(new.precision_ref)
  THEN /\ out' = Append(out, [arg |-> arg, specs |->
                   [new EXCEPT !.width = Resolved(new.width_ref, @), !.width_ref = NoRef,
                               !.precision = Resolved(new.precision_ref, @), !.precision_ref = NoRef]])
       /\ p' = e + 1 /\ begin' = e + 1
       /\ pc' = "text"
       /\ UNCHANGED <<fmt, next_arg_id, arg, state, specs>>
  ELSE Fail

Type ==
  /\ pc = "specs" /\ C \in DOMAIN Presentation
  /\ ArgOf(arg).type \in Presentation[C].for
  /\ FieldEnds(p + 1, [specs EXCEPT !.type = Presentation[C].type, !.upper = IsUpper(C)])

NoType ==
  /\ pc = "specs"
  /\ C \in {"}", "end"} \/ (C = "fill" /\ At(p) = "}")
  /\ FieldEnds(p, specs)

(* A character that does not fit, or is not the next one in the order.     *)
IsBad ==
  \/ C \in DOMAIN AlignOf /\ ~Entering(1, Types)
  \/ C = "fill" /\ At(p) = "{"
  \/ C \in DOMAIN SignOf /\ ~Entering(2, sint_set \cup float_set)
  \/ C = "#" /\ ~Entering(3, arithmetic_set)
  \/ C = "0" /\ ~Entering(4, arithmetic_set)
  \/ C = "L" /\ ~Entering(7, arithmetic_set)
  \/ (C = "{" \/ (IsDigit(C) /\ C # "0")) /\ ~(Entering(5, Types) /\ DynamicSpec(p).ok)
  \/ C = "." /\ ~(/\ Entering(6, float_set \cup {"string", "cstring"})
                  /\ DynamicSpec(p + 1).ok)
  \/ C \in DOMAIN Presentation /\ ArgOf(arg).type \notin Presentation[C].for
  \/ C \notin DOMAIN AlignOf \cup DOMAIN SignOf \cup DOMAIN Presentation \cup DigitChars
              \cup {"fill", "#", "L", "{", ".", "}", "end"}

(* Mutant: a precision that cannot be read is not seen.                    *)
BadSpecsSkipped == pc = "specs" /\ C # "." /\ IsBad /\ Fail

BadSpecs == pc = "specs" /\ IsBad /\ Fail

-----------------------------------------------------------------------------
Next == \/ Character \/ Finish \/ OpenBrace \/ CloseBrace \/ Unmatched
        \/ Field \/ FieldWithSpecs \/ BadField
        \/ Align \/ Fill \/ Sign \/ Hash \/ Zero \/ Width \/ Precision \/ Locale
        \/ Type \/ NoType \/ BadSpecs

Spec == Init /\ [][Next]_vars /\ WF_vars(Next)

-----------------------------------------------------------------------------
Specs == [type : {"none"} \cup {Presentation[c].type : c \in DOMAIN Presentation},
          align : {"none", "left", "right", "center", "numeric"}, sign : {"none", "plus", "space"},
          upper : BOOLEAN, alt : BOOLEAN, localized : BOOLEAN, fill : STRING,
          width : 0..IntMax, precision : -1..IntMax]

Plain(sp) == [f \in DOMAIN sp \ {"width_ref", "precision_ref"} |-> sp[f]]

(* Types; what is copied is what has been read, and a field that has been  *)
(* read is one of an argument there is, its specifiers resolved.           *)
TypeOK ==
  /\ p \in 1..(Len(fmt) + 1) /\ begin \in 1..p
  /\ next_arg_id \in -1..Len(fmt)
  /\ pc \in {"text", "specs", "done", "error"}
  /\ pc = "specs" => arg + 1 \in DOMAIN Args
  /\ state \in 0..7
  /\ Plain(specs) \in Specs
  /\ \A i \in DOMAIN out :
       \/ DOMAIN out[i] = {"char"}
       \/ out[i].arg + 1 \in DOMAIN Args /\ Plain(out[i].specs) \in Specs
          /\ out[i].specs.width_ref = NoRef /\ out[i].specs.precision_ref = NoRef

(* Whatever the string is, parsing comes to an end.                        *)
ParsingEnds == <>(pc \in {"done", "error"})

=============================================================================
