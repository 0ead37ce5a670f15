------------------------------ MODULE FmtText -------------------------------
(***************************************************************************)
(* fmt: what all writers of format.h share.  A text is a sequence of code  *)
(* units, strings of length one or, in FmtUnicode, bytes.                  *)
(***************************************************************************)
EXTENDS Integers, Sequences, SequencesExt

Repeat(text, n) == FlattenSeq([i \in 1..n |-> text])

(* format_specs of "{}"; precision -1 is none.  A fill is a text.          *)
NoSpecs == [type |-> "none", align |-> "none", sign |-> "none", upper |-> FALSE, alt |-> FALSE,
            localized |-> FALSE, fill |-> <<" ">>, width |-> 0, precision |-> -1]

At(s, i) == IF i <= Len(s) THEN s[i] ELSE "end"  \* *it, or it == end

Error == <<"error">>  \* report_error() throws; no text is this one

(* How much of the padding is on the left, by alignment or its default.    *)
LeftPadding(padding, align, default) ==
  CASE align = "center" -> padding \div 2
    [] align \in {"right", "numeric"} \/ (align = "none" /\ default = "right") -> padding
    [] OTHER -> 0

(* The text takes so many columns; each copy of the fill counts as one.    *)
write_padded(specs, width, text, default) ==
  LET padding == IF specs.width > width THEN specs.width - width ELSE 0
      left == LeftPadding(padding, specs.align, default)
  IN  Repeat(specs.fill, left) \o text \o Repeat(specs.fill, padding - left)

write_bytes(specs, text) == write_padded(specs, Len(text), text, "left")

getsign(sign) == CASE sign = "minus" -> <<"-">> [] sign = "plus" -> <<"+">>
                   [] sign = "space" -> <<" ">> [] sign = "none" -> <<>>

(* A locale: the sizes of the groups of digits, from the right, and the    *)
(* separator; it has none if there are no groups.                          *)
Classic == [grouping |-> <<>>, sep |-> <<>>, point |-> <<".">>]
=============================================================================
