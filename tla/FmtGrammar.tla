----------------------------- MODULE FmtGrammar -----------------------------
(***************************************************************************)
(* The language of format strings, stated as a grammar: what the sentences *)
(* are, how they are spelled and what they mean.  Nothing is parsed here.  *)
(*                                                                         *)
(*   sentence = { character | "{{" | "}}" | "{" [id] [":" specs] "}" }     *)
(*   specs    = [[fill] align] [sign] ["#"] ["0"] [width] ["." precision]  *)
(*              ["L"] [type]                                               *)
(*   width, precision = number | "{" [id] "}"                              *)
(***************************************************************************)
EXTENDS FmtParse

Number(n) ==
  LET digits[m \in 0..n] == IF m < 10 THEN <<Digits[m + 1]>>
                            ELSE Append(digits[m \div 10], Digits[(m % 10) + 1])
  IN  digits[n]

SpellRef(r) == CASE r.kind = "auto"  -> <<>>
                 [] r.kind = "index" -> Number(r.index)
                 [] r.kind = "name"  -> r.name

Opt(present, chars) == IF present THEN chars ELSE <<>>

(* A width or a precision: nothing, a number or a reference.               *)
Nothing == [what |-> "nothing"]

Value(digits) ==
  LET value[i \in 0..Len(digits)] == IF i = 0 THEN 0 ELSE value[i - 1] * 10 + Digit(digits[i])
  IN  value[Len(digits)]

SpellAmount(a) == CASE a.what = "nothing" -> <<>>
                    [] a.what = "number"  -> a.digits
                    [] a.what = "ref"     -> <<"{">> \o SpellRef(a.ref) \o <<"}">>

(* Specifiers; align is empty, an alignment, or a fill and an alignment.   *)
SpellSpecs(s) ==
  s.align \o s.sign \o Opt(s.hash, <<"#">>) \o Opt(s.zero, <<"0">>) \o SpellAmount(s.width)
  \o Opt(s.precision # Nothing, <<".">>) \o SpellAmount(s.precision)
  \o Opt(s.locale, <<"L">>) \o s.type

(* Which specifiers a type takes.                                          *)
Fit(s, type) ==
  /\ s.sign # <<>> => type \in sint_set \cup float_set
  /\ s.hash \/ s.zero \/ s.locale => type \in arithmetic_set
  /\ s.precision # Nothing => type \in float_set \cup {"string", "cstring"}
  /\ s.type # <<>> => type \in Presentation[s.type[1]].for

(* The references of a sentence in order.  An automatic one comes before   *)
(* any other; one by index not after an automatic one, but for a named one *)
(* between them.                                                           *)
RefsAgree(refs) ==
  \A j \in DOMAIN refs : \A i \in 1..(j - 1) :
    /\ refs[j].kind = "auto" => refs[i].kind = "auto"
    /\ refs[j].kind = "index" /\ refs[i].kind = "auto" =>
         \E k \in (i + 1)..(j - 1) : refs[k].kind = "name"

(* A token is a character, an escaped brace or a field.                    *)
FieldRefs(t) == <<t.ref>> \o Opt(t.specs.width.what = "ref", <<t.specs.width.ref>>)
                \o Opt(t.specs.precision.what = "ref", <<t.specs.precision.ref>>)

NoSpecs == [align |-> <<>>, sign |-> <<>>, hash |-> FALSE, zero |-> FALSE, width |-> Nothing,
            precision |-> Nothing, locale |-> FALSE, type |-> <<>>]

SpellToken(t) == CASE t.kind = "char"  -> <<t.char>>
                   [] t.kind = "brace" -> <<t.char, t.char>>
                   [] t.kind = "field" ->
                        <<"{">> \o SpellRef(t.ref) \o Opt(t.colon, <<":">> \o SpellSpecs(t.specs)) \o <<"}">>

Spell(sentence) == FlattenSeq([i \in DOMAIN sentence |-> SpellToken(sentence[i])])

RefsOf(sentence) ==
  FlattenSeq([i \in DOMAIN sentence |->
    IF sentence[i].kind = "field" THEN FieldRefs(sentence[i]) ELSE <<>>])

(* The argument of the k-th reference: automatic ones count up.            *)
Target(refs, k) ==
  CASE refs[k].kind = "auto"  -> Cardinality({i \in 1..(k - 1) : refs[i].kind = "auto"})
    [] refs[k].kind = "index" -> refs[k].index
    [] refs[k].kind = "name"  -> IF refs[k].name \in DOMAIN Names THEN Names[refs[k].name] ELSE -1

(* What an amount is; its reference, if any, is the k-th of refs.          *)
Amount(a, default, refs, k) ==
  CASE a.what = "nothing" -> default
    [] a.what = "number"  -> Value(a.digits)
    [] a.what = "ref"     -> ArgOf(Target(refs, k)).value

AmountOk(a, refs, k) ==
  CASE a.what = "nothing" -> TRUE
    [] a.what = "number"  -> Value(a.digits) <= IntMax
    [] a.what = "ref"     -> /\ HasArg(Target(refs, k))
                             /\ ArgOf(Target(refs, k)).type \in sint_set \cup uint_set
                             /\ ArgOf(Target(refs, k)).value \in 0..IntMax

(* The field whose reference is the k-th: what it needs, what it means.    *)
After(t, k) == IF t.specs.width.what = "ref" THEN k + 2 ELSE k + 1

FieldOk(t, refs, k) ==
  /\ HasArg(Target(refs, k))
  /\ Fit(t.specs, ArgOf(Target(refs, k)).type)
  /\ AmountOk(t.specs.width, refs, k + 1)
  /\ AmountOk(t.specs.precision, refs, After(t, k))

MeanSpecs(t, refs, k) ==
  LET s == t.specs
      numeric == s.zero /\ s.align = <<>>
  IN  [align |-> IF numeric THEN "numeric" ELSE IF s.align = <<>> THEN "none" ELSE AlignOf[Last(s.align)],
       fill |-> IF numeric THEN "0" ELSE IF Len(s.align) = 2 THEN s.align[1] ELSE " ",
       sign |-> CASE s.sign = <<"+">> -> "plus" [] s.sign = <<" ">> -> "space" [] OTHER -> "none",
       alt |-> s.hash,
       localized |-> s.locale,
       width |-> Amount(s.width, 0, refs, k + 1), width_ref |-> NoRef,
       precision |-> Amount(s.precision, -1, refs, After(t, k)), precision_ref |-> NoRef,
       type |-> IF s.type = <<>> THEN "none" ELSE Presentation[s.type[1]].type,
       upper |-> s.type # <<>> /\ IsUpper(s.type[1])]

(* The words of the grammar.                                               *)
Characters == UNION {ToSet(f) : f \in FormatStrings}
Literals == Characters \ {"{", "}"}
IdChars == Letters \cup DigitChars
RefForms == {Auto} \cup [kind : {"index"}, index : Nat]
            \cup {r \in [kind : {"name"}, name : Seq(IdChars)] : r.name # <<>> /\ is_name_start(r.name[1])}
Numerals == Seq(DigitChars) \ {<<>>}
AmountForms == {Nothing} \cup [what : {"number"}, digits : Numerals] \cup [what : {"ref"}, ref : RefForms]
Optional(chars) == {<<>>} \cup {<<c>> : c \in chars}
SpecForms == [align : Optional(DOMAIN AlignOf) \cup (Literals \X DOMAIN AlignOf), sign : Optional(DOMAIN SignOf),
              hash : BOOLEAN, zero : BOOLEAN,
              width : {a \in AmountForms : a.what = "number" => a.digits[1] # "0"}, precision : AmountForms,
              locale : BOOLEAN, type : Optional(DOMAIN Presentation)]
TokenForms == [kind : {"char"}, char : Literals] \cup [kind : {"brace"}, char : {"{", "}"}]
              \cup {t \in [kind : {"field"}, ref : RefForms, colon : BOOLEAN, specs : SpecForms] : t.colon \/ t.specs = NoSpecs}

(* The number of the first reference of the i-th token.                    *)
FirstRef(sentence, i) == Len(RefsOf(SubSeq(sentence, 1, i - 1))) + 1

SentenceOk(sentence) ==
  LET refs == RefsOf(sentence)
  IN  /\ RefsAgree(refs)
      /\ \A i \in DOMAIN sentence : sentence[i].kind = "field" =>
           FieldOk(sentence[i], refs, FirstRef(sentence, i))

Mean(sentence) ==
  LET refs == RefsOf(sentence)
  IN  [i \in DOMAIN sentence |->
        IF sentence[i].kind # "field" THEN Char(sentence[i].char)
        ELSE LET k == FirstRef(sentence, i)
             IN  [arg |-> Target(refs, k), specs |-> MeanSpecs(sentence[i], refs, k)]]

(* Format strings are sequences of characters, and neither word that       *)
(* stands for no character is one of these; an int has IntBits bits, and   *)
(* digits10 digits fit in one.                                             *)
ASSUME ParseAssumption ==
  /\ FormatStrings \subseteq Seq(Characters)
  /\ {"end", "fill"} \cap Characters = {}
  /\ Args \in Seq([type : STRING, value : Int]) /\ Len(Args) <= IntMax
  /\ digits10 \in Nat /\ IntMax \in Nat /\ 2^IntBits \in Nat /\ IntMax < 2^IntBits
  /\ 10^0 = 1 /\ \A n \in 1..digits10 : 10^n = 10 * 10^(n - 1)
  /\ \A n \in 0..digits10 : 10^n \in 1..(IntMax + 1)

(* A string that is accepted is a sentence, and what is written is what    *)
(* the sentence means: the text unescaped, and the fields in their places  *)
(* with their arguments and specifiers.                                    *)
AcceptedAsSentence ==
  pc = "done" => \E s \in Seq(TokenForms) : Spell(s) = fmt /\ SentenceOk(s) /\ Mean(s) = out

=============================================================================
