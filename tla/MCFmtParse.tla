----------------------------- MODULE MCFmtParse -----------------------------
(***************************************************************************)
(* Instances of FmtParse for TLC: all format strings over an alphabet, and *)
(* all specifiers over another, against the grammar.                       *)
(***************************************************************************)
EXTENDS FmtGrammar

CONSTANTS
  Literal,               \* characters of the text that are no braces
  Refs,                  \* the references: automatic, by index, by name
  Fills, Signs, TypeChars,  \* what specs are made of
  Alphabet, MaxLen,        \* of the format strings
  SpecAlphabets, SpecsLen  \* of the specifiers of a single field

TypedArgs == <<[type |-> "int", value |-> 1], [type |-> "uint", value |-> 2],
               [type |-> "int", value |-> -1], [type |-> "double", value |-> 0],
               [type |-> "string", value |-> 0], [type |-> "char", value |-> 0],
               [type |-> "bool", value |-> 0], [type |-> "pointer", value |-> 0],
               [type |-> "uint", value |-> 2^(IntBits - 1)]>>  \* one more than an int holds
NamedB == [n \in {<<"a">>, <<"a", "0">>} |-> IF n = <<"a">> THEN 1 ELSE 0]

Strings(a, n) == UNION {[1..k -> a] : k \in 0..n}

(* Braces inside the specifiers come in pairs: the last one ends the field. *)
OneField(s) == \A i \in DOMAIN s : s[i] = "}" => "{" \in {s[j] : j \in {i - 2, i - 1} \cap DOMAIN s}
FieldOf(a, s) == <<"{", Digits[a], ":">> \o s \o <<"}">>
SpecStrings == {s \in UNION {Strings(a, SpecsLen) : a \in SpecAlphabets} : OneField(s)}
FirstOfType == {a \in DOMAIN TypedArgs : \A b \in 1..(a - 1) : TypedArgs[b].type # TypedArgs[a].type}
FieldsOfTypes == {FieldOf(a, s) : a \in FirstOfType, s \in SpecStrings}

AllStrings == Strings(Alphabet, MaxLen) \cup FieldsOfTypes

ByIndex(i) == [kind |-> "index", index |-> i]
ByName(n) == [kind |-> "name", name |-> n]
AnyRefs == {Auto} \cup {ByIndex(i) : i \in (0..8) \cup {10, 11}} \cup {ByName(<<"a">>), ByName(<<"a", "0">>)}

(* The specifiers a text spells, from the parts of it that are these.      *)
PartsOf(text) == {<<>>} \cup {SubSeq(text, i, j) : i, j \in DOMAIN text}
DigitStrings(parts) == {d \in parts : d # <<>> /\ ToSet(d) \subseteq DigitChars}
AmountsIn(parts) ==
  {Nothing} \cup [what : {"number"}, digits : DigitStrings(parts)]
    \cup {a \in [what : {"ref"}, ref : Refs] : SpellAmount(a) \in parts}

SpecsSpelling(text) ==
  LET parts == PartsOf(text)
      flag(c) == {FALSE} \cup {b \in {TRUE} : <<c>> \in parts}
      amounts == AmountsIn(parts)
      some == [align : (({<<>>} \cup {<<a>> : a \in DOMAIN AlignOf} \cup (Fills \X DOMAIN AlignOf)) \cap parts),
               sign : ({<<>>} \cup {<<s>> : s \in Signs}) \cap parts, hash : flag("#"), zero : flag("0"),
               width : {a \in amounts : a.what = "number" => a.digits[1] # "0"},
               precision : {a \in amounts : a # Nothing => <<".">> \o SpellAmount(a) \in parts},
               locale : flag("L"), type : ({<<>>} \cup {<<t>> : t \in TypeChars}) \cap parts]
  IN  {s \in some : SpellSpecs(s) = text}

(* The tokens and the sentences that fit the alphabet and the length.      *)
Fields == {t \in [kind : {"field"}, ref : AnyRefs, colon : BOOLEAN,
                  specs : UNION {SpecsSpelling(s) : s \in Strings(Alphabet, MaxLen - 3)}] :
             /\ t.specs = NoSpecs \/ t.colon
             /\ ToSet(SpellToken(t)) \subseteq Alphabet /\ Len(SpellToken(t)) <= MaxLen}
Tokens == Fields \cup [kind : {"char"}, char : Literal] \cup [kind : {"brace"}, char : {"{", "}"}]

ASSUME TokensAreWords == Tokens \subseteq TokenForms

(* The sentences of length n, from the shorter ones.                       *)
OfLengths ==
  FoldLeft(LAMBDA shorter, n :
             Append(shorter, UNION {{Append(s, t) : s \in shorter[n + 1 - Len(SpellToken(t))]} :
                                      t \in {u \in Tokens : Len(SpellToken(u)) <= n}}),
           <<{<<>>}>>, [n \in 1..MaxLen |-> n])

Sentences == UNION ToSet(OfLengths)
Language == {<<Spell(s), Mean(s)>> : s \in {x \in Sentences : SentenceOk(x)}}
Spelled == {l[1] : l \in Language}

(* The fields of one argument whose specifiers a text spells.              *)
FieldsSpelt(id, text) ==
  LET field(s) == [kind |-> "field", ref |-> ByIndex(id), colon |-> TRUE, specs |-> s]
  IN  {f \in {field(s) : s \in SpecsSpelling(text)} : SentenceOk(<<f>>)}

(* A string is accepted if and only if it is in the language, and what is  *)
(* written is what the sentence means: the fields in their places with     *)
(* their arguments and specifiers, the text between them unescaped.        *)
ReadsTheLanguage ==
  IF fmt \in FieldsOfTypes
  THEN pc \in {"done", "error"} =>
         LET fields == FieldsSpelt(Digit(fmt[2]), SubSeq(fmt, 4, Len(fmt) - 1))
         IN  IF pc = "done" THEN out \in {Mean(<<f>>) : f \in fields} ELSE fields = {}
  ELSE /\ pc = "done" => <<fmt, out>> \in Language
       /\ pc = "error" => fmt \notin Spelled

ReadAsWritten == TypeOK /\ ReadsTheLanguage
=============================================================================
