----------------------------- MODULE MCFmtPrintf -----------------------------
(***************************************************************************)
(* Calls of printf: directives and arguments.                              *)
(***************************************************************************)
EXTENDS FmtPrintfReads

Arg(type, value) == [type |-> type, value |-> value]
AnInt(value) == Arg("int", value)
Directive(flags, width, precision, length, conversion) ==
  [Plain EXCEPT !.flags = flags, !.width = width, !.precision = precision, !.length = length, !.conversion = conversion]
Printf(ds, args) == [api |-> "printf", directives |-> ds, args |-> args, percent |-> FALSE, cut |-> FALSE]

FlagLists == {<<>>, <<"-">>, <<"+">>, <<" ">>, <<"0">>, <<"#">>, <<"-", "0">>, <<"0", "+">>, <<"+", " ">>, <<" ", "+">>,
              <<"#", "0">>, <<"-", "#">>}
Lengths == {<<>>, <<"h", "h">>, <<"h">>, <<"l">>, <<"l", "l">>, <<"j">>, <<"z">>, <<"t">>}
TooLong == <<"9", "9", "9", "9", "9">>
Integral == {AnInt(-128), AnInt(-5), AnInt(0), AnInt(8), AnInt(100), Arg("uint", 255), Arg("bool", 1), Arg("char", -7),
             Arg("llong", -1000), Arg("ullong", 1537)}
Texts == {Arg("string", <<"a", "b">>), Arg("string", <<>>), Arg("cstring", <<"a", "b">>), Arg("cstring", Null),
          Arg("pointer", 0), Arg("pointer", 31), Arg("char", 5), Arg("bool", 1), AnInt(3)}

(* What the standard leaves undefined, and what the code does otherwise.   *)
IsLeftOut(d, precision, arg) ==
  LET isZero == d.conversion \in DOMAIN BaseOf /\ NumberOf(d, arg) = 0
  IN  \/ d.conversion \in {"u", "o", "x", "X"} /\ (Has(d, "+") \/ Has(d, " "))
      \/ precision = 0 /\ isZero
      \/ d.precision # <<>> /\ precision < 0
      \/ Has(d, "#") /\ isZero /\ arg.value # 0
      \/ ~FromStar(d.precision) /\ precision >= TooBig
      \/ d.flags # <<>> /\ ToSet(d.flags) = {"0"} /\ Len(d.flags \o d.width) > 3
      \/ d.precision # <<>> /\ (d.conversion = "p" \/ (arg.type = "cstring" /\ arg.value = Null))
LeftOut(c) ==
  /\ ~c.cut /\ RightCall(c.directives, c.args)
  /\ \E i \in DOMAIN c.directives :
       IsLeftOut(c.directives[i], SpecsInC(c.directives, i, c.args).precision, c.args[ValueAt(c.directives, i)])

NumberCall ==
  {Printf(<<Directive(f, w, p, <<>>, c)>>, <<a>>) :
     f \in FlagLists, w \in {<<>>, <<"6">>}, p \in {<<>>, <<".">>, <<".", "3">>}, c \in {"d", "u", "o", "x", "X"},
     a \in {AnInt(-5), AnInt(0), AnInt(8), Arg("uint", 200)}}
LengthCall ==
  {Printf(<<Directive(f, <<"9">>, <<>>, l, c)>>, <<a>>) :
     f \in {<<>>, <<"0">>, <<"#">>}, l \in Lengths, c \in {"d", "i", "u", "o", "x", "s"}, a \in Integral}
WordCall ==
  {Printf(<<Directive(f, w, p, <<>>, c)>>, <<a>>) :
     f \in {<<>>, <<"-">>}, w \in {<<>>, <<"8">>}, p \in {<<>>, <<".">>, <<".", "1">>, <<".", "4">>},
     c \in {"c", "s", "p", "d", "y"}, a \in Texts}

(* Two directives that take what they need from the list, or by number.    *)
Pairs ==
  [1..2 -> {[Plain EXCEPT !.index = i, !.width = w, !.precision = p, !.conversion = c] :
              i \in {<<>>, <<"0", "$">>, <<"1", "$">>, <<"2", "$">>, TooLong \o <<"$">>}, w \in {<<>>, <<"*">>},
              p \in {<<>>, <<".", "*">>}, c \in {"d", "s"}}]
PairCall ==
  {[Printf(ds, args) EXCEPT !.percent = ds[1].precision = <<>>] :
     ds \in Pairs,
     args \in {<<>>, <<AnInt(5)>>, <<AnInt(-6), Arg("string", <<"a", "b">>), AnInt(2), AnInt(3)>>,
               <<AnInt(4), AnInt(2), AnInt(3), AnInt(6), AnInt(1), AnInt(77)>>}}

(* Formats that end within a directive, and widths that do not fit an int. *)
CutCall ==
  {[Printf(<<[Directive(f, w, p, l, "d") EXCEPT !.index = i]>>, <<AnInt(1), AnInt(2), AnInt(3)>>) EXCEPT !.cut = TRUE] :
     i \in {<<>>, <<"1", "$">>}, f \in {<<>>, <<"0">>}, w \in {<<>>, <<"5">>, <<"*">>}, p \in {<<>>, <<".">>, <<".", "2">>},
     l \in Lengths}
WideCall ==
  {Printf(<<Directive(f, w, <<>>, <<>>, "d")>>, <<AnInt(1)>>) :
     f \in {<<>>, <<"0">>, <<"-", "0">>}, w \in {<<>>, <<"1", "2">>, <<"1", "2", "7">>, <<"1", "2", "8">>, TooLong}}

(* Widths and precisions from arguments, about the largest int and the     *)
(* least.                                                                  *)
Limits == {AnInt(v) : v \in {-128, -127, -1, 127}} \cup {Arg("uint", v) : v \in {127, 128, 255}}
          \cup {Arg("llong", v) : v \in {-1024, -129, -128, -127, 127, 128, 1023}}
          \cup {Arg("ullong", v) : v \in {127, 128, 2047}} \cup {Arg("bool", 1), Arg("char", -7)}
StarCall ==
  {Printf(<<Directive(<<>>, s[1], s[2], <<>>, "d")>>, <<a, AnInt(5)>>) :
     s \in {<<<<"*">>, <<>>>>, <<<<>>, <<".", "*">>>>}, a \in Limits}
  \cup {Printf(<<Directive(<<>>, <<"*">>, <<".", "*">>, <<>>, "s")>>, <<w, p, Arg("string", <<"a", "b">>)>>) :
          w \in {AnInt(4), Arg("llong", 128)}, p \in {AnInt(1), Arg("llong", -129), Arg("ullong", 128)}}

=============================================================================
