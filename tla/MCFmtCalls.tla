----------------------------- MODULE MCFmtCalls -----------------------------
(***************************************************************************)
(* Calls of the writers of fmt, one per behaviour, and what each must have *)
(* written, stated without the way it is computed: the text is read back.  *)
(***************************************************************************)
EXTENDS MCFmtFloat, MCFmtTimes, MCFmtPrintf

SomeUnprintable == (128..159) \cup {173, 8203, 65535}

VARIABLES call, pc, text
vars == <<call, pc, text>>

-----------------------------------------------------------------------------
(* Integers.                                                               *)
IntMin == -(2^(IntBits - 1))
Ints == {IntMin, IntMin + 1, -100, -10, -9, 0, 1, 9, 10, 99, 100, 1000, 2^IntBits - 1}
IntTypes == {"none", "hex", "oct", "bin"}

(* Only printf has a precision, and then no locale and no zeros.           *)
(* "0" sets alignment and fill; an alignment of its own keeps its fill.    *)
Alignments == [align : {"none", "left", "right", "center"}, fill : {<<"*">>}] \cup {[align |-> "numeric", fill |-> <<"0">>]}

IntSpecs == {sp \in
            {[NoSpecs EXCEPT !.type = t, !.sign = s, !.alt = a, !.upper = t = "hex" /\ a,
                             !.align = al.align, !.fill = al.fill, !.width = w, !.precision = p, !.localized = l] :
               t \in IntTypes, s \in {"none", "plus", "space"}, a \in BOOLEAN, al \in Alignments,
               w \in {0, 8}, p \in {-1, 5}, l \in BOOLEAN} :
            sp.precision = -1 \/ (~sp.localized /\ sp.align # "numeric")}

Locales == {Classic, [Classic EXCEPT !.grouping = <<3>>, !.sep = <<",">>],
            [Classic EXCEPT !.grouping = <<1, 2>>, !.sep = <<",">>],
            [Classic EXCEPT !.grouping = <<2, CharMax>>, !.sep = <<",">>]}

ClassicCall == {[api |-> "int", value |-> v, specs |-> s, loc |-> Classic] : v \in Ints, s \in {s \in IntSpecs : ~s.localized}}
LocaleCall == {[api |-> "int", value |-> v, specs |-> s, loc |-> l] :
                 v \in Ints, s \in {s \in IntSpecs : s.localized}, l \in Locales}
PlainCall == {[api |-> "plain", value |-> v, specs |-> NoSpecs, loc |-> Classic, bits |-> b] :
                v \in IntMin..(2^IntBits - 1), b \in {32, 64, 128}}
PointerCall == {[api |-> "pointer", value |-> v, loc |-> Classic,
                 specs |-> [NoSpecs EXCEPT !.type = "hex", !.alt = TRUE, !.width = w, !.fill = <<"*">>]] :
                  v \in 0..(2^IntBits - 1), w \in {0, 8}}
BoolCall == {[api |-> "bool", value |-> v, specs |-> s, loc |-> Classic] : v \in {0, 1}, s \in IntSpecs}
CharAsCall == {[api |-> "charAs", value |-> v, specs |-> s, loc |-> Classic] : v \in {0, 65, 255}, s \in IntSpecs}

FormatInt == call.api = "int" /\ text' = WriteInt(call.value, call.specs, call.loc)

FormatIntPlain ==
  /\ call.api = "plain"
  /\ LET abs == IF call.value < 0 THEN -call.value ELSE call.value
         count == CASE call.bits = 32 -> do_count_digits32(abs) [] call.bits = 64 -> do_count_digits64(abs)
                    [] call.bits = 128 -> count_digits_fallback(abs)
     IN  text' = WriteIntPlain(call.value, count)

FormatPointer == call.api = "pointer" /\ text' = write_ptr(call.value, call.specs)

FormatBool == call.api = "bool" /\ text' = WriteBool(call.value = 1, call.specs)
FormatCharAs == call.api = "charAs" /\ text' = WriteChar(call.value, call.specs, call.loc)

-----------------------------------------------------------------------------
(* Strings, of the bytes that are limits for the decoder.                  *)
SomeBytes == {10, 65, 92, 127, 128, 143, 144, 159, 160, 191, 194, 224, 237, 240, 244, 248}
SomeTails == {65, 128, 143, 144, 159, 160, 191, 240}
LastBytes == {65, 128, 191}
Leading == {224, 237, 240, 244}
ByteStrings == UNION {[1..n -> SomeBytes] : n \in 0..2} \cup {<<l, t>> \o s : l \in Leading, t \in SomeTails, s \in [1..2 -> LastBytes]}
               \cup {<<65>> \o EncodeUtf8(c) \o <<66>> : c \in {128, 173, 4352, 8203, 65535, 127744, MaxCodePoint}}
StringSpecs == {[NoSpecs EXCEPT !.type = "string", !.fill = <<42>>, !.precision = p, !.width = w] : p \in {-1, 1, 2}, w \in {0, 3}}
               \cup {[NoSpecs EXCEPT !.type = "string", !.fill = EncodeUtf8(4352), !.align = "center", !.width = 5, !.precision = 2],
                     [NoSpecs EXCEPT !.type = "debug", !.fill = <<32>>, !.width = 9]}

SomeUnits == {65, 128, 2048, 55295, 55296, 56319, 56320, 57343, 57344, 65535}
UnitStrings == UNION {[1..n -> SomeUnits] : n \in 0..3}
Debug == [NoSpecs EXCEPT !.type = "debug"]

StringCall == {[api |-> "string", value |-> s, specs |-> sp] : s \in ByteStrings, sp \in StringSpecs}
CharCall == {[api |-> "char", value |-> <<v>>, specs |-> Debug] : v \in 0..255}
Utf16Call == {[api |-> "utf16", value |-> s] : s \in ByteStrings}
Utf8Call == {[api |-> "utf8", value |-> u, wide |-> w, policy |-> p] :
               u \in UnitStrings, w \in BOOLEAN, p \in {"abort", "replace"}}
AlignCall == {[api |-> "align", value |-> <<c, a>>, rest |-> r] :
                c \in {65, 123, 125, 60, 128, 4352, 127744}, a \in {60, 94, 65}, r \in {<<>>, <<65>>}}

FormatString == call.api = "string" /\ text' = write_string(call.value, call.specs)
FormatChar == call.api = "char" /\ text' = write_debug_char(call.value[1], call.specs)
ToUtf16 == call.api = "utf16" /\ text' = utf8_to_utf16(call.value)
ToUtf8 == call.api = "utf8" /\ text' = to_utf8(call.value, call.wide, call.policy)
ParseAlign == /\ call.api = "align"
              /\ text' = <<parse_align(EncodeUtf8(call.value[1]) \o <<call.value[2]>> \o call.rest, NoSpecs)>>

-----------------------------------------------------------------------------
(* Floating-point numbers, printf and times.                               *)
FormatFloat == call.api = "float" /\ text' = write_float(call.value, call.specs, call.loc)
FormatPrintf == call.api = "printf" /\ text' = vprintf(FormatOf(call), call.args)

FormatDate == /\ call.api = "date"
              /\ text' = do_format(call.tm, <<>>, NoSpecs, Format(call.prefix, call.letters), TRUE)
FormatSystem == /\ call.api = "sys"
                /\ text' = FormatSysTime(call.count, call.num, call.den, NoSpecs, Format(<<>>, call.letters))
FormatLocal == /\ call.api = "local"
               /\ text' = FormatLocalTime(call.count, call.num, call.den, NoSpecs, Format(<<>>, call.letters))
FormatADuration == /\ call.api = "duration"
                   /\ text' = FormatDuration(call.count, call.num, call.den, call.specs, Format(<<>>, call.letters))
FormatAPart == call.api = "part" /\ text' = FormatPart(call.part, call.tm, call.specs, call.format)
FormatSome ==
  /\ call.api = "format"
  /\ text' = CASE call.kind = "tm" -> do_format(Tm(2004, 0, At0, 0), <<>>, NoSpecs, call.format, TRUE)
               [] call.kind = "local" -> FormatLocalTime(5, 1, 1, NoSpecs, call.format)
               [] call.kind = "duration" -> FormatDuration(5, 1, 1, NoSpecs, call.format)
Cast == call.api = "cast" /\ text' = duration_cast(call.count, call.from, call.to, call.num, call.den)

-----------------------------------------------------------------------------
IntegerCall == \/ call \in ClassicCall \/ call \in LocaleCall \/ call \in PlainCall
               \/ call \in PointerCall \/ call \in BoolCall \/ call \in CharAsCall
TextCall == call \in StringCall \/ call \in CharCall \/ call \in Utf16Call \/ call \in Utf8Call \/ call \in AlignCall
TimeCall == \/ call \in DateCall \/ call \in FormCall \/ call \in PointCall \/ call \in DurationCall
            \/ call \in FormatCall \/ call \in CastCall \/ call \in PartCall
PrintfCall == /\ \/ call \in NumberCall \/ call \in LengthCall \/ call \in WordCall
                 \/ call \in PairCall \/ call \in CutCall \/ call \in WideCall \/ call \in StarCall
              /\ ~LeftOut(call)
FloatCall == call \in ShortestCall \/ call \in PreciseCall \/ call \in FormedCall \/ call \in LimitCall

Init == pc = "called" /\ text = <<>> /\ (PrintfCall \/ TimeCall \/ TextCall \/ IntegerCall \/ FloatCall)

Next == /\ pc = "called" /\ pc' = "returned" /\ UNCHANGED call
        /\ \/ FormatInt \/ FormatIntPlain \/ FormatPointer \/ FormatBool \/ FormatCharAs
           \/ FormatString \/ FormatChar \/ ToUtf16 \/ ToUtf8 \/ ParseAlign
           \/ FormatDate \/ FormatSystem \/ FormatLocal \/ FormatADuration \/ FormatAPart \/ FormatSome \/ Cast
           \/ FormatPrintf \/ FormatFloat

Spec == Init /\ [][Next]_vars

-----------------------------------------------------------------------------
Returned(apis) == pc = "returned" /\ call.api \in apis

(* A field as wide as asked for, and in it the value: as many digits as it *)
(* has or, with precision or zeros for padding, as asked for.  With a      *)
(* locale the groups of digits are apart and no zeros are added to them.   *)
IntegersReadBack == Returned({"int", "plain", "pointer", "bool", "charAs"}) => IntegerCallReads(call, text)

(* Strings keep within their width and precision without a character being *)
(* torn, what is escaped can be read, and conversions keep the string.     *)
StringsFit == Returned({"string", "char", "utf16", "utf8", "align"}) => StringCallReads(call, text)

(* Times are those of the calendar: the date, the week of the year by two  *)
(* reckonings and the ISO one, the clock, the fraction of the second as    *)
(* exact as it can be; a duration has its sign once; a format is refused   *)
(* exactly if its kind of time has no such part; a conversion of periods   *)
(* is cut towards zero, and refused only if it is too large for its type.  *)
TimesAreRight ==
  /\ Returned({"date"}) => DateIsRight(call, text)
  /\ Returned({"sys", "local"}) => TimePointIsRight(call, text)
  /\ Returned({"duration"}) => DurationIsRight(call, text)
  /\ Returned({"part"}) => PartIsRight(call, text)
  /\ Returned({"format"}) => FormatIsRead(call, text)
  /\ Returned({"cast"}) => CastIsRight(call, text)

(* printf prints what the C standard says, where the call is one that the  *)
(* standard defines, and else refuses the format; what is left out is in   *)
(* LeftOut of MCFmtPrintf.                                                 *)
PrintfAgrees == Returned({"printf"}) => PrintfIsRight(call, text)

(* The text of a floating-point number is the nearest of so many digits,   *)
(* the even one of two, or the shortest that is read back as the number.   *)
FloatsAreRight == Returned({"float"}) => FloatIsRight(call, text)
=============================================================================
