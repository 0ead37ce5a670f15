------------------------------ MODULE FmtTimes ------------------------------
(***************************************************************************)
(* What a text of a time must be, by the calendar and not by the way it is *)
(* computed.  A format here is a list of specifiers with a bar after each, *)
(* so that a text falls into its pieces.                                   *)
(***************************************************************************)
EXTENDS FmtChrono

Format(prefix, letters) == FlattenSeq([i \in DOMAIN letters |-> <<"%">> \o prefix \o <<letters[i], "|">>])

RECURSIVE PiecesOf(_)
PiecesOf(text) ==
  IF text = <<>> THEN <<>>
  ELSE LET bar == CHOOSE i \in DOMAIN text : text[i] = "|" /\ \A j \in 1..(i - 1) : text[j] # "|"
       IN  <<SubSeq(text, 1, bar - 1)>> \o PiecesOf(SubSeq(text, bar + 1, Len(text)))

Unfilled(text) == SelectSeq(text, LAMBDA c : c # "*")
Pieces(call, text) ==
  LET ps == PiecesOf(Unfilled(text))
  IN  [c \in ToSet(call.letters) |-> ps[CHOOSE i \in DOMAIN call.letters : call.letters[i] = c]]

-----------------------------------------------------------------------------
(* Numbers in a text: with a sign before them, or spaces or zeros.         *)
DigitOf == [c \in ToSet(SubSeq(Lower, 1, 10)) |-> (CHOOSE i \in 1..10 : Lower[i] = c) - 1]
AreDigits(t) == t # <<>> /\ \A i \in DOMAIN t : t[i] \in DOMAIN DigitOf
Natural(t) == FoldLeft(LAMBDA v, c : v * 10 + DigitOf[c], 0, t)
Reads(t, n) ==
  LET s == SelectSeq(t, LAMBDA c : c # " ")
  IN  IF n < 0 THEN Head(s) = "-" /\ AreDigits(Tail(s)) /\ Natural(Tail(s)) = -n ELSE AreDigits(s) /\ Natural(s) = n

TwoDigits(t, n) == Len(t) = 2 /\ AreDigits(t) /\ Natural(t) = n

(* A second and its fraction: as many digits as make it exact, or six, or  *)
(* as the precision says, and those that are left out are cut.             *)
ExactDigits(num, den) ==
  LET exact == {n \in 0..6 : (num * 10^n) % den = 0} IN IF exact = {} THEN 6 ELSE Min(exact)
Seconds(t, s, rest, num, den, precision) ==
  LET exact == ExactDigits(num, den)
      has == IF precision < 0 THEN exact ELSE precision
      kept == IF has < exact THEN has ELSE exact
      part == SubSeq(t, 4, Len(t))
  IN  /\ TwoDigits(SubSeq(t, 1, 2), s)
      /\ IF has = 0 THEN Len(t) = 2
         ELSE /\ t[3] = "." /\ Len(part) = has /\ AreDigits(part)
              /\ Natural(SubSeq(part, 1, kept)) = (rest * 10^kept) \div den
              /\ \A i \in (kept + 1)..has : part[i] = "0"

-----------------------------------------------------------------------------
(* The calendar.                                                           *)
YearLength(year) == IF IsLeap(year) THEN 366 ELSE 365
MonthLength(year, month) ==
  CASE month = 2 -> YearLength(year) - 337 [] month \in {4, 6, 9, 11} -> 30 [] OTHER -> 31
WeekdayOf(year, yday) == (DaysBefore(year) + yday - DaysBefore(2000) + 6) % 7  \* 2000 began on a Saturday
DayOf(days) == CHOOSE d \in {<<y, days - DaysBefore(y)>> : y \in (days \div 366 - 1)..(days \div 365 + 1)} :
                 d[2] >= 0 /\ d[2] < YearLength(d[1])
WeekdaysUntil(year, yday, wday) == Cardinality({k \in 0..yday : WeekdayOf(year, k) = wday})

(* The Thursday of a week, from its Monday, says its year and number.      *)
IsoWeek(year, yday) ==
  LET thursday == DaysBefore(year) + yday + 3 - ((WeekdayOf(year, yday) + 6) % 7)
      day == DayOf(thursday)
  IN  [year |-> day[1], week |-> day[2] \div 7 + 1]

All == <<"F", "Y", "m", "d", "C", "y", "D", "x", "c", "a", "A", "b", "h", "B", "e", "T", "R", "X", "H", "I", "M", "S",
         "r", "p", "j", "U", "W", "V", "G", "g", "u", "w", "z", "Z">>
Padded == <<"Y", "m", "d", "H", "I", "M", "S", "j", "U", "W", "V">>
WithE == <<"Y", "y", "C", "c", "x", "X", "z">>
WithO == <<"y", "m", "U", "W", "V", "d", "e", "w", "u", "H", "I", "M", "z">>

ShortNames == [Sunday |-> "Sun", Monday |-> "Mon", Tuesday |-> "Tue", Wednesday |-> "Wed", Thursday |-> "Thu",
          Friday |-> "Fri", Saturday |-> "Sat"]
Weekdays == <<"Monday", "Tuesday", "Wednesday", "Thursday", "Friday", "Saturday", "Sunday">>

DateReads(p, year, yday) ==
  \E month \in 1..12 :
    LET day == yday + 1 - FoldLeft(LAMBDA a, b : a + b, 0, [m \in 1..(month - 1) |-> MonthLength(year, m)])
    IN  /\ day \in 1..MonthLength(year, month)
        /\ TwoDigits(p["m"], month) /\ TwoDigits(p["d"], day) /\ Reads(p["e"], day) /\ Len(p["e"]) = 2
        /\ Reads(p["Y"], year) /\ Len(p["Y"]) >= 4
        /\ p["C"] \o p["y"] = p["Y"]
        /\ p["F"] = p["Y"] \o <<"-">> \o p["m"] \o <<"-">> \o p["d"]
        /\ p["D"] = p["m"] \o <<"/">> \o p["d"] \o <<"/">> \o p["y"] /\ p["x"] = p["D"]
        /\ Len(p["j"]) = 3 /\ Reads(p["j"], yday + 1)
        /\ p["b"] = p["h"] /\ p["b"] = tm_mon_short_name(month - 1) /\ p["B"] = tm_mon_full_name(month - 1)

(* Weeks of the year, and those of ISO 8601 in years from 1 on: before,    *)
(* division of the code, which cuts towards zero, finds other weeks.       *)
WeekReads(p, year, yday) ==
  LET iso == IsoWeek(year, yday)
  IN  /\ Reads(p["u"], ((WeekdayOf(year, yday) + 6) % 7) + 1) /\ Reads(p["w"], WeekdayOf(year, yday))
      /\ p["A"] = <<Weekdays[Natural(p["u"])]>> /\ p["a"] = <<ShortNames[p["A"][1]]>>
      /\ TwoDigits(p["U"], WeekdaysUntil(year, yday, 0)) /\ TwoDigits(p["W"], WeekdaysUntil(year, yday, 1))
      /\ year >= 1 => /\ Reads(p["G"], iso.year) /\ TwoDigits(p["V"], iso.week)
                      /\ TwoDigits(p["g"], iso.year % 100)

TimeOfDayReads(p, hour, min, sec) ==
  LET noon == p["p"] = <<"P", "M">>
      T == p["H"] \o <<":">> \o p["M"] \o <<":">> \o p["S"]
  IN  /\ TwoDigits(p["H"], hour) /\ TwoDigits(p["M"], min) /\ TwoDigits(SubSeq(p["S"], 1, 2), sec)
      /\ \E h \in 1..12 : TwoDigits(p["I"], h) /\ hour = (h % 12) + (IF noon THEN 12 ELSE 0)
      /\ noon \/ p["p"] = <<"A", "M">>
      /\ p["T"] = T /\ p["X"] = T /\ p["R"] = p["H"] \o <<":">> \o p["M"]
      /\ p["r"] = p["I"] \o <<":">> \o p["M"] \o <<":">> \o SubSeq(p["S"], 1, 2) \o <<" ">> \o p["p"]

(* All pieces but the year, which is padded with spaces in "%c".           *)
DatetimeReads(p, year) ==
  LET before == p["a"] \o <<" ">> \o p["b"] \o <<" ">> \o p["e"] \o <<" ">> \o p["T"] \o <<" ">>
      rest == SubSeq(p["c"], Len(before) + 1, Len(p["c"]))
  IN  SubSeq(p["c"], 1, Len(before)) = before /\ Reads(rest, year) /\ Len(rest) >= 4

(* Without padding, or with spaces for zeros, unless it is the day of the  *)
(* year: the code takes the zero in 105, too, for padding.                 *)
Unpadded(t) ==
  LET sign == IF Head(t) = "-" THEN <<"-">> ELSE <<>>
      s == SelectSeq(t, LAMBDA c : c # "-")
      first == CHOOSE i \in DOMAIN s : (s[i] # "0" \/ i = Len(s)) /\ \A j \in 1..(i - 1) : s[j] = "0"
  IN  sign \o SubSeq(s, first, Len(s))
PaddedReads(p, plain, prefix, yday) ==
  \A c \in DOMAIN p :
    LET bare == Unpadded(plain[c])
    IN  CASE c = "j" /\ yday >= 99 /\ (yday + 1) % 100 < 10 -> TRUE
          [] prefix = <<"-">> -> p[c] = bare
          [] OTHER -> p[c] = Repeat(<<" ">>, Len(plain[c]) - Len(bare)) \o bare

OffsetReads(t, offset, colon) ==
  LET minutes == (IF offset < 0 THEN -offset ELSE offset) \div 60
  IN  /\ t[1] = IF offset < 0 THEN "-" ELSE "+"
      /\ TwoDigits(SubSeq(t, 2, 3), minutes \div 60) /\ TwoDigits(SubSeq(t, Len(t) - 1, Len(t)), minutes % 60)
      /\ IF colon THEN Len(t) = 6 /\ t[4] = ":" ELSE Len(t) = 5

-----------------------------------------------------------------------------
(* A calendar time by all its specifiers, or by other forms of some.       *)
PlainText(call, letters) == do_format(call.tm, <<>>, NoSpecs, Format(<<>>, letters), TRUE)
PiecesAreRight(call, p, plain) ==
  LET tm == call.tm
      year == tm.tm_year + 1900
  IN  CASE call.prefix = <<>> -> /\ DateReads(p, year, tm.tm_yday) /\ WeekReads(p, year, tm.tm_yday)
                                 /\ TimeOfDayReads(p, tm.tm_hour, tm.tm_min, tm.tm_sec) /\ DatetimeReads(p, year)
                                 /\ OffsetReads(p["z"], tm.tm_gmtoff, FALSE) /\ p["Z"] = <<tm.tm_zone>>
        [] call.prefix \in {<<"-">>, <<"_">>} -> PaddedReads(p, plain, call.prefix, tm.tm_yday)
        [] OTHER -> /\ \A c \in DOMAIN p \ {"z"} : p[c] = plain[c]
                    /\ OffsetReads(p["z"], tm.tm_gmtoff, TRUE)
DateIsRight(call, text) == PiecesAreRight(call, Pieces(call, text), Pieces(call, PlainText(call, call.letters)))

(* A point in time is the second it is in and, counted from there also     *)
(* before the epoch, the fraction.  Local time only counts so after it.    *)
TimePointIsRight(call, text) ==
  LET p == Pieces(call, text)
      total == call.count * call.num
      s == total \div call.den
      day == DayOf(DaysBefore(1970) + s \div 86400)
  IN  call.api = "sys" \/ call.count >= 0 =>
        /\ DateReads(p, day[1], day[2]) /\ WeekReads(p, day[1], day[2])
        /\ TimeOfDayReads(p, (s % 86400) \div 3600, (s % 3600) \div 60, s % 60)
        /\ Seconds(p["S"], s % 60, total % call.den, call.num, call.den, -1)
PointLetters == SelectSeq(All, LAMBDA c : c \notin {"z", "Z", "c"})

(* A duration is its sign, once, and what its numbers add up to.           *)
DurationReads(call, text) ==
  LET total == (IF call.count < 0 THEN -call.count ELSE call.count) * call.num
      s == total \div call.den
      signs == Len(SelectSeq(text, LAMBDA c : c = "-"))
      signed == call.count < 0 /\ ToSet(call.letters) \cap {"j", "H", "I", "M", "S", "T", "R", "Q"} # {}
      p == Pieces(call, SelectSeq(text, LAMBDA c : c # "-"))
      pieces == PiecesOf(Unfilled(text))
      has(c) == c \in DOMAIN p
      seconds(t) == Seconds(t, s % 60, total % call.den, call.num, call.den, call.specs.precision)
      clock(t) == TwoDigits(SubSeq(t, 1, 2), (s \div 3600) % 24) /\ t[3] = ":" /\ TwoDigits(SubSeq(t, 4, 5), (s \div 60) % 60)
      first == CHOOSE i \in DOMAIN pieces : call.letters[i] \notin {"p", "r", "q"}
                 /\ \A j \in 1..(i - 1) : call.letters[j] \in {"p", "r", "q"}
  IN  /\ signs = IF signed THEN 1 ELSE 0
      /\ signed => pieces[first][1] = "-"
      /\ has("j") => Reads(p["j"], s \div 86400)
      /\ has("H") => TwoDigits(p["H"], (s \div 3600) % 24)
      /\ has("M") => TwoDigits(p["M"], (s \div 60) % 60)
      /\ has("S") => seconds(p["S"])
      /\ has("T") => clock(SubSeq(p["T"], 1, 5)) /\ p["T"][6] = ":" /\ seconds(SubSeq(p["T"], 7, Len(p["T"])))
      /\ has("R") => clock(p["R"]) /\ Len(p["R"]) = 5
      /\ has("I") /\ has("p") =>
           \E h \in 1..12 : /\ TwoDigits(p["I"], h)
                            /\ (h % 12) + (IF p["p"] = <<"P", "M">> THEN 12 ELSE 0) = (s \div 3600) % 24
      /\ has("Q") => Reads(p["Q"], total \div call.num)
DurationIsRight(call, text) ==
  IF "Q" \in ToSet(call.letters) /\ call.specs.precision # -1 THEN text = Error ELSE text # Error /\ DurationReads(call, text)
DurationLetters == {<<"j", "H", "M", "S">>, <<"T", "R">>, <<"p", "I">>, <<"r", "p", "q">>, <<"Q", "q">>}

-----------------------------------------------------------------------------
(* A format starts with a specifier, and all of it up to a brace are       *)
(* specifiers that its kind of value has, and text.                        *)
LettersOf(kind) == IF kind = "duration" THEN {"n", "t", "%", "j", "H", "I", "M", "S", "r", "R", "T", "p", "q", "Q"}
                   ELSE ((ToSet(All) \ {"z", "Z"}) \cup {"n", "t", "%"}) \cup (IF kind = "local" THEN {} ELSE {"z", "Z"})
WordsOf(kind) ==
  LET letters == LettersOf(kind)
      E == IF kind = "duration" THEN {} ELSE ToSet(WithE) \cap (letters \cup {"y"})
      O == (ToSet(WithO) \cup {"S"}) \cap letters
      bodies == {<<c>> : c \in letters} \cup {<<"E", c>> : c \in E} \cup {<<"O", c>> : c \in O}
  IN  {<<"%">> \o pad \o b : pad \in {<<>>, <<"-">>, <<"_">>}, b \in bodies}

RECURSIVE Sentence(_, _)
Sentence(words, s) ==
  \/ s = <<>> \/ Head(s) = "}"
  \/ Head(s) # "%" /\ Head(s) # "}" /\ Sentence(words, Tail(s))
  \/ \E n \in 2..4 : n <= Len(s) /\ SubSeq(s, 1, n) \in words /\ Sentence(words, SubSeq(s, n + 1, Len(s)))

FormatIsRead(call, text) ==
  (text # Error) <=> ((call.format = <<>> \/ Head(call.format) \in {"%", "}"}) /\ Sentence(WordsOf(call.kind), call.format))

(* A count is converted exactly, cut towards zero, or refused; and refused *)
(* only if it, the product or the result is too large for a type.          *)
CastIsRight(call, text) ==
  LET rep == common_rep(call.from, call.to)
      holds(r, n) == MinOf(r) <= n /\ n <= MaxOf(r)
      product == call.count * call.num
      result == IF product < 0 THEN -((-product) \div call.den) ELSE product \div call.den
  IN  text = IF holds(rep, call.count) /\ holds(rep, product) /\ holds(call.to, result) THEN <<result>> ELSE Refused

PartIsRight(call, text) ==
  LET letter == [day |-> "d", year |-> "Y", month |-> "b", weekday |-> "a", year_month_day |-> "F"]
      default == call.format = <<>>
  IN  text = do_format(call.tm, <<>>, IF default THEN NoSpecs ELSE call.specs,
                       IF default THEN <<"%", letter[call.part]>> ELSE call.format, TRUE)
=============================================================================
