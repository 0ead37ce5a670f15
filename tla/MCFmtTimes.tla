------------------------------ MODULE MCFmtTimes ------------------------------
(***************************************************************************)
(* Dates, times and durations to write, and formats to write them with.    *)
(***************************************************************************)
EXTENDS FmtTimes

(* The ends of every year of a cycle of weekdays and of some at the limits *)
(* of what is written with four digits; the year 0, and years before it.   *)
Years == {-1001, -400, -101, -100, -99, -1, 0, 1, 2, 4, 99, 100, 1583, 1970, 9999, 10000} \cup (1996..2024)
YearDays(y) == (0..9) \cup {58, 59, 60, 98, 99, 104, 105, 199} \cup {YearLength(y) - k : k \in 1..8}
Clocks == {<<0, 0, 0>>, <<1, 9, 10>>, <<11, 59, 59>>, <<12, 0, 1>>, <<23, 59, 60>>}
At0 == <<0, 0, 0>>
Tm(y, d, clock, offset) ==
  [CalendarDay(y, d) EXCEPT !.tm_hour = clock[1], !.tm_min = clock[2], !.tm_sec = clock[3], !.tm_gmtoff = offset]

Date(tm, prefix, letters) == [api |-> "date", tm |-> tm, prefix |-> prefix, letters |-> letters]
DateCall == {Date(Tm(d[1], d[2], At0, 0), <<>>, All) : d \in UNION {{y} \X YearDays(y) : y \in Years}}
FormCall == {Date(Tm(y, d, clock, offset), f[1], f[2]) :
               y \in {-5, 7, 2004, 10000}, d \in {0, 8, 9, 59, 98, 99, 104, 350}, clock \in Clocks,
               offset \in {0, 5400, -34200, 43261},
               f \in {<<<<>>, All>>, <<<<"-">>, Padded>>, <<<<"_">>, Padded>>, <<<<"E">>, WithE>>, <<<<"O">>, WithO>>}}

(* Seconds, tens, thirds and thousandths of one, and minutes.              *)
Periods == {<<1, 1>>, <<1, 10>>, <<1, 3>>, <<60, 1>>, <<1, 1000>>}
Counts == {-1001, -1000, -999, -60, -1, 0, 1, 5, 59, 600, 999, 1050, 3600, 43200, 45000, 86399, 86400}
PointCall ==
  {[api |-> a, count |-> c, num |-> p[1], den |-> p[2], letters |-> PointLetters] :
     a \in {"sys", "local"}, p \in Periods, c \in Counts}

(* With a precision too, which "%Q" of an integer refuses.                 *)
DurationCall ==
  {[api |-> "duration", count |-> c, num |-> p[1], den |-> p[2], letters |-> l,
    specs |-> [NoSpecs EXCEPT !.precision = precision, !.width = w, !.fill = <<"*">>]] :
     p \in Periods, c \in Counts, l \in DurationLetters, precision \in {-1, 0, 1, 2, 4, 7}, w \in {0, 20}}

FormatChars == {"%", "-", "E", "Y", "S", "Q", "z", "}"}
FormatCall ==
  {[api |-> "format", kind |-> k, format |-> f] :
     k \in {"tm", "local", "duration"},
     f \in {<<"%">> \o chars : chars \in UNION {[1..n -> FormatChars] : n \in 0..3}}
           \cup {<<>>, <<"Y">>, <<"}">>, <<"%", "S", "Y">>}}

(* Conversions between counts of 4, 7 and 11 bits.                         *)
Reps == [bits : {4, 7, 11}, signed : BOOLEAN]
CastCalls ==
  {[api |-> "cast", count |-> n, from |-> r, to |-> q, num |-> f[1], den |-> f[2]] :
     n \in {-1024, -342, -341, -100, -64, -9, -8, -1, 0, 1, 7, 8, 15, 16, 63, 64, 127, 128, 341, 342, 682, 683, 1023, 1024, 2047},
     r \in Reps, q \in Reps, f \in {<<1, 1>>, <<3, 1>>, <<1, 3>>, <<1, 60>>, <<60, 1>>, <<3, 2>>}}
CastCall == {c \in CastCalls : c.count \in MinOf(c.from)..MaxOf(c.from)}

PartCall ==
  {[api |-> "part", part |-> p, tm |-> Tm(y, d, At0, 0), format |-> f, specs |-> NoSpecs] :
     p \in {"day", "month", "year", "weekday", "year_month_day"}, y \in {-7, 2004, 10000}, d \in {0, 60, 364},
     f \in {<<>>, <<"%", "F">>}}
=============================================================================
