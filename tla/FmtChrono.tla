----------------------------- MODULE FmtChrono ------------------------------
(***************************************************************************)
(* fmt: dates, times of day and durations of whole counts, by formats such *)
(* as "%F %T", in the classic locale.  Other locales and floating-point    *)
(* counts, which the C and C++ libraries write, are left out.              *)
(***************************************************************************)
EXTENDS FmtInt

Quot(a, b) == IF a < 0 THEN -((-a) \div b) ELSE a \div b  \* a / b and a % b of C++
Rem(a, b) == a - b * Quot(a, b)

(* An integer type has so many bits, with a sign or not.                   *)
MaxOf(rep) == 2^(rep.bits - (IF rep.signed THEN 1 ELSE 0)) - 1
MinOf(rep) == IF rep.signed THEN -MaxOf(rep) - 1 ELSE 0
Digits(rep) == rep.bits - (IF rep.signed THEN 1 ELSE 0)

(* Whether n can be converted: ec stays 0.                                 *)
lossless_integral_conversion(n, from, to) ==
  CASE from.signed = to.signed -> Digits(from) <= Digits(to) \/ (MinOf(to) <= n /\ n <= MaxOf(to))
    [] from.signed /\ ~to.signed -> n >= 0 /\ ~(Digits(from) > Digits(to) /\ n > MaxOf(to))
    [] ~from.signed /\ to.signed -> ~(Digits(from) >= Digits(to) /\ n > MaxOf(to))

common_rep(from, to) ==
  [bits |-> IntBits, signed |-> ~\E r \in {from, to} : r.bits = IntBits /\ ~r.signed]

Refused == <<>>
duration_cast(n, from, to, num, den) ==
  LET rep == common_rep(from, to)
      fits == n <= MaxOf(rep) \div num /\ (rep.signed => n >= Quot(MinOf(rep), num))
      count == Quot(n * num, den)
  IN  IF /\ lossless_integral_conversion(n, from, rep)
         /\ num = 1 \/ fits
         /\ lossless_integral_conversion(count, rep, to)
      THEN <<count>> ELSE Refused

-----------------------------------------------------------------------------
(* Two digits of a number by its decimal code, for three of them at once.  *)
Bcd(x) == x + (((x * 205) \div 2^11) % 16) * 6
write_digit2(x) == <<Lower[((Bcd(x) \div 16) % 16) + 1], Lower[(Bcd(x) % 16) + 1]>>
write_digit2_separated(a, b, c, sep) ==
  write_digit2(a) \o <<sep>> \o write_digit2(b) \o <<sep>> \o write_digit2(c)

get_units == <<1, 1000000>> :> <<"us">> @@ <<1, 1000>> :> <<"ms">> @@ <<1, 100>> :> <<"cs">> @@ <<1, 10>> :> <<"ds">>
             @@ <<1, 1>> :> <<"s">> @@ <<10, 1>> :> <<"das">> @@ <<100, 1>> :> <<"hs">> @@ <<1000, 1>> :> <<"ks">>
             @@ <<60, 1>> :> <<"min">> @@ <<3600, 1>> :> <<"h">> @@ <<86400, 1>> :> <<"d">>

write_padding(pad, width) ==
  IF pad = "none" THEN <<>> ELSE Repeat(IF pad = "space" THEN <<" ">> ELSE <<"0">>, width)

(* The handler that a specifier calls.                                     *)
Specifiers ==
  [Y |-> "year", y |-> "short_year", C |-> "century", G |-> "iso_week_based_year", g |-> "iso_week_based_short_year",
   a |-> "abbr_weekday", A |-> "full_weekday", w |-> "dec0_weekday", u |-> "dec1_weekday",
   b |-> "abbr_month", h |-> "abbr_month", B |-> "full_month", m |-> "dec_month",
   U |-> "dec0_week_of_year", W |-> "dec1_week_of_year", V |-> "iso_week_of_year",
   j |-> "day_of_year", d |-> "day_of_month", e |-> "day_of_month",
   H |-> "24_hour", I |-> "12_hour", M |-> "minute", S |-> "second",
   c |-> "datetime", x |-> "loc_date", X |-> "loc_time", D |-> "us_date", F |-> "iso_date",
   r |-> "12_hour_time", R |-> "24_hour_time", T |-> "iso_time", p |-> "am_pm",
   Q |-> "duration_value", q |-> "duration_unit", z |-> "utc_offset", Z |-> "tz_name",
   n |-> "newline", t |-> "tab"] @@ "%" :> "percent"
AfterE == [c \in {"Y", "C", "c", "x", "X", "z"} |-> Specifiers[c]] @@ "y" :> "offset_year"
AfterO == [c \in {"y", "m", "U", "W", "V", "d", "e", "w", "u", "H", "I", "M", "S", "z"} |-> Specifiers[c]]

Characters == [newline |-> "\n", tab |-> "\t", percent |-> "%"]
On(handler, ns, pad) == [on |-> handler, ns |-> ns, pad |-> pad, text |-> <<>>]
OnText(text) == [on |-> "text", ns |-> "standard", pad |-> "zero", text |-> text]
Invalid_format == OnText(Error)


(* What the specifier at i calls, and where it ends.                       *)
SpecifierAt(s, i) ==
  LET pad == CASE At(s, i + 1) = "_" -> "space" [] At(s, i + 1) = "-" -> "none" [] OTHER -> "zero"
      first == IF pad = "zero" THEN i + 1 ELSE i + 2
      table == CASE At(s, first) = "E" -> AfterE [] At(s, first) = "O" -> AfterO [] OTHER -> Specifiers
      last == IF table = Specifiers THEN first ELSE first + 1
      handler == table[s[last]]
  IN  [to |-> last,
       call |-> CASE At(s, last) \notin DOMAIN table -> Invalid_format
                  [] At(s, last) \in {"n", "t", "%"} -> OnText(<<Characters[handler]>>)
                  [] OTHER -> On(handler, IF last = first THEN "standard" ELSE "alternative",
                                 IF s[last] = "e" THEN "space" ELSE pad)]

RECURSIVE ParseFrom(_, _)
ParseAfter(s, sp) == <<sp.call>> \o (IF sp.call = Invalid_format THEN <<>> ELSE ParseFrom(s, sp.to + 1))
ParseFrom(s, i) ==
  CASE At(s, i) \in {"end", "}"} -> <<>>
    [] At(s, i) = "%" -> ParseAfter(s, SpecifierAt(s, i))
    [] OTHER -> LET to == CHOOSE j \in i..Len(s) : At(s, j + 1) \in {"end", "}", "%"}
                                                   /\ \A k \in i..j : s[k] \notin {"}", "%"}
                IN  <<OnText(SubSeq(s, i, to))>> \o ParseFrom(s, to + 1)

(* The handlers that a format calls, up to the first that is invalid.      *)
parse_chrono_format(s) ==
  IF At(s, 1) \in {"end", "}", "%"} THEN ParseFrom(s, 1) ELSE <<Invalid_format>>

-----------------------------------------------------------------------------
(* What formats of dates and of durations may have.                        *)
Handlers == {Specifiers[c] : c \in DOMAIN Specifiers} \cup {"offset_year", "text"}

tm_format_checker(has_timezone) ==
  (Handlers \ {"duration_value", "duration_unit"}) \ (IF has_timezone THEN {} ELSE {"utc_offset", "tz_name"})

chrono_format_checker(has_precision) ==
  {"text", "day_of_year", "24_hour", "12_hour", "minute", "second", "12_hour_time", "24_hour_time", "iso_time",
   "am_pm", "duration_unit"} \cup (IF has_precision THEN {} ELSE {"duration_value"})

IsBad(calls, allowed) == \E i \in DOMAIN calls : calls[i] = Invalid_format \/ calls[i].on \notin allowed

-----------------------------------------------------------------------------
(* A calendar time, struct tm, and what is read from it.  A name is one    *)
(* unit of text.                                                           *)
tm_wday_short_name(wday) == <<<<"Sun", "Mon", "Tue", "Wed", "Thu", "Fri", "Sat">>[wday + 1]>>
tm_wday_full_name(wday) ==
  <<<<"Sunday", "Monday", "Tuesday", "Wednesday", "Thursday", "Friday", "Saturday">>[wday + 1]>>
tm_mon_short_name(mon) ==
  <<<<"Jan", "Feb", "Mar", "Apr", "May", "Jun", "Jul", "Aug", "Sep", "Oct", "Nov", "Dec">>[mon + 1]>>
tm_mon_full_name(mon) ==
  <<<<"January", "February", "March", "April", "May", "June",
      "July", "August", "September", "October", "November", "December">>[mon + 1]>>

tm_year(tm) == 1900 + tm.tm_year
tm_hour12(tm) == IF tm.tm_hour % 12 = 0 THEN 12 ELSE tm.tm_hour % 12

split_year_lower(year) == LET l == Rem(year, 100) IN IF l < 0 THEN -l ELSE l

(* Mutant: only the years that end on a Thursday.                          *)
iso_year_weeksByEnd(year) ==
  52 + (IF Rem(year + Quot(year, 4) - Quot(year, 100) + Quot(year, 400), 7) = 4 THEN 1 ELSE 0)

iso_year_weeks(year) ==
  LET p(y) == Rem(y + Quot(y, 4) - Quot(y, 100) + Quot(y, 400), 7)
  IN  52 + (IF p(year) = 4 \/ p(year - 1) = 3 THEN 1 ELSE 0)

iso_week_num(tm) == Quot(tm.tm_yday + 11 - (IF tm.tm_wday = 0 THEN 7 ELSE tm.tm_wday), 7)
tm_iso_week_year(tm) ==
  LET w == iso_week_num(tm)
  IN  CASE w < 1 -> tm_year(tm) - 1 [] w > iso_year_weeks(tm_year(tm)) -> tm_year(tm) + 1 [] OTHER -> tm_year(tm)
tm_iso_week_of_year(tm) ==
  LET w == iso_week_num(tm)
  IN  CASE w < 1 -> iso_year_weeks(tm_year(tm) - 1) [] w > iso_year_weeks(tm_year(tm)) -> 1 [] OTHER -> w

write1(value) == <<Lower[(value % 10) + 1]>>
write2(value) == digits2(value % 100)
write2_padded(value, pad) ==
  LET v == value % 100 IN IF v >= 10 THEN digits2(v) ELSE write_padding(pad, 1) \o write1(v)

write_year_extended(year, pad) ==
  LET digits == do_format_decimal(IF year < 0 THEN 0 - year ELSE year)
      width == IF year < 0 THEN 3 ELSE 4
      padding == write_padding(pad, IF width > Len(digits) THEN width - Len(digits) ELSE 0)
  IN  CASE year < 0 /\ pad = "zero" -> <<"-">> \o padding \o digits
        [] year < 0 /\ pad # "zero" -> padding \o <<"-">> \o digits
        [] year >= 0 -> padding \o digits

write_utc_offset(offset, ns) ==
  LET minutes == (IF offset < 0 THEN -offset ELSE offset) \div 60
  IN  <<IF offset < 0 THEN "-" ELSE "+">> \o write2(minutes \div 60)
      \o (IF ns # "standard" THEN <<":">> ELSE <<>>) \o write2(minutes % 60)

-----------------------------------------------------------------------------
(* Fractions of a second: as many digits as the period needs, up to 18.    *)
RECURSIVE DigitsFrom(_, _, _)
DigitsFrom(r, den, n) == IF r = 0 THEN n ELSE IF n = 18 THEN 6 ELSE DigitsFrom((r * 10) % den, den, n + 1)
count_fractional_digits(num, den) == DigitsFrom(num % den, den, 0)

Word == 2^26  \* a bound for 2^64: what a negative count wraps at
fill_n(n, c) == Repeat(<<c>>, n)

write_fractional_seconds(count, num, den, precision) ==
  LET num_fractional_digits == count_fractional_digits(num, den)
      n == Quot(Rem(count * num, den) * 10^num_fractional_digits, den) % Word
      digits == do_format_decimal(n)
      num_digits == Len(digits)
      zeros == IF num_fractional_digits > num_digits THEN num_fractional_digits - num_digits ELSE 0
      leading == IF zeros < precision THEN zeros ELSE precision
      remaining == precision - leading
      truncated == n \div 10^(num_digits - remaining)
  IN  CASE precision < 0 /\ num_fractional_digits > 0 -> <<".">> \o fill_n(zeros, "0") \o digits
        [] precision > 0 /\ remaining < num_digits ->
             <<".">> \o fill_n(leading, "0") \o (IF truncated # 0 THEN do_format_decimal(truncated) ELSE <<>>)
        [] precision > 0 /\ remaining >= num_digits ->
             <<".">> \o fill_n(leading, "0")
             \o (IF n # 0 THEN digits \o fill_n(remaining - num_digits, "0") ELSE fill_n(remaining, "0"))
        [] OTHER -> <<>>

-----------------------------------------------------------------------------
(* tm_writer: what each handler writes of a calendar time.  fraction is    *)
(* the fraction of its second, written with the second.                    *)
on_second(tm, fraction, pad) == write2_padded(tm.tm_sec, pad) \o fraction
on_24_hour_time(tm) == write2(tm.tm_hour) \o <<":">> \o write2(tm.tm_min)
on_iso_time(tm, fraction) == on_24_hour_time(tm) \o <<":">> \o on_second(tm, fraction, "zero")
on_am_pm(tm) == IF tm.tm_hour < 12 THEN <<"A", "M">> ELSE <<"P", "M">>
on_12_hour_time(tm) ==
  write_digit2_separated(tm_hour12(tm), tm.tm_min, tm.tm_sec, ":") \o <<" ">> \o on_am_pm(tm)

on_us_date(tm) == write_digit2_separated(tm.tm_mon + 1, tm.tm_mday, split_year_lower(tm_year(tm)), "/")
on_iso_date(tm) ==
  LET year == tm_year(tm)
      separated(y) == write_digit2_separated(y % 100, tm.tm_mon + 1, tm.tm_mday, "-")
  IN  IF year >= 0 /\ year < 10000 THEN digits2(year \div 100) \o separated(year)
      ELSE write_year_extended(year, "zero") \o SubSeq(separated(0), 3, 8)

on_datetime(tm, fraction) ==
  tm_wday_short_name(tm.tm_wday) \o <<" ">> \o tm_mon_short_name(tm.tm_mon) \o <<" ">>
  \o write2_padded(tm.tm_mday, "space") \o <<" ">> \o on_iso_time(tm, fraction) \o <<" ">>
  \o write_year_extended(tm_year(tm), "space")

on_century(year) ==
  LET upper == Quot(year, 100)
  IN  CASE year \in -99..-1 -> <<"-", "0">>
        [] upper \in 0..99 /\ year \notin -99..-1 -> write2(upper)
        [] OTHER -> (IF upper < 0 THEN <<"-">> ELSE <<>>) \o do_format_decimal(IF upper < 0 THEN -upper ELSE upper)

on_day_of_year(tm, pad) ==
  LET yday == tm.tm_yday + 1
  IN  (IF yday \div 100 # 0 THEN write1(yday \div 100) ELSE write_padding(pad, 1)) \o write2_padded(yday % 100, pad)

DateText(tm, call) ==
  CASE call.on = "abbr_weekday" -> tm_wday_short_name(tm.tm_wday)
    [] call.on = "full_weekday" -> tm_wday_full_name(tm.tm_wday)
    [] call.on = "dec0_weekday" -> write1(tm.tm_wday)
    [] call.on = "dec1_weekday" -> write1(IF tm.tm_wday = 0 THEN 7 ELSE tm.tm_wday)
    [] call.on = "abbr_month" -> tm_mon_short_name(tm.tm_mon)
    [] call.on = "full_month" -> tm_mon_full_name(tm.tm_mon)
    [] call.on \in {"loc_date", "us_date"} -> on_us_date(tm)
    [] call.on = "iso_date" -> on_iso_date(tm)
    [] call.on = "utc_offset" -> write_utc_offset(tm.tm_gmtoff, call.ns)
    [] call.on = "tz_name" -> <<tm.tm_zone>>
    [] call.on = "year" -> write_year_extended(tm_year(tm), call.pad)
    [] call.on \in {"short_year", "offset_year"} -> write2(split_year_lower(tm_year(tm)))
    [] call.on = "century" -> on_century(tm_year(tm))
    [] call.on = "dec_month" -> write2_padded(tm.tm_mon + 1, call.pad)
    [] call.on = "dec0_week_of_year" -> write2_padded((tm.tm_yday + 7 - tm.tm_wday) \div 7, call.pad)
    [] call.on = "dec1_week_of_year" ->
         write2_padded((tm.tm_yday + 7 - (IF tm.tm_wday = 0 THEN 6 ELSE tm.tm_wday - 1)) \div 7, call.pad)
    [] call.on = "iso_week_of_year" -> write2_padded(tm_iso_week_of_year(tm), call.pad)
    [] call.on = "iso_week_based_year" -> write_year_extended(tm_iso_week_year(tm), "zero")
    [] call.on = "iso_week_based_short_year" -> write2(split_year_lower(tm_iso_week_year(tm)))
    [] call.on = "day_of_year" -> on_day_of_year(tm, call.pad)
    [] call.on = "day_of_month" -> write2_padded(tm.tm_mday, call.pad)

TimeOfDayText(tm, fraction, call) ==
  CASE call.on = "24_hour" -> write2_padded(tm.tm_hour, call.pad)
    [] call.on = "12_hour" -> write2_padded(tm_hour12(tm), call.pad)
    [] call.on = "minute" -> write2_padded(tm.tm_min, call.pad)
    [] call.on = "second" -> on_second(tm, fraction, call.pad)
    [] call.on = "12_hour_time" -> on_12_hour_time(tm)
    [] call.on = "24_hour_time" -> on_24_hour_time(tm)
    [] call.on \in {"loc_time", "iso_time"} -> on_iso_time(tm, fraction)
    [] call.on = "am_pm" -> on_am_pm(tm)

OfTimeOfDay == {"24_hour", "12_hour", "minute", "second", "12_hour_time", "24_hour_time", "loc_time", "iso_time", "am_pm"}

tm_writer(tm, fraction, call) ==
  CASE call.on = "text" -> call.text
    [] call.on = "datetime" -> on_datetime(tm, fraction)
    [] call.on \in OfTimeOfDay -> TimeOfDayText(tm, fraction, call)
    [] OTHER -> DateText(tm, call)

-----------------------------------------------------------------------------
(* duration_formatter: d is the absolute count and the period.  The sign   *)
(* is written once, by the first number but not before names of the day.   *)
TmOf(hour, min, sec) == [tm_hour |-> hour, tm_min |-> min, tm_sec |-> sec]
time(s) == TmOf((s \div 3600) % 24, (s \div 60) % 60, s % 60)

write_number(value, width, pad) ==
  LET digits == do_format_decimal(value)
  IN  write_padding(pad, IF width > Len(digits) THEN width - Len(digits) ELSE 0) \o digits

(* Handlers whose text starts with the sign, if it is still to be written. *)
write_sign(call) ==
  \/ call.on \in {"day_of_year", "24_hour_time", "iso_time", "duration_value"}
  \/ call.on \in {"24_hour", "12_hour", "minute", "second"} /\ call.ns = "standard"

format_duration_unit(num, den) ==
  IF <<num, den>> \in DOMAIN get_units THEN get_units[<<num, den>>]
  ELSE <<"[">> \o do_format_decimal(num) \o (IF den # 1 THEN <<"/">> \o do_format_decimal(den) ELSE <<>>) \o <<"]", "s">>

DurationPart(d, s, tm, fraction, call) ==
  LET pair(a, b) == write_number(a, 2, "zero") \o <<":">> \o write_number(b, 2, "zero")
      standard == call.ns = "standard"
  IN  CASE call.on = "text" -> call.text
        [] call.on = "day_of_year" -> write_number(s \div 86400, 0, "zero")
        [] call.on = "24_hour" /\ standard -> write_number(tm.tm_hour, 2, call.pad)
        [] call.on = "12_hour" /\ standard -> write_number(tm_hour12(tm), 2, call.pad)
        [] call.on = "minute" /\ standard -> write_number(tm.tm_min, 2, call.pad)
        [] call.on = "second" /\ standard -> write_number(tm.tm_sec, 2, call.pad) \o fraction
        [] call.on \in {"24_hour", "12_hour", "minute", "second"} /\ ~standard -> TimeOfDayText(tm, <<>>, call)
        [] call.on \in {"12_hour_time", "am_pm"} -> TimeOfDayText(tm, <<>>, call)
        [] call.on = "24_hour_time" -> pair(tm.tm_hour, tm.tm_min)
        [] call.on = "iso_time" -> pair(tm.tm_hour, tm.tm_min) \o <<":">> \o write_number(tm.tm_sec, 2, "zero") \o fraction
        [] call.on = "duration_value" -> do_format_decimal(d.count)
        [] call.on = "duration_unit" -> format_duration_unit(d.num, d.den)
DurationText(d, precision, call) ==
  LET s == (d.count * d.num) \div d.den
  IN  DurationPart(d, s, time(s), write_fractional_seconds(d.count, d.num, d.den, precision), call)

duration_formatter(d, negative, precision, calls) ==
  LET first == {i \in DOMAIN calls : write_sign(calls[i]) /\ \A j \in 1..(i - 1) : ~write_sign(calls[j])}
      sign(i) == IF negative /\ i \in first THEN <<"-">> ELSE <<>>
  IN  FlattenSeq([i \in DOMAIN calls |-> sign(i) \o DurationText(d, precision, calls[i])])

-----------------------------------------------------------------------------
(* The formatters: refuse a format, or write it into a field.              *)
FormatDurationBy(calls, count, num, den, specs) ==
  LET sign == IF count < 0 THEN <<"-">> ELSE <<>>
      d == [count |-> IF count < 0 THEN 0 - count ELSE count, num |-> num, den |-> den]
  IN  CASE IsBad(calls, chrono_format_checker(specs.precision # -1)) -> Error
        [] calls = <<>> -> write_bytes(specs, sign \o do_format_decimal(d.count) \o format_duration_unit(num, den))
        [] OTHER -> write_bytes(specs, duration_formatter(d, count < 0, specs.precision, calls))
FormatDuration(count, num, den, specs, format) ==
  FormatDurationBy(parse_chrono_format(format), count, num, den, specs)

FormatBy(calls, tm, fraction, specs, has_timezone) ==
  IF IsBad(calls, tm_format_checker(has_timezone)) THEN Error
  ELSE write_bytes(specs, FlattenSeq([i \in DOMAIN calls |-> tm_writer(tm, fraction, calls[i])]))
do_format(tm, fraction, specs, format, has_timezone) ==
  FormatBy(parse_chrono_format(IF At(format, 1) \in {"end", "}"} THEN <<"%", "F", " ", "%", "T">> ELSE format),
           tm, fraction, specs, has_timezone)

(* gmtime_r() of the C library: the calendar day of so many seconds.       *)
DaysBefore(year) == 365 * year + (year - 1) \div 4 - (year - 1) \div 100 + (year - 1) \div 400
IsLeap(year) == year % 4 = 0 /\ (year % 100 # 0 \/ year % 400 = 0)
MonthStarts == <<0, 31, 59, 90, 120, 151, 181, 212, 243, 273, 304, 334, 365>>
MonthStart(year, mon) == MonthStarts[mon + 1] + (IF IsLeap(year) /\ mon > 1 THEN 1 ELSE 0)

CalendarDay(year, yday) ==
  LET mon == CHOOSE m \in 0..11 : MonthStart(year, m) <= yday /\ yday < MonthStart(year, m + 1)
  IN  [tm_year |-> year - 1900, tm_yday |-> yday, tm_mon |-> mon, tm_mday |-> yday - MonthStart(year, mon) + 1,
       tm_wday |-> (DaysBefore(year) + yday - DaysBefore(1970) + 4) % 7,
       tm_hour |-> 0, tm_min |-> 0, tm_sec |-> 0, tm_gmtoff |-> 0, tm_zone |-> "GMT"]

gmtime(t) ==
  LET day == DaysBefore(1970) + t \div 86400
      year == CHOOSE y \in (day \div 366 - 1)..(day \div 365 + 1) : DaysBefore(y) <= day /\ day < DaysBefore(y + 1)
      s == t % 86400
  IN  [CalendarDay(year, day - DaysBefore(year)) EXCEPT !.tm_hour = s \div 3600, !.tm_min = (s \div 60) % 60, !.tm_sec = s % 60]

(* The time since the epoch is cut towards the epoch: before it, a second  *)
(* less and the rest of that second.                                       *)
InUTC(tm) == [tm EXCEPT !.tm_zone = "UTC"]
SecondOf(tm, count, num, den, subsecs) ==
  CASE num = 1 /\ den = 1 -> InUTC(tm)
    [] ~(num = 1 /\ den = 1) /\ subsecs >= 0 -> tm
    [] OTHER -> IF tm.tm_sec # 0 THEN [tm EXCEPT !.tm_sec = @ - 1]
                ELSE InUTC(gmtime(Quot((count - Quot(den, num)) * num, den)))
FractionOf(num, den, subsecs) ==
  IF num = 1 /\ den = 1 THEN <<>>
  ELSE write_fractional_seconds(IF subsecs < 0 THEN subsecs + Quot(den, num) ELSE subsecs, num, den, -1)

FormatSysTime(count, num, den, specs, format) ==
  LET subsecs == Quot(Rem(count * num, den), num)
  IN  do_format(SecondOf(gmtime(Quot(count * num, den)), count, num, den, subsecs), FractionOf(num, den, subsecs),
                specs, format, TRUE)

FormatLocalTime(count, num, den, specs, format) ==
  LET tm == gmtime(Quot(count * num, den))
      fraction == write_fractional_seconds(Quot(Rem(count * num, den), num), num, den, -1)
  IN  do_format(tm, IF num = 1 /\ den = 1 THEN <<>> ELSE fraction, specs, format, FALSE)

(* weekday, day, month, year and year_month_day alone.                     *)
FormatPart(part, tm, specs, format) ==
  LET pads == [day |-> "day_of_month", year |-> "year", month |-> "abbr_month", weekday |-> "abbr_weekday",
               year_month_day |-> "iso_date"]
  IN  IF parse_chrono_format(format) = <<>> THEN tm_writer(tm, <<>>, On(pads[part], "standard", "zero"))
      ELSE do_format(tm, <<>>, specs, format, TRUE)
=============================================================================
