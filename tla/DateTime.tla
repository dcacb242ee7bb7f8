-------------------------------- MODULE DateTime --------------------------------
(***************************************************************************)
(* ADateTime (src/src/DateTime.cpp): days since 1 January 1980 with the    *)
(* milliseconds of the day, the calendar, and StrToDate(), which applies   *)
(* the terms of a text one after the other to a date.                      *)
(*                                                                         *)
(* A term is a value (in halves, or None) and what follows it: a word, a   *)
(* suffix or a separator.  Words are written once, in their short form.    *)
(* Days are unsigned and wrap.                                             *)
(***************************************************************************)
EXTENDS Integers, Sequences

CONSTANTS DayWrap,      \* 2^32 in the code
          Now, NowUTC,  \* the clock, local and UTC
          UTCOffset     \* what the C library adds to UTC, in milliseconds

MsPerDay == 24 * 3600 * 1000
MsPerHour == 3600 * 1000
DatumYear == 1980
None == -1

Subz(a, b) == IF a >= b THEN a - b ELSE 0
AtLeast(a, b) == IF a > b THEN a ELSE b
AtMost(a, b) == IF a < b THEN a ELSE b
Moment(days, ms) == [days |-> days % DayWrap, ms |-> ms]

-----------------------------------------------------------------------------
(* The calendar.  Days and months count from 0. *)

IsLeap(y) == y % 4 = 0 /\ (y % 100 # 0 \/ y % 400 = 0)
DaysInYear(y) == IF IsLeap(y) THEN 366 ELSE 365

DaysCount(y) ==
    365 * y + (Subz(y, 1) \div 4) - (Subz(y, 1) \div 100) + (Subz(y, 1) \div 400)
Since(y) == Subz(DaysCount(y), DaysCount(DatumYear))

MonthLengths == <<31, 28, 31, 30, 31, 30, 31, 31, 30, 31, 30, 31>>
MonthStartDay[m \in 0..12] == IF m = 0 THEN 0 ELSE MonthStartDay[m - 1] + MonthLengths[m]

MonthLength(m, y) == MonthLengths[m + 1] + (IF IsLeap(y) /\ m = 1 THEN 1 ELSE 0)
MonthStart(m, y) == MonthStartDay[m] + (IF IsLeap(y) /\ m >= 2 THEN 1 ELSE 0)
MonthEnd(m, y) == MonthStartDay[m + 1] + (IF IsLeap(y) /\ m >= 1 THEN 1 ELSE 0) - 1

\* The two searches of DateTimeToDMY() in steps that halve.
RECURSIVE YearFrom(_, _, _)
YearFrom(days, y, inc) ==
    IF inc = 0 \/ days <= Since(y) THEN y
    ELSE IF days >= Since(y + inc) THEN YearFrom(days, y + inc, inc)
    ELSE YearFrom(days, y, inc \div 2)

RECURSIVE MonthFrom(_, _, _, _)
MonthFrom(day, y, m, inc) ==
    IF day < MonthStart(m, y) THEN MonthFrom(day, y, Subz(m, inc), (inc + 1) \div 2)
    ELSE IF day > MonthEnd(m, y) THEN MonthFrom(day, y, AtMost(m + inc, 11), (inc + 1) \div 2)
    ELSE m

YearOf(days) == YearFrom(days, DatumYear, 128)
MonthOf(day, y) == MonthFrom(day, y, 6, 3)

MonthDay(days, y, m) ==
    [weekday |-> (days + 1) % 7, day |-> days - Since(y) - MonthStart(m, y), month |-> m, year |-> y]
YearDay(days, y) == MonthDay(days, y, MonthOf(days - Since(y), y))
DayToDMY(days) == YearDay(days, YearOf(days))
DateTimeToDMY(dt) == DayToDMY(dt.days + (dt.ms \div MsPerDay))

DMYToDateTime(dmy) ==
    LET y == AtLeast(dmy.year + (dmy.month \div 12), DatumYear) IN
    Moment(Since(y) + MonthStart(dmy.month % 12, y) + dmy.day, 0)

\* Set(day, month, year, hour, minute, second)
Set(day, month, year, hour, minute, second) ==
    [DMYToDateTime([day |-> Subz(day, 1), month |-> Subz(month, 1), year |-> year])
        EXCEPT !.ms = (hour * 3600 + minute * 60 + second) * 1000]

-----------------------------------------------------------------------------
(* Dates as numbers of milliseconds, kept as days and milliseconds. *)

Normal(days, ms) == Moment(days + (ms \div MsPerDay), ms % MsPerDay)
Before(a, b) == a.days < b.days \/ (a.days = b.days /\ a.ms < b.ms)
After(a, b) == Before(b, a)
NotAfter(a, b) == ~ Before(b, a)
NotBefore(a, b) == ~ Before(a, b)
SameMoment(a, b) == NotAfter(a, b) /\ NotBefore(a, b)
CompareDates(a, b) == IF Before(a, b) THEN -1 ELSE IF Before(b, a) THEN 1 ELSE 0
Plus(a, b) == Normal(a.days + b.days, a.ms + b.ms)
Minus(a, b) == IF Before(a, b) THEN Moment(0, 0) ELSE Normal(a.days - b.days, a.ms - b.ms)

Hours(dt) == dt.ms \div MsPerHour
Minutes(dt) == (dt.ms \div 60000) % 60
Seconds(dt) == (dt.ms \div 1000) % 60
MilliSeconds(dt) == dt.ms % 1000

WeekDay(dt) == DateTimeToDMY(dt).weekday
Day(dt) == DateTimeToDMY(dt).day + 1
Month(dt) == DateTimeToDMY(dt).month + 1
Year(dt) == DateTimeToDMY(dt).year

\* The calendar of callers, who count months from 1.
MonthDays(m, y) == IF m \in 1..12 THEN MonthLength(m - 1, y) ELSE 0
MonthFirstDay(m, y) == IF m \in 1..13 THEN MonthStart(m - 1, y) ELSE 0

\* A date and time of the C library, whose years count from 1900.
FromTime(tm) ==
    [DMYToDateTime([day |-> Subz(tm.mday, 1), month |-> tm.mon, year |-> tm.year + 1900])
        EXCEPT !.ms = (tm.hour * 3600 + tm.min * 60 + tm.sec) * 1000]

NextWeekDay(dt, wd) == Moment(dt.days + ((wd + 7 - DateTimeToDMY(dt).weekday) % 7), dt.ms)
PrevWeekDay(dt, wd) == Moment(dt.days - ((DateTimeToDMY(dt).weekday + 7 - wd) % 7), dt.ms)

\* The parts of SpanStr(), those that are 0 included.
SpanStr(dt, incdays) ==
    LET seconds == (dt.ms \div 1000) + (IF incdays THEN 0 ELSE dt.days * 86400) IN
    <<IF incdays THEN dt.days ELSE 0,
      seconds \div 3600, (seconds % 3600) \div 60, seconds % 60, dt.ms % 1000>>

\* The digits of a time stamp, and the date they stand for.
ToTimeStamp(dt) ==
    LET d == DateTimeToDMY(dt) IN
    <<d.year, d.month + 1, d.day + 1, Hours(dt), Minutes(dt), Seconds(dt)>>

FromTimeStamp(stamp, ms, utc, hhmm) ==
    LET dt == Set(stamp[3], stamp[2], stamp[1], stamp[4], stamp[5], stamp[6])
        size == IF hhmm < 0 THEN -hhmm ELSE hhmm
        offset == ((size % 100) + (size \div 100) * 60) * (IF hhmm < 0 THEN -1 ELSE 1)
        later == dt.ms + ms + MsPerDay - offset * 60000
    IN IF ~utc THEN Moment(dt.days, dt.ms + ms)
       ELSE Moment(dt.days + (later \div MsPerDay) - 1, later % MsPerDay)

AddDateTime(dt, days, ms) ==
    LET sum == dt.days + days + (ms \div MsPerDay)  part == ms % MsPerDay IN
    IF part = 0 THEN Moment(sum, dt.ms) ELSE Normal(sum, dt.ms + part)

SubDateTime(dt, days, ms) ==
    LET left == Subz(dt.days, days + (ms \div MsPerDay))  part == ms % MsPerDay IN
    IF dt.ms < part THEN Moment(Subz(left, 1), dt.ms + MsPerDay - part)
    ELSE Moment(left, dt.ms - part)

AddMonths(d, years, months) ==
    LET m == d.month + (months % 12) IN
    [d EXCEPT !.month = m % 12, !.year = @ + (months \div 12) + (m \div 12) + years]

AddDMY(dmy, years, months, days) ==
    AddMonths(IF days = 0 THEN dmy ELSE DateTimeToDMY(AddDateTime(DMYToDateTime(dmy), days, 0)),
              years, months)

SubMonths(d, years, months) ==
    LET part == months % 12
        borrow == d.month < part
        y == Subz(Subz(d.year, months \div 12), IF borrow THEN 1 ELSE 0)
    IN [d EXCEPT !.month = (IF borrow THEN @ + 12 ELSE @) - part,
                 !.year = AtLeast(Subz(y, years), DatumYear)]

SubDMY(dmy, years, months, days) ==
    SubMonths(IF days = 0 THEN dmy ELSE DateTimeToDMY(SubDateTime(DMYToDateTime(dmy), days, 0)),
              years, months)

-----------------------------------------------------------------------------
(* DateFormat(): a date as the fields of a format, which is a sequence of    *)
(* characters and does not end in a "%".  A field is a number and its width  *)
(* in digits, a name by its index, or a character as it is.                  *)

Digits(width, n) == <<"number", width, n>>
NameOf(names, n) == <<"name", names, n>>

Field(letter, dt) ==
    CASE letter = "D" -> <<Digits(2, Day(dt))>>
      [] letter = "M" -> <<Digits(2, Month(dt))>>
      [] letter = "Y" -> <<Digits(4, Year(dt))>>
      [] letter = "h" -> <<Digits(2, Hours(dt))>>
      [] letter = "m" -> <<Digits(2, Minutes(dt))>>
      [] letter = "s" -> <<Digits(2, Seconds(dt))>>
      [] letter \in {"S", "t"} -> <<Digits(3, MilliSeconds(dt))>>
      [] letter = "d" -> <<NameOf("short days", WeekDay(dt))>>
      [] letter = "l" -> <<NameOf("days", WeekDay(dt))>>
      [] letter = "N" -> <<NameOf("short months", Month(dt) - 1)>>
      [] OTHER -> <<>>

RECURSIVE DateFormat(_, _)
DateFormat(format, dt) ==
    IF format = <<>> THEN <<>>
    ELSE IF Head(format) = "%" THEN Field(format[2], dt) \o DateFormat(SubSeq(format, 3, Len(format)), dt)
    ELSE <<<<"character", Head(format), 0>>>> \o DateFormat(Tail(format), dt)

DateToStr(dt, us) ==
    DateFormat(<<"%", "d", " ">> \o (IF us THEN <<"%", "M", "/", "%", "D">> ELSE <<"%", "D", "/", "%", "M">>)
               \o <<"/", "%", "Y", " ", "%", "h", ":", "%", "m", ":", "%", "s">>, dt)
TimeStr(dt) == DateFormat(<<"%", "h", ":", "%", "m", ":", "%", "s">>, dt)

-----------------------------------------------------------------------------
(* StrToDate(): the terms of a text.  A term is [val, str, stamp, four]: its value in halves, or
   None; the word, suffix or separator behind it; the six numbers of a value of 14 digits, else
   <<>>; and whether the value is an integer of four digits. *)

\* A number whose sign turns the direction round.
Directed(n, pos, neg) ==
    IF n < 0 /\ (pos \/ neg) THEN [n |-> -n, pos |-> ~pos, neg |-> ~neg]
    ELSE [n |-> AtLeast(n, 0), pos |-> pos, neg |-> neg]

ModifyDays(dt, value, plus, minus) ==
    LET v == Directed(value, plus, minus)
        days == v.n \div 2
        ms == (v.n % 2) * (MsPerDay \div 2)
    IN IF v.pos THEN AddDateTime(dt, days, ms)
       ELSE IF v.neg THEN SubDateTime(dt, days, ms)
       ELSE Moment(days, ms)

\* What is left of a year or a month goes in days.
ModifyRest(dt, n, unit, pos, neg) ==
    IF n % 2 = 0 THEN dt ELSE ModifyDays(dt, unit, pos \/ ~neg, neg)

\* The moment of a date, at the time of day it had.
OnDate(dmy, ms) == [DMYToDateTime(dmy) EXCEPT !.ms = ms]

YearSet(n, rel) ==
    CASE n >= DatumYear -> n
      [] ~rel /\ n < 80 -> 2000 + n
      [] ~rel /\ n \in 80..99 -> 1900 + n
      [] OTHER -> DatumYear + n

YearMoved(year, v, rel) ==
    IF v.pos THEN year + (v.n \div 2)
    ELSE IF v.neg THEN Subz(year, v.n \div 2) ELSE YearSet(v.n \div 2, rel)

InYear(dt, d, v, rel) ==
    LET year == YearMoved(d.year, v, rel)
    IN ModifyRest(OnDate([d EXCEPT !.year = year], dt.ms), v.n, DaysInYear(year), v.pos, v.neg)

ModifyYear(dt, value, plus, minus, rel) ==
    InYear(dt, DateTimeToDMY(dt), Directed(value, plus, minus), rel)

\* A month that is set keeps the day within it; one that is added does not.
WithinMonth(d) == [d EXCEPT !.day = AtMost(@, MonthLength(d.month, d.year) - 1)]
MonthSet(d, n) == WithinMonth([d EXCEPT !.month = n % 12, !.year = @ + (n \div 12)])

MonthMoved(d, v, rel) ==
    IF v.pos THEN AddDMY(d, 0, v.n \div 2, 0)
    ELSE IF v.neg THEN SubDMY(d, 0, v.n \div 2, 0)
    ELSE MonthSet(d, IF rel THEN v.n \div 2 ELSE Subz(v.n \div 2, 1))

InMonth(dt, d, v) ==
    ModifyRest(OnDate(d, dt.ms), v.n, MonthLength(d.month, d.year), v.pos, v.neg)

MonthBy(dt, v, rel) == InMonth(dt, MonthMoved(DateTimeToDMY(dt), v, rel), v)
ModifyMonth(dt, value, plus, minus, rel) == MonthBy(dt, Directed(value, plus, minus), rel)

\* Week 1 begins on the Monday on or before 1 January.
ModifyWeeks(dt, n, pos, neg, rel) ==
    IF pos \/ neg THEN ModifyDays(dt, 7 * n, pos, neg)
    ELSE LET first == Since(DateTimeToDMY(dt).year)
             monday == Moment(first - ((1 + first) % 7), 0)
         IN ModifyDays(monday, 7 * (IF ~rel /\ n >= 2 THEN n - 2 ELSE n), TRUE, neg)

ModifyDay(dt, n, pos, neg, rel) ==
    IF pos \/ neg THEN ModifyDays(dt, n, pos, neg)
    ELSE ModifyDays(dt, n - 2 * (DateTimeToDMY(dt).day + (IF rel THEN 0 ELSE 1)), TRUE, neg)

ModifyMS(dt, n, pos, neg) ==
    LET size == IF n < 0 THEN -n ELSE n IN
    IF (pos \/ ~neg) = (n >= 0) THEN AddDateTime(dt, 0, size) ELSE SubDateTime(dt, 0, size)

-----------------------------------------------------------------------------
(* The evaluation: the date, the mode, what was specified, the index of    *)
(* the last term used, and whether it goes on.                             *)

Valid(t) == t.val # None
Blank(t) == t.str \in {"", " ", ","}
CurrentTime(utc) == IF utc THEN NowUTC ELSE Now

DayNames == <<"mon", "tue", "wed", "thu", "fri", "sat", "sun">>
MonthNames == <<"jan", "feb", "mar", "apr", "may", "jun", "jul", "aug", "sep", "oct", "nov", "dec">>

IndexOf(names, word) ==
    IF \E k \in DOMAIN names : names[k] = word THEN (CHOOSE k \in DOMAIN names : names[k] = word) - 1
    ELSE None

FindDay(word, utc) ==
    IF word = "thisday" THEN DateTimeToDMY(CurrentTime(utc)).weekday ELSE IndexOf(DayNames, word)
FindMonth(word, utc) ==
    IF word = "thismonth" THEN DateTimeToDMY(CurrentTime(utc)).month ELSE IndexOf(MonthNames, word)

Specify(s, what) == [s EXCEPT !.specified = @ \cup what]
Fail(s) == [s EXCEPT !.ok = FALSE]

\* A moment, a day or a time of day: added, taken away or set.
Combine(s, dt) ==
    [s EXCEPT !.dt = IF s.pos THEN AddDateTime(@, dt.days, dt.ms)
                     ELSE IF s.neg THEN SubDateTime(@, dt.days, dt.ms) ELSE dt]
CombineDay(s, days) ==
    [s EXCEPT !.dt = IF s.pos THEN AddDateTime(@, days % DayWrap, 0)
                     ELSE IF s.neg THEN SubDateTime(@, days % DayWrap, 0)
                     ELSE Moment(days, @.ms)]
CombineTime(s, ms) ==
    [s EXCEPT !.dt = IF s.pos THEN AddDateTime(@, 0, ms)
                     ELSE IF s.neg THEN SubDateTime(@, 0, ms)
                     ELSE Moment(@.days, ms)]

\* The words for a day around today.
DayWords == {"today", "tomorrow", "yesterday", "firstdayofmonth", "lastdayofmonth",
             "firstdayofweek", "lastdayofweek"}
WordDay(word, now) ==
    LET d == DateTimeToDMY(now) IN
    CASE word = "today" -> now.days
      [] word = "tomorrow" -> now.days + 1
      [] word = "yesterday" -> Subz(now.days, 1)
      [] word = "firstdayofmonth" -> now.days - d.day
      [] word = "lastdayofmonth" -> now.days + MonthLength(d.month, d.year) - 1 - d.day
      [] word = "firstdayofweek" -> now.days - d.weekday
      [] word = "lastdayofweek" -> now.days + 6 - d.weekday

\* The named day on or after a date; the month with that name of its year, with
\* the same day of the month.
ToWeekDay(dt, ind) == Moment(dt.days + ((ind + 7 - DateTimeToDMY(dt).weekday) % 7), dt.ms)
ToMonth(dt, ind) ==
    OnDate([DateTimeToDMY(dt) EXCEPT !.month = ind], dt.ms)

AWeekOn(dt, next) == Moment(IF next THEN dt.days + 7 ELSE Subz(dt.days, 7), dt.ms)

\* The month with that name after the one of a year later (earlier, for "last").
MonthAfter(d, ind, next) ==
    [d EXCEPT !.year = AtLeast(IF next THEN @ + 1 ELSE Subz(@, 1), DatumYear),
              !.month = @ + ((ind + 12 - @) % 12)]
MonthOn(dt, ind, next) == OnDate(MonthAfter(DateTimeToDMY(dt), ind, next), dt.ms)

\* {next|last} {week|month|year|<day>|<month>}
NextLast(s, next, word) ==
    LET day == FindDay(word, s.utc)  month == FindMonth(word, s.utc) IN
    CASE word = "week" -> Specify([s EXCEPT !.dt = AWeekOn(@, next)], {"date"})
      [] word = "month" -> Specify([s EXCEPT !.dt = ModifyMonth(@, 2, next, ~next, FALSE)], {"date"})
      [] word = "year" -> Specify([s EXCEPT !.dt = ModifyYear(@, 2, next, ~next, FALSE)], {"date"})
      [] day # None -> Specify([s EXCEPT !.dt = ToWeekDay(AWeekOn(@, next), day)], {"day"})
      [] month # None -> Specify([s EXCEPT !.dt = MonthOn(@, month, next)], {"date"})
      [] OTHER -> Fail(s)

ToLocal(dt) == Normal(dt.days, dt.ms + UTCOffset)
ToUTC(dt) == Normal(dt.days, dt.ms - UTCOffset)

\* A term without a value.
WordTerm(terms, s) ==
    LET i == s.i  word == terms[i].str
        day == FindDay(word, s.utc)  month == FindMonth(word, s.utc)
    IN CASE word = "+" -> [s EXCEPT !.pos = TRUE, !.neg = FALSE]
         [] word = "-" -> [s EXCEPT !.pos = FALSE, !.neg = TRUE]
         [] word = "utc" -> [s EXCEPT !.utc = TRUE]
         [] word = "local" -> [s EXCEPT !.utc = FALSE]
         [] word = "now" -> Specify(Combine(s, CurrentTime(s.utc)), {"date", "time"})
         [] word = "min" -> Specify(Combine(s, Moment(0, 0)), {"date", "time"})
         [] word = "max" -> Specify(Combine(s, Moment(Since(9999) + 364, MsPerDay - 1)), {"date", "time"})
         [] word \in DayWords -> Specify(CombineDay(s, WordDay(word, CurrentTime(s.utc))), {"date"})
         [] word = "noon" -> Specify(CombineTime(s, MsPerDay \div 2), {"time"})
         [] word = "midnight" -> Specify(CombineTime(s, 0), {"time"})
         [] word = "utctolocal" -> Specify([s EXCEPT !.dt = ToLocal(@), !.utc = FALSE], {"time"})
         [] word = "localtoutc" -> Specify([s EXCEPT !.dt = ToUTC(@), !.utc = TRUE], {"time"})
         [] word = "us" -> [s EXCEPT !.us = TRUE]
         [] word = "uk" -> [s EXCEPT !.us = FALSE]
         [] day # None -> Specify([s EXCEPT !.dt = ToWeekDay(@, day)], {"day"})
         [] month # None -> Specify([s EXCEPT !.dt = ToMonth(@, month)], {"date"})
         [] word \in {"next", "last"} ->
              IF i + 2 <= Len(terms) /\ ~Valid(terms[i + 1]) /\ Blank(terms[i + 1]) /\ ~Valid(terms[i + 2])
              THEN NextLast([s EXCEPT !.i = i + 2], word = "next", terms[i + 2].str)
              ELSE Fail(s)
         [] Blank(terms[i]) -> [s EXCEPT !.pos = FALSE, !.neg = FALSE]
         [] OTHER -> Fail(s)

\* A "+hhmm" or "-hhmm" behind the term i is counteracted.
Offset(terms, s) ==
    LET i == s.i
        hhmm == terms[i + 2].val \div 2
        ms == ((hhmm \div 100) * 60 + (hhmm % 100)) * 60000
    IN IF i + 2 <= Len(terms) /\ terms[i].str = " " /\ ~Valid(terms[i + 1])
          /\ terms[i + 1].str \in {"+", "-"} /\ terms[i + 2].four
       THEN [s EXCEPT !.i = i + 2,
                      !.dt = IF terms[i + 1].str = "+" THEN SubDateTime(@, 0, ms) ELSE AddDateTime(@, 0, ms)]
       ELSE s

\* A number of units of time: set, from what larger units there are, or moved by.
TimeTerm(s, ms, larger) ==
    LET from == IF s.pos \/ s.neg THEN s.dt
                ELSE [s.dt EXCEPT !.ms = IF larger = 0 THEN 0 ELSE @ - (@ % larger)]
    IN Specify([s EXCEPT !.dt = ModifyMS(from, ms, s.pos, s.neg)], {"time"})

\* "w": weeks, or a year followed by a week, or by a week of two digits and a day.
WeekTerm(terms, s) ==
    LET i == s.i
        val == terms[i].val
        dt == ModifyYear(s.dt, val, s.pos, s.neg, FALSE)
        week == terms[i + 1].val
        absolute == ~s.pos /\ ~s.neg
    IN Specify(
         IF i < Len(terms) /\ Valid(terms[i + 1]) /\ Blank(terms[i + 1])
         THEN [s EXCEPT !.i = i + 1,
                 !.dt = IF week < 200 THEN ModifyWeeks(dt, week, s.pos, s.neg, FALSE)
                        ELSE ModifyDays(ModifyWeeks(dt, 2 * (week \div 20), s.pos, s.neg, FALSE),
                                        (week % 20) - (IF absolute THEN 2 ELSE 0), s.pos \/ ~s.neg, s.neg)]
         ELSE [s EXCEPT !.dt = ModifyWeeks(@, val, s.pos, s.neg, TRUE)],
         {"date"})

\* No suffix: the 14 digits of a date and time, or hours.
PlainTerm(terms, s) ==
    LET t == terms[s.i]
        stamp == t.stamp
        dt == [Set(stamp[3], stamp[2], stamp[1], 0, 0, 0)
                 EXCEPT !.ms = (stamp[4] * 60 + stamp[5]) * 60000 + stamp[6] * 1000]
        done == IF stamp # <<>> THEN Specify(Offset(terms, Combine(s, dt)), {"date", "time"})
                ELSE TimeTerm(s, t.val * (MsPerHour \div 2), 0)
    IN [done EXCEPT !.pos = FALSE, !.neg = FALSE]

\* A year, month or day before the time: 0 leaves what it would set as it is.
YearPart(dt, n, s) == IF n = 0 THEN dt ELSE ModifyYear(dt, n, s.pos, s.neg, FALSE)
MonthPart(dt, n, s) == IF n = 0 THEN dt ELSE ModifyMonth(dt, n, s.pos, s.neg, FALSE)
DayPart(dt, n, s) == IF n = 0 THEN dt ELSE ModifyDay(dt, n, s.pos, s.neg, FALSE)
TimePart(s, ms) ==
    IF ms = 0 THEN s
    ELSE Specify([s EXCEPT !.dt = IF s.pos THEN AddDateTime(@, 0, ms)
                                  ELSE IF s.neg THEN SubDateTime(@, 0, ms)
                                  ELSE Normal(@.days, ms)], {"time"})

HoursOf(n, suffix) ==
    CASE suffix = "am" -> n % 24 [] suffix = "pm" -> 24 + (n % 24) [] OTHER -> n

\* The parts as halves, in the order of the text.
Parts(s, vals, suffix, last) ==
    TimePart(
      Specify([s EXCEPT !.i = last,
                 !.dt = DayPart(MonthPart(YearPart(@, vals[0], s), vals[1], s), vals[2], s)],
              IF last >= s.i + 3 THEN {"date"} ELSE {}),
      (HoursOf(vals[3], suffix) * MsPerHour + vals[4] * 60000 + vals[5] * 1000) \div 2)

\* [[[YYYY:]MM:]DD:]hh:mm[:ss]: up to six values, the last of the six but one if
\* there are two only.
ColonTerms(terms, s) ==
    LET i == s.i
        More(j) == i + j + 1 <= Len(terms) /\ j < 5 /\ Valid(terms[i + j]) /\ terms[i + j].str = ":"
                   /\ Valid(terms[i + j + 1])
        count == 1 + (CHOOSE j \in 1..5 : ~More(j) /\ \A k \in 1..(j - 1) : More(k))
        Part(first) == [p \in 0..5 |-> IF p \in first..(first + count - 1) THEN terms[i + p - first].val ELSE 0]
    IN Offset(terms, Parts(s, Part(6 - count - (IF count <= 2 THEN 1 ELSE 0)),
                           terms[i + count - 1].str, i + count - 1))

SetMonth(dt, month) == ModifyMonth(dt, month, FALSE, FALSE, FALSE)
SetDay(dt, day) == ModifyDay(dt, day, FALSE, FALSE, FALSE)

\* Mutant: the day is set before the month.
DayAndMonth(dt, day, month) == SetMonth(SetDay(dt, day), month)

\* The month is set before the day, which depends on it.
MonthAndDay(dt, day, month) == SetDay(SetMonth(dt, month), day)

\* How many terms behind the second a third number is: one, two behind the name
\* of a month, or 0 for none.
Third(terms, s) ==
    LET i == s.i + 1
        Number(k) == i + k <= Len(terms) /\ terms[i + k - 1].str = terms[s.i].str /\ Valid(terms[i + k])
    IN IF Valid(terms[i]) THEN (IF Number(1) THEN 1 ELSE 0)
       ELSE IF Number(2) /\ ~Valid(terms[i + 1]) THEN 2 ELSE 0

YearFirst(t) == t.val >= 2 * DatumYear

\* The year is the first value or the third.
DashYear(terms, s, third) ==
    IF YearFirst(terms[s.i]) \/ third > 0
    THEN ModifyYear(s.dt, terms[IF YearFirst(terms[s.i]) THEN s.i ELSE s.i + 1 + third].val, FALSE, FALSE, FALSE)
    ELSE s.dt

\* The second value, or the word there, as a month.
SecondMonth(two, dt, s) ==
    IF Valid(two) THEN SetMonth(dt, two.val)
    ELSE IF FindMonth(two.str, s.utc) # None THEN ToMonth(dt, FindMonth(two.str, s.utc)) ELSE dt

\* Two terms, and used more, have set a date.
Dashed(s, dt, used) == Specify([s EXCEPT !.dt = dt, !.i = @ + 1 + used], {"date"})

\* "-Www" behind a year, with a weekday or without: dt is the Monday.
DashWeek(terms, s, dt) ==
    LET i == s.i + 1  day == terms[i + 2].val IN
    IF terms[i + 1].str = terms[s.i].str /\ i + 2 <= Len(terms) /\ Valid(terms[i + 2])
    THEN Dashed(s, ModifyDays(dt, IF day >= 2 THEN day - 2 ELSE day, TRUE, FALSE), 2)
    ELSE Dashed(s, dt, 1)

\* dt: the date with the year set.
DashRest(terms, s, third, dt) ==
    LET i == s.i + 1
        val == terms[s.i].val
        two == terms[i]
        week == ~Valid(two) /\ third = 0 /\ i < Len(terms) /\ two.str = "w" /\ Valid(terms[i + 1])
    IN CASE ~YearFirst(terms[s.i]) /\ Valid(two) ->
              Dashed(s, IF s.us THEN SetMonth(SetDay(dt, two.val), val) ELSE MonthAndDay(dt, val, two.val), third)
         [] ~YearFirst(terms[s.i]) /\ ~Valid(two) ->
              Dashed(s, IF s.us /\ two.str = "" THEN SetMonth(SecondMonth(two, dt, s), val)
                        ELSE SetDay(SecondMonth(two, dt, s), val), third)
         [] YearFirst(terms[s.i]) /\ third > 0 ->
              Dashed(s, IF third = 1 THEN MonthAndDay(dt, terms[i + 1].val, two.val)
                        ELSE SetDay(SecondMonth(two, dt, s), terms[i + 2].val), third)
         [] YearFirst(terms[s.i]) /\ week ->
              DashWeek(terms, s, ModifyWeeks(SecondMonth(two, dt, s), terms[i + 1].val, FALSE, FALSE, FALSE))
         [] OTHER -> Fail(Dashed(s, SecondMonth(two, dt, s), 0))

\* Two or three terms with "-" or "/" between them: the year first or third, the
\* second a month, as a number or a name (which is a term more), or a week.
DashTerms(terms, s) ==
    LET third == Third(terms, s) IN DashRest(terms, s, third, DashYear(terms, s, third))

\* A term with a value.
ValueTerm(terms, s) ==
    LET t == terms[s.i]  val == t.val  dt == s.dt
        more == s.i < Len(terms)
    IN CASE t.str = "y" -> Specify([s EXCEPT !.dt = ModifyYear(dt, val, s.pos, s.neg, TRUE)], {"date"})
         [] t.str = "M" -> Specify([s EXCEPT !.dt = ModifyMonth(dt, val, s.pos, s.neg, TRUE)], {"date"})
         [] t.str = "d" -> Specify([s EXCEPT !.dt = ModifyDay(dt, val, s.pos, s.neg, TRUE)], {"date"})
         [] t.str = "w" -> WeekTerm(terms, s)
         [] t.str = "h" -> TimeTerm(s, val * (MsPerHour \div 2), 0)
         [] t.str = "m" -> TimeTerm(s, val * 30000, MsPerHour)
         [] t.str = "s" -> TimeTerm(s, val * 500, 60000)
         [] t.str = "S" -> TimeTerm(s, val \div 2, 1000)
         [] t.str = "am" -> TimeTerm(s, (val % 24) * (MsPerHour \div 2), 0)
         [] t.str = "pm" -> TimeTerm(s, (24 + (val % 24)) * (MsPerHour \div 2), 0)
         [] Blank(t) -> PlainTerm(terms, s)
         [] t.str = ":" /\ more /\ Valid(terms[s.i + 1]) -> ColonTerms(terms, s)
         [] t.str \in {"-", "/"} /\ more -> DashTerms(terms, s)
         [] OTHER -> Fail(s)

\* A sign behind a term sets the mode for the next.
Mode(terms, s) ==
    IF ~s.ok THEN s
    ELSE CASE terms[s.i].str = "+" -> [s EXCEPT !.pos = TRUE, !.neg = FALSE]
           [] terms[s.i].str = "-" -> [s EXCEPT !.pos = FALSE, !.neg = TRUE]
           [] OTHER -> s

\* The date before the first term: none, the one there is, today or now.
Start(relative, existing, us) ==
    LET utc == relative \in {"today utc", "now utc"}
        now == CurrentTime(utc)
    IN [dt |-> CASE relative = "absolute" -> Moment(0, 0)
                 [] relative = "existing" -> existing
                 [] relative \in {"today utc", "today"} -> Moment(now.days, 0)
                 [] OTHER -> now,
        pos |-> FALSE, neg |-> FALSE, utc |-> utc, us |-> us, specified |-> {}, i |-> 0, ok |-> TRUE]

RECURSIVE Evaluated(_, _)
Evaluated(terms, s) ==
    LET next == [s EXCEPT !.i = @ + 1] IN
    IF ~s.ok \/ s.i = Len(terms) THEN s
    ELSE Evaluated(terms, Mode(terms, IF Valid(terms[next.i]) THEN ValueTerm(terms, next) ELSE WordTerm(terms, next)))

StrToDate(terms, start) == Evaluated(terms, start)
=============================================================================
