------------------------------- MODULE Calendar -------------------------------
(***************************************************************************)
(* datetime("2024-03-01T12:00:00+09:00"): what the parts of the string     *)
(* come to (eval.rs, parse_iso8601_to_millis).  The string itself is a     *)
(* model value, whose parts are its year (of four characters, from -999 to *)
(* 9999), month, day, seconds of the day and offset from UTC in minutes.   *)
(* A day up to 31 is taken in every month.  And what is printed of the     *)
(* milliseconds (types.rs, format_millis_as_iso8601), as numbers.          *)
(***************************************************************************)
EXTENDS Integers

\* (y - 399) / 400 rounds towards zero, which for a negative y is down.
Era(y) == IF y >= 0 THEN y \div 400 ELSE -((399 - y) \div 400)

\* days_from_civil: the year begins in March.
YearStart(y) == LET yoe == y - Era(y) * 400
                IN  Era(y) * 146097 + yoe * 365 + yoe \div 4 - yoe \div 100
MonthStart(m) == (153 * m + 2) \div 5
DaysFromCivil(year, month, day) ==
    LET y == IF month <= 2 THEN year - 1 ELSE year
        m == IF month <= 2 THEN month + 9 ELSE month - 3
    IN  YearStart(y) + MonthStart(m) + day - 1 - 719468

\* The parts that are taken, and the milliseconds they come to.
DateAllowed(p) == p.month \in 1..12 /\ p.day \in 1..31
Millis(p) == (DaysFromCivil(p.year, p.month, p.day) * 86400 + p.seconds - p.offset * 60) * 1000

-------------------------------------------------------------------------------
\* civil_from_days: the era, the day in it, its year, the day in the year, its month.
DayEra(z) == IF z >= 0 THEN z \div 146097 ELSE -((146096 - z) \div 146097)
YearOfEra(doe) == (doe - doe \div 1460 + doe \div 36524 - doe \div 146096) \div 365
MonthOf(doy) == (5 * doy + 2) \div 153
CivilFromDays(days) ==
    LET z == days + 719468
        doe == z - DayEra(z) * 146097
        yoe == YearOfEra(doe)
        doy == doe - (365 * yoe + yoe \div 4 - yoe \div 100)
        mp == MonthOf(doy)
        m == IF mp < 10 THEN mp + 3 ELSE mp - 9
        y == yoe + DayEra(z) * 400
    IN  <<IF m <= 2 THEN y + 1 ELSE y, m, doy - MonthStart(mp) + 1>>

\* epoch_secs_to_datetime: the date, and the time of the day.
EpochSecsToDatetime(secs) ==
    IF secs >= 0
    THEN LET minutes == secs \div 60
             hours == minutes \div 60
         IN  [date |-> CivilFromDays(hours \div 24), time |-> <<hours % 24, minutes % 60, secs % 60>>]
    ELSE LET days == -((86399 - secs) \div 86400)
             s == secs - days * 86400
         IN  [date |-> CivilFromDays(days), time |-> <<s \div 3600, (s % 3600) \div 60, s % 60>>]

\* format_millis_as_iso8601.
FormatMillis(millis) ==
    LET secs == IF millis >= 0 THEN millis \div 1000 ELSE -((999 - millis) \div 1000)
    IN  [at |-> EpochSecsToDatetime(secs), ms |-> millis - secs * 1000]
===============================================================================
