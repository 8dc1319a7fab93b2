------------------------------- MODULE Dates -------------------------------
(***************************************************************************)
(* The dates and instants an `as-of` can name, and the arithmetic that     *)
(* turns them into moments and back: days since 1970-01-01 worked out      *)
(* without counting them.  From src/src/history.rs.                        *)
(*                                                                         *)
(* A text is what its digits say: a date, or an instant with a time of day *)
(* and an offset.  A moment, a number of seconds in the code, is a day and *)
(* a second of it here, which are its quotient and remainder.              *)
(***************************************************************************)
EXTENDS Integers

DaySeconds == 86400
MaxOffset == 86340   \* 23 hours and 59 minutes
MaxYear == 9999      \* the last of four digits

Leap(year) == year % 4 = 0 /\ (year % 100 # 0 \/ year % 400 = 0)

Longest(year, month) ==
    CASE month = 2 -> IF Leap(year) THEN 29 ELSE 28
      [] month \in {4, 6, 9, 11} -> 30
      [] OTHER -> 31

\* The calendar itself, which the code never counts: one day after the other.
Tomorrow(date) ==
    IF date.day < Longest(date.year, date.month) THEN [date EXCEPT !.day = @ + 1]
    ELSE IF date.month < 12 THEN [date EXCEPT !.month = @ + 1, !.day = 1]
    ELSE [year |-> date.year + 1, month |-> 1, day |-> 1]

\* FAULT: every month has 31 days.
IsDateAnyDay(date) ==
    /\ date.year \in 0..MaxYear
    /\ date.month \in 1..12
    /\ date.day \in 1..31

\* Four digits, two and two that are a day of the calendar.
IsDate(date) ==
    /\ date.year \in 0..MaxYear
    /\ date.month \in 1..12
    /\ date.day \in 1..Longest(date.year, date.month)

\* Days since 1970-01-01, with years counted from March so the leap day falls last.
EpochDays(date) ==
    LET year == IF date.month <= 2 THEN date.year - 1 ELSE date.year
        ofEra == year % 400
        ofYear == (153 * ((date.month + 9) % 12) + 2) \div 5 + date.day - 1
    IN  146097 * (year \div 400)
            + 365 * ofEra + ofEra \div 4 - ofEra \div 100 + ofYear - 719468

\* FAULT: the last day of an era is taken for the first of a year after it.
CivilUncorrected(days) ==
    LET shifted == days + 719468
        ofEra == shifted % 146097
        year == (ofEra - ofEra \div 1460 + ofEra \div 36524) \div 365
        ofYear == ofEra - (365 * year + year \div 4 - year \div 100)
        month == (5 * ofYear + 2) \div 153
    IN  [year |-> year + 400 * (shifted \div 146097) + (IF month < 10 THEN 0 ELSE 1),
         month |-> IF month < 10 THEN month + 3 ELSE month - 9,
         day |-> ofYear - (153 * month + 2) \div 5 + 1]

\* The date that many days after 1970-01-01: the first half of format_utc.
Civil(days) ==
    LET shifted == days + 719468
        ofEra == shifted % 146097
        year == (ofEra - ofEra \div 1460 + ofEra \div 36524 - ofEra \div 146096) \div 365
        ofYear == ofEra - (365 * year + year \div 4 - year \div 100)
        month == (5 * ofYear + 2) \div 153
    IN  [year |-> year + 400 * (shifted \div 146097) + (IF month < 10 THEN 0 ELSE 1),
         month |-> IF month < 10 THEN month + 3 ELSE month - 9,
         day |-> ofYear - (153 * month + 2) \div 5 + 1]

Moment(days, seconds) ==
    [day |-> days + seconds \div DaySeconds, second |-> seconds % DaySeconds]

NotAfter(a, b) == a.day < b.day \/ (a.day = b.day /\ a.second <= b.second)

\* FAULT: an offset is not carried to the day before or after.
ReadUncarried(text) ==
    IF text.form = "date" THEN Moment(EpochDays(text.date), DaySeconds - 1)
    ELSE [day |-> EpochDays(text.date), second |-> text.second - text.offset]

\* A date alone means its last second in UTC; an instant is east of UTC by its offset.
Read(text) ==
    IF text.form = "date" THEN Moment(EpochDays(text.date), DaySeconds - 1)
    ELSE Moment(EpochDays(text.date), text.second - text.offset)

\* An instant is refused when its time of day or offset is, a leap second being allowed.
IsText(text) ==
    /\ IsDate(text.date)
    /\ text.form = "instant" =>
           /\ text.second \in 0..DaySeconds
           /\ text.offset \in -MaxOffset..MaxOffset

\* parse_as_of: what is read must also have a year of four digits to be written in.
Parses(text) == IsText(text) /\ Civil(Read(text).day).year \in 1..MaxYear

\* format_utc, which is how an instant is sent on.
FormatUtc(moment) ==
    [form |-> "instant", date |-> Civil(moment.day), second |-> moment.second, offset |-> 0]
=============================================================================
