---------------------------- MODULE DatesProofs ----------------------------
(***************************************************************************)
(* Theorems about Dates, for every date of every year: the day after a     *)
(* date is one more, and a date is found again from its day.               *)
(***************************************************************************)
EXTENDS Dates, TLAPS

\* A date of the calendar, of any year.
Date == {date \in [year : Int, month : 1..12, day : 1..31] :
            date.day <= Longest(date.year, date.month)}

\* Years are counted from March: the year and the month a date falls in then.
YearOf(date) == IF date.month <= 2 THEN date.year - 1 ELSE date.year
MonthOf(date) == (date.month + 9) % 12

\* The days of the months before one, from March.
MonthStart(month) == (153 * month + 2) \div 5

\* The days of an era before a year of it, and of all years before one.
InEra(year) == 365 * year + year \div 4 - year \div 100
YearStart(year) == 146097 * (year \div 400) + InEra(year % 400)

LEMMA EpochDaysSplit ==
    ASSUME NEW date \in Date
    PROVE  EpochDays(date) =
               YearStart(YearOf(date)) + MonthStart(MonthOf(date)) + date.day - 719469
  BY DEF EpochDays, YearStart, InEra, MonthStart, YearOf, MonthOf, Date

LEMMA EpochDaysInt ==
    ASSUME NEW date \in Date
    PROVE  EpochDays(date) \in Int
  BY DEF EpochDays, Date

LEMMA NextYear ==
    ASSUME NEW year \in Int
    PROVE  YearStart(year) = YearStart(year - 1) + (IF Leap(year) THEN 366 ELSE 365)
  <1>1. PICK era \in Int, left \in Int : year = 400 * era + left /\ 0 <= left /\ left < 400
    <2>1. /\ year = 400 * (year \div 400) + (year % 400)
          /\ year \div 400 \in Int /\ year % 400 \in Int
          /\ 0 <= year % 400 /\ year % 400 < 400
      OBVIOUS
    <2> QED BY <2>1
  <1>2. year \div 400 = era /\ year % 400 = left
    BY <1>1
  <1>3. year % 4 = left % 4 /\ year % 100 = left % 100
    BY <1>1
  <1>4. CASE left = 0
    <2>1. (year - 1) \div 400 = era - 1 /\ (year - 1) % 400 = 399
      BY <1>1, <1>4
    <2> QED BY <1>2, <1>3, <1>4, <2>1 DEF YearStart, InEra, Leap
  <1>5. CASE left # 0
    <2>1. (year - 1) \div 400 = era /\ (year - 1) % 400 = left - 1
      BY <1>1, <1>5
    <2>2. InEra(left) = InEra(left - 1) + (IF left % 4 = 0 /\ left % 100 # 0 THEN 366 ELSE 365)
      BY <1>1, <1>5 DEF InEra
    <2>3. InEra(left) \in Int /\ InEra(left - 1) \in Int
      BY <1>1 DEF InEra
    <2>4. Leap(year) <=> left % 4 = 0 /\ left % 100 # 0
      BY <1>1, <1>2, <1>3, <1>5 DEF Leap
    <2> QED BY <1>1, <1>2, <1>5, <2>1, <2>2, <2>3, <2>4 DEF YearStart
  <1> QED BY <1>4, <1>5

LEMMA MonthStarts ==
    /\ MonthStart(0) = 0 /\ MonthStart(1) = 31 /\ MonthStart(2) = 61 /\ MonthStart(3) = 92
    /\ MonthStart(4) = 122 /\ MonthStart(5) = 153 /\ MonthStart(6) = 184 /\ MonthStart(7) = 214
    /\ MonthStart(8) = 245 /\ MonthStart(9) = 275 /\ MonthStart(10) = 306 /\ MonthStart(11) = 337
  BY DEF MonthStart

LEMMA MonthOfs ==
    ASSUME NEW date \in Date
    PROVE  /\ MonthOf(date) = IF date.month <= 2 THEN date.month + 9 ELSE date.month - 3
           /\ MonthOf(date) \in 0..11
  BY DEF MonthOf, Date

\* The day after a date, its month and year turned over when they end, is the one counted
\* one later: epoch_days is one more there, in every month of every year.
THEOREM NextDay ==
    ASSUME NEW date \in Date
    PROVE  Tomorrow(date) \in Date /\ EpochDays(Tomorrow(date)) = EpochDays(date) + 1
  <1> DEFINE next == Tomorrow(date)
  <1>0. date = [year |-> date.year, month |-> date.month, day |-> date.day]
        /\ date.year \in Int /\ date.month \in 1..12 /\ date.day \in 1..31
        /\ date.day <= Longest(date.year, date.month)
    BY DEF Date
  <1>1. CASE date.day < Longest(date.year, date.month)
    <2>1. next = [year |-> date.year, month |-> date.month, day |-> date.day + 1]
      BY <1>0, <1>1 DEF Tomorrow
    <2>2. next \in Date
      BY <1>0, <1>1, <2>1 DEF Date, Longest
    <2>3. YearOf(next) = YearOf(date) /\ MonthOf(next) = MonthOf(date)
      BY <2>1 DEF YearOf, MonthOf
    <2>4. YearStart(YearOf(date)) \in Int /\ MonthStart(MonthOf(date)) \in Int
      BY <1>0, MonthOfs DEF YearStart, InEra, MonthStart, YearOf
    <2> HIDE DEF next
    <2>5. EpochDays(next) = EpochDays(date) + 1
      BY <1>0, <2>1, <2>2, <2>3, <2>4, EpochDaysSplit
    <2> QED BY <2>2, <2>5 DEF next
  <1>2. CASE date.day = Longest(date.year, date.month) /\ date.month < 12
    <2>1. next = [year |-> date.year, month |-> date.month + 1, day |-> 1]
      <3>1. ~(date.day < Longest(date.year, date.month))
        BY <1>0, <1>2
      <3>2. Tomorrow(date) = [date EXCEPT !.month = @ + 1, !.day = 1]
        BY <1>2, <3>1 DEF Tomorrow
      <3> QED BY <1>0, <3>2
    <2>2. next \in Date
      BY <1>0, <1>2, <2>1 DEF Date, Longest
    <2>3. YearStart(date.year) \in Int /\ YearStart(date.year - 1) \in Int
      BY <1>0 DEF YearStart, InEra
    <2> HIDE DEF next
    <2>4. EpochDays(next) = EpochDays(date) + 1
      BY <1>0, <1>2, <2>1, <2>2, <2>3, EpochDaysSplit, MonthOfs, MonthStarts, NextYear
         DEF Longest, YearOf
    <2> QED BY <2>2, <2>4 DEF next
  <1>3. CASE date.day = Longest(date.year, date.month) /\ date.month = 12
    <2>1. next = [year |-> date.year + 1, month |-> 1, day |-> 1]
      <3>1. ~(date.day < Longest(date.year, date.month))
        BY <1>0, <1>3
      <3>2. Tomorrow(date) = [year |-> date.year + 1, month |-> 1, day |-> 1]
        BY <1>3, <3>1 DEF Tomorrow
      <3> QED BY <1>0, <3>2
    <2>2. next \in Date
      BY <1>0, <1>3, <2>1 DEF Date, Longest
    <2>3. YearStart(date.year) \in Int
      BY <1>0 DEF YearStart, InEra
    <2> HIDE DEF next
    <2>4. EpochDays(next) = EpochDays(date) + 1
      BY <1>0, <1>3, <2>1, <2>2, <2>3, EpochDaysSplit, MonthOfs, MonthStarts DEF Longest, YearOf
    <2> QED BY <2>2, <2>4 DEF next
  <1> QED BY <1>0, <1>1, <1>2, <1>3 DEF Longest

\* A year and a day of an era, from the number of the day in it.
EraDay(year, ofYear) == InEra(year) + ofYear
YearOfEraDay(ofEra) ==
    (ofEra - ofEra \div 1460 + ofEra \div 36524 - ofEra \div 146096) \div 365

\* The day of an era, of which the 146097th is the last, gives its century.
LEMMA CenturyFound ==
    ASSUME NEW century \in Int, 0 <= century, century <= 3,
           NEW inCentury \in Int, 0 <= inCentury, inCentury <= 36524,
           inCentury = 36524 => century = 3,
           NEW inEra \in Int, inEra = 36524 * century + inCentury
    PROVE  /\ 0 <= inEra /\ inEra <= 146096
           /\ inEra \div 36524 - inEra \div 146096 = century
  <1>1. 0 <= inEra /\ inEra <= 146096
    OBVIOUS
  <1>2. CASE inCentury = 36524
    <2>1. inEra = 146096
      BY <1>2
    <2> QED BY <1>1, <1>2, <2>1
  <1>3. CASE inCentury < 36524
    <2>1. inEra \div 36524 = century
      BY <1>3
    <2>2. inEra < 146096
      BY <1>3
    <2>3. inEra \div 146096 = 0
      BY <1>1, <2>2
    <2> QED BY <1>1, <2>1, <2>3
  <1> QED BY <1>2, <1>3

\* Taking a day for every leap day before leaves years of 365 days.
LEMMA YearFound ==
    ASSUME NEW year \in Int, 0 <= year, year < 400,
           NEW ofYear \in Int, 0 <= ofYear, ofYear <= 365,
           ofYear = 365 => (year + 1) % 4 = 0 /\ ((year + 1) % 100 # 0 \/ year = 399)
    PROVE  /\ 0 <= EraDay(year, ofYear) /\ EraDay(year, ofYear) < 146097
           /\ EraDay(year, ofYear) \in Int
           /\ YearOfEraDay(EraDay(year, ofYear)) = year
  <1>1. PICK century \in Int, left \in Int :
            /\ year = 100 * century + left
            /\ 0 <= century /\ century <= 3 /\ 0 <= left /\ left < 100
    <2>1. /\ year = 100 * (year \div 100) + (year % 100)
          /\ year \div 100 \in Int /\ 0 <= year \div 100 /\ year \div 100 <= 3
          /\ year % 100 \in Int /\ 0 <= year % 100 /\ year % 100 < 100
      OBVIOUS
    <2> QED BY <2>1
  <1>2. PICK four \in Int, one \in Int :
            /\ left = 4 * four + one
            /\ 0 <= four /\ four <= 24 /\ 0 <= one /\ one < 4
    <2>1. /\ left = 4 * (left \div 4) + (left % 4)
          /\ left \div 4 \in Int /\ 0 <= left \div 4 /\ left \div 4 <= 24
          /\ left % 4 \in Int /\ 0 <= left % 4 /\ left % 4 < 4
      BY <1>1
    <2> QED BY <2>1
  <1>3. PICK inCentury \in Int : inCentury = 1461 * four + 365 * one + ofYear
    OBVIOUS
  <1>4. PICK inEra \in Int : inEra = 36524 * century + inCentury
    OBVIOUS
  <1>5. EraDay(year, ofYear) = inEra
    BY <1>1, <1>2, <1>3, <1>4 DEF EraDay, InEra
  <1>6. 0 <= inCentury /\ inCentury <= 36524 /\ (inCentury = 36524 => century = 3)
    BY <1>1, <1>2, <1>3
  <1>7. 0 <= inEra /\ inEra <= 146096 /\ inEra \div 36524 - inEra \div 146096 = century
    BY <1>1, <1>4, <1>6, CenturyFound
  <1>8. YearOfEraDay(inEra) = (inEra - inEra \div 1460 + century) \div 365
    BY <1>7 DEF YearOfEraDay
  <1>9. /\ 0 <= inEra - inEra \div 1460 + century - 365 * year
        /\ inEra - inEra \div 1460 + century - 365 * year < 365
    BY <1>1, <1>2, <1>3, <1>4, <1>6
  <1>10. (inEra - inEra \div 1460 + century) \div 365 = year
    BY <1>7, <1>9
  <1> QED BY <1>5, <1>7, <1>8, <1>10

\* The month is found from the day of a year that begins in March.
LEMMA MonthFits ==
    ASSUME NEW month \in 0..11, NEW day \in 1..31,
           day = 31 => month \in {0, 2, 4, 5, 7, 9, 10}, month = 11 => day <= 29,
           NEW ofYear \in Int, ofYear = (153 * month + 2) \div 5 + day - 1
    PROVE  /\ 0 <= ofYear /\ ofYear <= 365
           /\ (5 * ofYear + 2) \div 153 = month
           /\ ofYear = 365 => month = 11 /\ day = 29
  BY SMT

LEMMA MonthFound ==
    ASSUME NEW date \in Date,
           NEW ofYear \in Int, ofYear = MonthStart(MonthOf(date)) + date.day - 1
    PROVE  /\ 0 <= ofYear /\ ofYear <= 365
           /\ (5 * ofYear + 2) \div 153 = MonthOf(date)
           /\ ofYear = 365 => date.month = 2 /\ date.day = 29
  <1>1. date.month \in 1..12 /\ date.day \in 1..31 /\ date.day <= Longest(date.year, date.month)
    BY DEF Date
  <1>2. date.day = 31 => MonthOf(date) \in {0, 2, 4, 5, 7, 9, 10}
    BY <1>1, MonthOfs DEF Longest
  <1>3. MonthOf(date) = 11 => date.month = 2 /\ date.day <= 29
    BY <1>1, MonthOfs DEF Longest
  <1>4. ofYear = (153 * MonthOf(date) + 2) \div 5 + date.day - 1
    BY DEF MonthStart
  <1> QED BY <1>1, <1>2, <1>3, <1>4, MonthOfs, MonthFits

\* A date is found again from its day: the two sums the code has for it, one each way,
\* undo each other on every day of the calendar, before and after the epoch.
THEOREM DateFound ==
    ASSUME NEW date \in Date
    PROVE  Civil(EpochDays(date)) = date
  <1> DEFINE days == EpochDays(date)
  <1>1. /\ date = [year |-> date.year, month |-> date.month, day |-> date.day]
        /\ date.year \in Int /\ date.month \in 1..12 /\ date.day \in 1..31
        /\ date.day <= Longest(date.year, date.month)
    BY DEF Date
  <1>2. YearOf(date) \in Int
    BY <1>1 DEF YearOf
  <1>3. PICK era \in Int, left \in Int :
            YearOf(date) = 400 * era + left /\ 0 <= left /\ left < 400
    <2> DEFINE year == YearOf(date)
    <2>1. /\ year = 400 * (year \div 400) + (year % 400)
          /\ year \div 400 \in Int /\ year % 400 \in Int
          /\ 0 <= year % 400 /\ year % 400 < 400
      BY <1>2
    <2> QED BY <2>1
  <1>4. PICK ofYear \in Int : ofYear = MonthStart(MonthOf(date)) + date.day - 1
    BY <1>1, MonthOfs DEF MonthStart
  <1>5. /\ 0 <= ofYear /\ ofYear <= 365
        /\ (5 * ofYear + 2) \div 153 = MonthOf(date)
        /\ ofYear = 365 => date.month = 2 /\ date.day = 29
    BY <1>4, MonthFound
  <1>6. ofYear = 365 => (left + 1) % 4 = 0 /\ ((left + 1) % 100 # 0 \/ left = 399)
    <2> SUFFICES ASSUME ofYear = 365
                 PROVE  (left + 1) % 4 = 0 /\ ((left + 1) % 100 # 0 \/ left = 399)
      OBVIOUS
    <2>1. date.month = 2 /\ date.day = 29
      BY <1>5
    <2>2. Leap(date.year)
      BY <1>1, <2>1 DEF Longest
    <2>3. date.year = 400 * era + left + 1
      BY <1>1, <1>3, <2>1 DEF YearOf
    <2> QED BY <1>3, <2>2, <2>3 DEF Leap
  <1>7. /\ EraDay(left, ofYear) \in Int
        /\ 0 <= EraDay(left, ofYear) /\ EraDay(left, ofYear) < 146097
        /\ YearOfEraDay(EraDay(left, ofYear)) = left
    BY <1>3, <1>5, <1>6, YearFound
  <1>8. days + 719468 = 146097 * era + EraDay(left, ofYear)
    <2>1. YearOf(date) \div 400 = era /\ YearOf(date) % 400 = left
      BY <1>3
    <2>2. InEra(left) \in Int
      BY <1>3 DEF InEra
    <2>3. MonthStart(MonthOf(date)) \in Int
      BY MonthOfs DEF MonthStart
    <2> QED BY <1>1, <1>3, <1>4, <2>1, <2>2, <2>3, EpochDaysSplit DEF YearStart, EraDay
  <1>9. days \in Int
    BY <1>1 DEF EpochDays
  <1> HIDE DEF days
  <1>10. (days + 719468) % 146097 = EraDay(left, ofYear) /\ (days + 719468) \div 146097 = era
    BY <1>3, <1>7, <1>8, <1>9
  <1>11. EraDay(left, ofYear) - (365 * left + left \div 4 - left \div 100) = ofYear
    BY <1>3, <1>5 DEF EraDay, InEra
  <1>12. Civil(days) = [year |-> left + 400 * era + (IF MonthOf(date) < 10 THEN 0 ELSE 1),
                        month |-> IF MonthOf(date) < 10 THEN MonthOf(date) + 3
                                  ELSE MonthOf(date) - 9,
                        day |-> ofYear - MonthStart(MonthOf(date)) + 1]
    <2>1. PICK month \in Int : month = MonthOf(date)
      BY MonthOfs
    <2>2. PICK ofEra \in Int : ofEra = EraDay(left, ofYear)
      BY <1>7
    <2>3. /\ (days + 719468) \div 146097 = era /\ (days + 719468) % 146097 = ofEra
          /\ YearOfEraDay(ofEra) = left
          /\ ofEra - (365 * left + left \div 4 - left \div 100) = ofYear
          /\ (5 * ofYear + 2) \div 153 = month
      BY <1>5, <1>7, <1>10, <1>11, <2>1, <2>2, SMT
    <2>4. Civil(days) = [year |-> left + 400 * era + (IF month < 10 THEN 0 ELSE 1),
                         month |-> IF month < 10 THEN month + 3 ELSE month - 9,
                         day |-> ofYear - MonthStart(month) + 1]
      BY <1>9, <2>3, SMT DEF Civil, YearOfEraDay, MonthStart
    <2> QED BY <2>1, <2>4, Zenon
  <1>13. left + 400 * era + (IF MonthOf(date) < 10 THEN 0 ELSE 1) = date.year
    BY <1>1, <1>3, MonthOfs DEF YearOf
  <1>14. (IF MonthOf(date) < 10 THEN MonthOf(date) + 3 ELSE MonthOf(date) - 9) = date.month
    BY <1>1, MonthOfs
  <1>15. MonthStart(MonthOf(date)) \in Int
    BY MonthOfs DEF MonthStart
  <1>16. ofYear - MonthStart(MonthOf(date)) + 1 = date.day
    BY <1>1, <1>4, <1>15
  <1> QED BY <1>1, <1>12, <1>13, <1>14, <1>16 DEF days

\* The dates the code takes are those of the calendar with a year of four digits.
LEMMA DateOf ==
    ASSUME NEW date \in [year : Int, month : 1..12, day : 1..31], IsDate(date)
    PROVE  date \in Date
  <1>1. date.day \in 1..Longest(date.year, date.month)
    BY DEF IsDate
  <1>2. Longest(date.year, date.month) \in Int
    BY DEF Longest
  <1>3. date.day <= Longest(date.year, date.month)
    BY <1>1, <1>2
  <1> QED BY <1>3 DEF Date

LEMMA DateIs ==
    ASSUME NEW date \in Date, 0 <= date.year, date.year <= MaxYear
    PROVE  IsDate(date)
  <1>1. MaxYear \in Int
    BY DEF MaxYear
  <1>2. date.year \in 0..MaxYear
    BY <1>1 DEF Date
  <1>3. date.day \in 1..Longest(date.year, date.month)
    <2>1. Longest(date.year, date.month) \in Int
      BY DEF Longest
    <2> QED BY <2>1 DEF Date
  <1> QED BY <1>2, <1>3 DEF IsDate, Date
=============================================================================
