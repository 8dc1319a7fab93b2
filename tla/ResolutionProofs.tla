-------------------------- MODULE ResolutionProofs --------------------------
(***************************************************************************)
(* Theorems about Resolution: what is answered about the past is what the  *)
(* files held then, for every calendar, log and offset, and a capture      *)
(* cannot change where a redirect points.                                  *)
(***************************************************************************)
EXTENDS Resolution, DatesProofs, Recursion, FiniteSetTheorems

LEMMA Constants ==
    /\ DaySeconds \in Nat /\ DaySeconds > 0
    /\ MaxOffset \in Nat /\ MaxOffset < DaySeconds
    /\ MaxYear \in Nat /\ MaxYear > 0
  BY SMT DEF DaySeconds, MaxOffset, MaxYear

-----------------------------------------------------------------------------
(* The calendar. *)

Counts(days, first, last) ==
    days = [day \in -1..last |-> IF day = -1 THEN first ELSE Tomorrow(days[day - 1])]

LEMMA CountExists ==
    ASSUME NEW first \in Date, NEW last \in Nat
    PROVE  \E days : Counts(days, first, last)
  <1> DEFINE step == [s \in Nat \X Date |-> Tomorrow(s[2])]
  <1>1. step \in [Nat \X Date -> Date]
    BY NextDay
  <1>2. last + 1 \in Nat
    OBVIOUS
  <1>3. PICK f : Follows(f, Date, first, step, last + 1)
    BY <1>1, <1>2, Recursive
  <1>4. ASSUME NEW i \in 0..last PROVE f[i + 1] = Tomorrow(f[i])
    <2>1. i \in 0..((last + 1) - 1) /\ i \in 0..(last + 1) /\ i \in Nat
      OBVIOUS
    <2>2. f[i + 1] = step[<<i, f[i]>>]
      <3> HIDE DEF step
      <3> QED BY <1>3, <2>1 DEF Follows
    <2>3. f[i] \in Date
      <3> HIDE DEF step
      <3> QED BY <1>3, <2>1 DEF Follows
    <2> QED BY <2>1, <2>2, <2>3
  <1>5. f[0] = first
    <2> HIDE DEF step
    <2> QED BY <1>3 DEF Follows
  <1> DEFINE days == [day \in -1..last |-> f[day + 1]]
  <1>6. ASSUME NEW day \in -1..last
        PROVE  f[day + 1] = IF day = -1 THEN first ELSE Tomorrow(days[day - 1])
    <2>1. CASE day = -1
      BY <1>5, <2>1
    <2>2. CASE day # -1
      <3>1. day \in 0..last /\ day - 1 \in -1..last /\ (day - 1) + 1 = day
        BY <2>2
      <3>2. days[day - 1] = f[day]
        BY <3>1
      <3> QED BY <1>4, <2>2, <3>1, <3>2
    <2> QED BY <2>1, <2>2
  <1>7. days = [day \in -1..last |-> IF day = -1 THEN first ELSE Tomorrow(days[day - 1])]
    BY <1>6
  <1> QED BY <1>7 DEF Counts

\* Each day of a calendar is one after the one before, and its year is no earlier.
LEMMA Counted ==
    ASSUME NEW first \in Date, NEW last \in Nat, NEW days, Counts(days, first, last),
           NEW day \in -1..last
    PROVE  /\ days[day] \in Date
           /\ EpochDays(days[day]) = EpochDays(first) + 1 + day
           /\ \A before \in -1..day : days[before].year <= days[day].year
  <1> DEFINE Right(n) ==
                 /\ days[n] \in Date
                 /\ EpochDays(days[n]) = EpochDays(first) + 1 + n
                 /\ \A before \in -1..n :
                       days[before].year \in Int /\ days[before].year <= days[n].year
             T == {n \in Nat : n - 1 <= last => Right(n - 1)}
  <1>0. EpochDays(first) \in Int
    BY EpochDaysInt
  <1>1. 0 \in T
    <2>1. -1 \in -1..last
      OBVIOUS
    <2>2. days[-1] = first
      BY <2>1 DEF Counts
    <2>3. first.year \in Int
      BY DEF Date
    <2> QED BY <1>0, <2>2, <2>3
  <1>2. ASSUME NEW n \in Nat, n \in T PROVE n + 1 \in T
    <2> SUFFICES ASSUME n <= last PROVE Right(n)
      OBVIOUS
    <2>1. Right(n - 1)
      BY <1>2
    <2>2. n \in -1..last /\ n # -1
      OBVIOUS
    <2>3. days[n] = Tomorrow(days[n - 1])
      BY <2>2 DEF Counts
    <2>4. days[n] \in Date /\ EpochDays(days[n]) = EpochDays(days[n - 1]) + 1
      BY <2>1, <2>3, NextDay
    <2>5. EpochDays(days[n]) = EpochDays(first) + 1 + n
      BY <1>0, <2>1, <2>4
    <2>6. days[n - 1].year \in Int /\ days[n].year \in Int
      BY <2>1, <2>4 DEF Date
    <2>7. days[n - 1].year <= days[n].year
      BY <2>1, <2>3, <2>6 DEF Tomorrow, Date
    <2>8. ASSUME NEW before \in -1..n
          PROVE  days[before].year \in Int /\ days[before].year <= days[n].year
      <3>1. CASE before = n
        BY <2>6, <3>1
      <3>2. CASE before # n
        <4>1. before \in -1..(n - 1)
          BY <3>2
        <4>2. before \in -1..last
          OBVIOUS
        <4>3. days[before].year \in Int /\ days[before].year <= days[n - 1].year
          BY <2>1, <4>1
        <4> QED BY <2>6, <2>7, <4>3
      <3> QED BY <3>1, <3>2
    <2> QED BY <2>4, <2>5, <2>8
  <1>3. day + 1 \in T
    <2>1. T \subseteq Nat /\ day + 1 \in Nat
      OBVIOUS
    <2> HIDE DEF T
    <2> QED BY <1>1, <1>2, <2>1, Inductive
  <1>4. (day + 1) - 1 = day
    OBVIOUS
  <1> QED BY <1>3, <1>4

-----------------------------------------------------------------------------
(* Days and moments as the code numbers them. *)

Epoch == EpochDays(start) + 1
Numbered(moment) == [day |-> Epoch + moment.day, second |-> moment.second]

LEMMA EpochInt == ASSUME start \in Starts PROVE Epoch \in Int /\ start \in Date
  <1>1. start \in [year : Int, month : 1..12, day : 1..31] /\ IsDate(start)
    BY ResolutionAssumption
  <1>2. start \in Date
    BY <1>1, DateOf
  <1> QED BY <1>2, EpochDaysInt DEF Epoch

LEMMA Days ==
    ASSUME start \in Starts, NEW day \in -1..(LastDay + 1)
    PROVE  /\ Calendar[day] \in Date
           /\ EpochDays(Calendar[day]) = Epoch + day
           /\ Civil(Epoch + day) = Calendar[day]
           /\ 1 <= Calendar[day].year /\ Calendar[day].year <= MaxYear
           /\ IsDate(Calendar[day])
  <1> DEFINE last == LastDay + 1
  <1>1. last \in Nat /\ LastDay \in Nat
    BY ResolutionAssumption
  <1>2. start \in Date /\ IsDate(start) /\ start.year # 0
    BY EpochInt, ResolutionAssumption
  <1>3. \E days : Counts(days, start, last)
    BY <1>1, <1>2, CountExists
  <1>4. Counts(Calendar, start, last)
    BY <1>3 DEF Counts, Calendar
  <1>5. /\ Calendar[day] \in Date
        /\ EpochDays(Calendar[day]) = EpochDays(start) + 1 + day
        /\ \A before \in -1..day : Calendar[before].year <= Calendar[day].year
    <2> HIDE DEF Calendar
    <2> QED BY <1>1, <1>2, <1>4, Counted
  <1>6. /\ Calendar[last] \in Date
        /\ EpochDays(Calendar[last]) = EpochDays(start) + 1 + last
        /\ \A before \in -1..last : Calendar[before].year <= Calendar[last].year
    <2>1. last \in -1..last
      BY <1>1
    <2> HIDE DEF Calendar, last
    <2> QED BY <1>1, <1>2, <1>4, <2>1, Counted
  <1>7. EpochDays(start) \in Int
    BY <1>2, EpochDaysInt
  <1>8. EpochDays(Calendar[day]) = Epoch + day
    BY <1>1, <1>5, <1>7 DEF Epoch
  <1>9. Civil(Epoch + day) = Calendar[day]
    BY <1>5, <1>8, DateFound
  <1>10. Calendar[last].year <= MaxYear
    <2>1. EpochDays(Calendar[last]) = EpochDays(start) + LastDay + 2
      BY <1>1, <1>6, <1>7
    <2>2. Civil(EpochDays(Calendar[last])) = Calendar[last]
      BY <1>6, DateFound
    <2>3. Civil(EpochDays(start) + LastDay + 2).year <= MaxYear
      BY ResolutionAssumption
    <2> HIDE DEF Calendar, last
    <2> QED BY <2>1, <2>2, <2>3
  <1>11. Calendar[-1] = start
    <2>1. -1 \in -1..last
      BY <1>1
    <2> HIDE DEF Calendar, last
    <2> QED BY <1>4, <2>1 DEF Counts
  <1> HIDE DEF Calendar
  <1>12. 1 <= start.year /\ start.year \in Int
    BY <1>2 DEF IsDate
  <1>13. -1 \in -1..day /\ day \in -1..last
    BY <1>1
  <1>14. start.year <= Calendar[day].year /\ Calendar[day].year <= Calendar[last].year
    BY <1>5, <1>6, <1>11, <1>13
  <1>15. Calendar[day].year \in Int /\ Calendar[last].year \in Int
    BY <1>5, <1>6 DEF Date
  <1>16. 1 <= Calendar[day].year /\ Calendar[day].year <= MaxYear
    <2>1. MaxYear \in Int
      BY Constants
    <2> HIDE DEF last
    <2> QED BY <1>10, <1>12, <1>14, <1>15, <2>1
  <1>17. IsDate(Calendar[day])
    <2>1. 0 <= Calendar[day].year
      BY <1>15, <1>16
    <2> QED BY <1>5, <1>16, <2>1, DateIs
  <1> QED BY <1>5, <1>8, <1>9, <1>16, <1>17

LEMMA Shifted ==
    ASSUME NEW day \in Int, NEW second \in 0..(DaySeconds - 1),
           NEW offset \in -MaxOffset..MaxOffset, NEW era \in Int,
           NEW local, local = Moment(day, second + offset)
    PROVE  /\ local.day \in Int /\ day - 1 <= local.day /\ local.day <= day + 1
           /\ local.second \in 0..(DaySeconds - 1)
           /\ Moment(era + local.day, local.second - offset) = [day |-> era + day, second |-> second]
  <1>1. PICK seconds \in Int : seconds = DaySeconds /\ seconds = 86400
    BY SMT DEF DaySeconds
  <1>2. /\ second \in Int /\ 0 <= second /\ second < seconds
        /\ offset \in Int /\ -seconds < offset /\ offset < seconds
    BY <1>1, Constants, SMT
  <1>3. PICK q \in Int, r \in Int :
           q = (second + offset) \div seconds /\ r = (second + offset) % seconds
    BY <1>1, <1>2, SMT
  <1>4. /\ second + offset = 86400 * q + r /\ 0 <= r /\ r < 86400 /\ q \in {-1, 0, 1}
    BY <1>1, <1>2, <1>3, SMT
  <1>5. local = [day |-> day + q, second |-> r]
    BY <1>1, <1>3 DEF Moment
  <1>6. (r - offset) \div seconds = -q /\ (r - offset) % seconds = second
    <2>1. r - offset = 86400 * (-q) + second
      BY <1>2, <1>3, <1>4, SMT
    <2>2. (r - offset) \div 86400 = -q /\ (r - offset) % 86400 = second
      <3>0. -q \in Int /\ r - offset \in Int
        BY <1>2, SMT
      <3>1. PICK k \in Int, n \in Int : k = -q /\ n = r - offset
        BY <3>0
      <3>2. n = 86400 * k + second /\ 0 <= second /\ second < 86400 /\ second \in Int
        BY <1>1, <1>2, <2>1, <3>1, SMT
      <3>3. n \div 86400 = k /\ n % 86400 = second
        BY <3>1, <3>2, SMT
      <3> QED BY <3>1, <3>3
    <2> QED BY <1>1, <2>2, SMT
  <1>7. Moment(era + (day + q), r - offset) = [day |-> (era + (day + q)) + (-q), second |-> second]
    BY <1>1, <1>6 DEF Moment
  <1>8. (era + (day + q)) + (-q) = era + day
    BY <1>4
  <1>9. r \in 0..(DaySeconds - 1)
    <2>1. 0 <= r /\ r <= seconds - 1
      BY <1>1, <1>3, <1>4, SMT
    <2>2. seconds \in Int /\ r \in Int /\ seconds = DaySeconds
      BY <1>1, <1>3
    <2>3. r \in 0..(seconds - 1)
      BY <2>1, <2>2
    <2> QED BY <2>2, <2>3
  <1> QED BY <1>4, <1>5, <1>7, <1>8, <1>9

\* A moment written at any offset is read as that moment.
LEMMA WrittenIsRead ==
    ASSUME start \in Starts, NEW day \in 0..LastDay, NEW second \in 0..(DaySeconds - 1),
           NEW offset \in -MaxOffset..MaxOffset
    PROVE  LET moment == [day |-> day, second |-> second]
           IN  /\ IsText(Written(moment, offset))
               /\ Read(Written(moment, offset)) = Numbered(moment)
  <1> DEFINE moment == [day |-> day, second |-> second]
             local == Moment(day, second + offset)
             text == Written(moment, offset)
  <1>1. Epoch \in Int /\ LastDay \in Nat
    BY EpochInt, ResolutionAssumption
  <1>2. /\ local.day \in Int /\ day - 1 <= local.day /\ local.day <= day + 1
        /\ local.second \in 0..(DaySeconds - 1)
        /\ Moment(Epoch + local.day, local.second - offset) = [day |-> Epoch + day, second |-> second]
    <2>1. day \in Int
      OBVIOUS
    <2> HIDE DEF Epoch
    <2> QED BY <1>1, <2>1, Shifted
  <1>3. text = [form |-> "instant", date |-> Calendar[local.day], second |-> local.second,
                offset |-> offset]
    BY DEF Written
  <1> HIDE DEF local, text
  <1>4. local.day \in -1..(LastDay + 1)
    BY <1>1, <1>2
  <1>5. /\ EpochDays(Calendar[local.day]) = Epoch + local.day
        /\ IsDate(Calendar[local.day])
    BY <1>4, Days
  <1>6. local.second \in 0..DaySeconds
    BY <1>2, Constants
  <1>7. IsText(text)
    BY <1>3, <1>5, <1>6 DEF IsText
  <1>8. Read(text) = Moment(Epoch + local.day, local.second - offset)
    BY <1>3, <1>5 DEF Read
  <1>9. Read(text) = Numbered(moment)
    BY <1>2, <1>8 DEF Numbered
  <1> QED BY <1>7, <1>9 DEF text

LEMMA MeantDay ==
    ASSUME NEW question \in Question, question.form # "none"
    PROVE  /\ Meant(question).day \in 0..(LastDay + 1)
           /\ Meant(question).second \in 0..(DaySeconds - 1)
  <1>1. LastDay \in Nat
    BY ResolutionAssumption
  <1>2. question.day \in 0..LastDay /\ question.second \in 0..(DaySeconds - 1)
    BY DEF Question
  <1>3. DaySeconds - 1 \in 0..(DaySeconds - 1)
    BY Constants
  <1>4. question.day \in 0..(LastDay + 1) /\ question.day + 1 \in 0..(LastDay + 1)
    BY <1>1, <1>2
  <1> QED BY <1>2, <1>3, <1>4 DEF Meant

\* The last second of a day.
LEMMA DateIsRead ==
    ASSUME start \in Starts, NEW day \in -1..(LastDay + 1)
    PROVE  Read([form |-> "date", date |-> Calendar[day]])
               = [day |-> Epoch + day, second |-> DaySeconds - 1]
  <1>1. EpochDays(Calendar[day]) = Epoch + day
    BY Days
  <1>2. Epoch \in Int /\ LastDay \in Nat
    BY EpochInt, ResolutionAssumption
  <1>3. (DaySeconds - 1) \div DaySeconds = 0 /\ (DaySeconds - 1) % DaySeconds = DaySeconds - 1
    BY SMT DEF DaySeconds
  <1>4. Epoch + day + 0 = Epoch + day
    BY <1>2
  <1>5. Read([form |-> "date", date |-> Calendar[day]]) = Moment(Epoch + day, DaySeconds - 1)
    BY <1>1 DEF Read
  <1> QED BY <1>3, <1>4, <1>5 DEF Moment

\* A date one past another of its month is read when it is the day after that.
LEMMA StretchedIsADate ==
    ASSUME start \in Starts, NEW question \in Question, question.form = "stretched"
    PROVE  Parses(AsOf(question)) <=> AsOf(question).date = Calendar[question.day + 1]
  <1> DEFINE date == Calendar[question.day]
             next == Calendar[question.day + 1]
             stretched == [date EXCEPT !.day = @ + 1]
             text == [form |-> "date", date |-> stretched]
  <1>1. question.day \in 0..LastDay /\ LastDay \in Nat
    BY ResolutionAssumption DEF Question
  <1>2. question.day \in -1..(LastDay + 1) /\ question.day + 1 \in -1..(LastDay + 1)
    BY <1>1
  <1>3. AsOf(question) = text
    BY DEF AsOf
  <1>4. /\ date \in Date /\ next \in Date
        /\ 1 <= date.year /\ date.year <= MaxYear /\ 1 <= next.year /\ next.year <= MaxYear
        /\ EpochDays(date) = Epoch + question.day
        /\ EpochDays(next) = Epoch + (question.day + 1)
        /\ Civil(Epoch + (question.day + 1)) = next /\ IsDate(next)
    BY <1>2, Days
  <1>5. Tomorrow(date) = next
    <2>1. Epoch \in Int
      BY EpochInt
    <2>2. Tomorrow(date) \in Date /\ EpochDays(Tomorrow(date)) = EpochDays(next)
      BY <1>1, <1>4, <2>1, NextDay
    <2> HIDE DEF date, next
    <2> QED BY <1>4, <2>2, DateFound
  <1>6. Read([form |-> "date", date |-> next]).day = Epoch + (question.day + 1)
    <2>1. Read([form |-> "date", date |-> Calendar[question.day + 1]])
              = [day |-> Epoch + (question.day + 1), second |-> DaySeconds - 1]
      BY <1>2, DateIsRead
    <2> HIDE DEF date
    <2> QED BY <2>1
  <1> HIDE DEF date, next
  <1>7. CASE stretched = next
    <2>1. text = [form |-> "date", date |-> next]
      BY <1>7
    <2>2. IsText(text)
      BY <1>4, <2>1 DEF IsText
    <2>3. next.year \in Int /\ MaxYear \in Int
      BY <1>4, Constants DEF Date
    <2>4. Civil(Read(text).day).year \in 1..MaxYear
      BY <1>4, <1>6, <2>1, <2>3
    <2>5. Parses(text)
      BY <2>2, <2>4 DEF Parses
    <2> QED BY <1>3, <1>7, <2>5 DEF next
  <1>8. CASE stretched # next
    <2>1. ~(date.day < Longest(date.year, date.month))
      BY <1>5, <1>8 DEF Tomorrow
    <2>2. /\ stretched.year = date.year /\ stretched.month = date.month
          /\ stretched.day = date.day + 1 /\ date.day \in Int
      BY <1>4 DEF Date
    <2>3. Longest(date.year, date.month) \in Int
      BY DEF Longest
    <2>4. ~(stretched.day \in 1..Longest(stretched.year, stretched.month))
      BY <2>1, <2>2, <2>3
    <2>5. ~Parses(text)
      BY <2>4 DEF Parses, IsText, IsDate
    <2> QED BY <1>3, <1>8, <2>5 DEF next
  <1> QED BY <1>7, <1>8

\* Whatever is asked, what is read is the moment that is meant, and it is sent on as such.
LEMMA AskedIsMeant ==
    ASSUME start \in Starts, NEW question \in Question, question.form # "none",
           Parses(AsOf(question))
    PROVE  LET at == Read(AsOf(question))
           IN  /\ at = Numbered(Meant(question))
               /\ Read(FormatUtc(at)) = at
  <1> DEFINE at == Read(AsOf(question))
             day == Meant(question).day
             second == Meant(question).second
  <1>1. LastDay \in Nat /\ Epoch \in Int
    BY EpochInt, ResolutionAssumption
  <1>2. question.day \in 0..LastDay
    BY DEF Question
  <1>3. question.day \in -1..(LastDay + 1) /\ question.day + 1 \in -1..(LastDay + 1)
    BY <1>1, <1>2
  <1>4. at = Numbered(Meant(question))
    <2>1. CASE question.form = "date"
      BY <1>3, <2>1, DateIsRead DEF AsOf, Meant, Numbered
    <2>2. CASE question.form = "stretched"
      <3>1. AsOf(question) = [form |-> "date", date |-> AsOf(question).date]
        BY <2>2 DEF AsOf
      <3>2. AsOf(question) = [form |-> "date", date |-> Calendar[question.day + 1]]
        BY <2>2, <3>1, StretchedIsADate
      <3>3. Read(AsOf(question)) = [day |-> Epoch + (question.day + 1), second |-> DaySeconds - 1]
        BY <1>3, <3>2, DateIsRead
      <3> QED BY <2>2, <3>3 DEF Meant, Numbered
    <2>3. CASE question.form = "instant"
      <3>1. question.second \in 0..(DaySeconds - 1) /\ question.offset \in -MaxOffset..MaxOffset
        BY DEF Question
      <3>2. Read(Written([day |-> question.day, second |-> question.second], question.offset))
                = Numbered([day |-> question.day, second |-> question.second])
        BY <1>2, <3>1, WrittenIsRead
      <3>3. Meant(question) = [day |-> question.day, second |-> question.second]
        BY <2>3 DEF Meant
      <3>4. AsOf(question) = Written(Meant(question), question.offset)
        BY <2>3 DEF AsOf
      <3> QED BY <3>2, <3>3, <3>4
    <2> QED BY <2>1, <2>2, <2>3 DEF Question
  <1>5. day \in 0..(LastDay + 1) /\ second \in 0..(DaySeconds - 1)
    BY MeantDay
  <1>6. at.day = Epoch + day /\ at.second = second
    BY <1>4 DEF Numbered
  <1>7. day \in -1..(LastDay + 1)
    BY <1>1, <1>5
  <1> HIDE DEF day, second, at
  <1>8. EpochDays(Civil(Epoch + day)) = Epoch + day
    BY <1>7, Days
  <1>9. Read(FormatUtc(at)) = Moment(Epoch + day, second - 0)
    BY <1>6, <1>8 DEF FormatUtc, Read
  <1>10. Moment(Epoch + day, second - 0) = [day |-> Epoch + day, second |-> second]
    <2>1. PICK d \in Int, n \in Int : d = Epoch + day /\ n = second /\ 0 <= n /\ n < 86400
      BY <1>1, <1>5, <1>7, SMT DEF DaySeconds
    <2>2. (n - 0) \div 86400 = 0 /\ (n - 0) % 86400 = n
      BY <2>1, SMT
    <2>3. d + 0 = d
      BY <2>1
    <2>4. Moment(d, n - 0) = [day |-> d, second |-> n]
      BY <2>2, <2>3, SMT DEF Moment, DaySeconds
    <2> QED BY <2>1, <2>4
  <1>11. Read(FormatUtc(at)) = at
    BY <1>4, <1>9, <1>10 DEF Numbered, day, second
  <1> QED BY <1>4, <1>11 DEF at

-----------------------------------------------------------------------------
(* Redirects. *)

\* What a capture is filled with, and what a target may come to hold.
Filling == {Part("end")} \cup {Encoded(segment) : segment \in Segment \ Dots}
UrlPart == TargetPart \cup Filling

LEMMA ValueIsClean ==
    ASSUME NEW match \in Seq(Piece), NEW path \in Path, NEW name,
           CheckMatch(match), Matches(match, path),
           \E j \in Captures(match) : match[j].text = name
    PROVE  Value(match, path, name) \in Seq(Filling)
  <1> DEFINE at == CHOOSE i \in Captures(match) : match[i].text = name
             taken == IF match[at].kind = "one" THEN <<path[at]>> ELSE SubSeq(path, at, Len(path))
  <1>1. at \in Captures(match)
    OBVIOUS
  <1> HIDE DEF at
  <1>2. /\ at \in 1..Len(match) /\ match[at] \in Piece /\ match[at].kind # "literal"
        /\ Len(match) \in Nat /\ Len(path) \in Nat
    BY <1>1 DEF Captures, Path
  <1>3. match[at].kind \in {"one", "rest"}
    BY <1>2 DEF Piece
  <1>4. Len(path) >= Len(match)
    BY <1>2 DEF Matches
  <1>5. \A i \in 1..Len(path) : path[i] \in Segment
    BY DEF Path
  <1>6. taken \in Seq(Segment \ Dots) /\ Len(taken) \in Nat \ {0}
    <2>1. CASE match[at].kind = "one"
      <3>1. path[at] \in Segment \ Dots
        BY <1>2, <1>4, <1>5, <2>1 DEF Matches
      <3> QED BY <2>1, <3>1
    <2>2. CASE match[at].kind = "rest"
      <3>1. at = Len(match)
        BY <1>2, <2>2 DEF CheckMatch
      <3>2. Last(match).kind = "rest"
        BY <2>2, <3>1 DEF Last
      <3>3. \A j \in at..Len(path) : path[j] \in Segment \ Dots
        <4>1. \A j \in Len(match)..Len(path) : path[j] \notin Dots
          BY <3>2 DEF Matches
        <4> QED BY <1>2, <1>5, <3>1, <4>1
      <3>4. taken = SubSeq(path, at, Len(path))
        BY <2>2
      <3> HIDE DEF taken
      <3>5. at \in Int /\ Len(path) \in Int /\ at <= Len(path)
        BY <1>2, <1>4, <3>1
      <3>6. taken \in Seq(Segment \ Dots) /\ Len(taken) = Len(path) - at + 1
        BY <3>3, <3>4, <3>5, SubSeqProperties
      <3> QED BY <3>5, <3>6
    <2> QED BY <1>3, <2>1, <2>2
  <1> HIDE DEF taken
  <1>7. Value(match, path, name)
            = [i \in 1..(2 * Len(taken) - 1) |->
                  IF i % 2 = 1 THEN Encoded(taken[(i + 1) \div 2]) ELSE Part("end")]
    BY DEF Value, taken, at
  <1>8. ASSUME NEW i \in 1..(2 * Len(taken) - 1)
        PROVE  (IF i % 2 = 1 THEN Encoded(taken[(i + 1) \div 2]) ELSE Part("end")) \in Filling
    <2>1. CASE i % 2 = 1
      <3>1. (i + 1) \div 2 \in 1..Len(taken)
        BY <1>6, <2>1
      <3>2. taken[(i + 1) \div 2] \in Segment \ Dots
        <4>1. PICK k \in 1..Len(taken) : k = (i + 1) \div 2
          BY <3>1
        <4>2. taken[k] \in Segment \ Dots
          BY <1>6
        <4> QED BY <4>1, <4>2
      <3> QED BY <2>1, <3>2 DEF Filling
    <2>2. CASE i % 2 # 1
      BY <2>2 DEF Filling
    <2> QED BY <2>1, <2>2
  <1>9. 2 * Len(taken) - 1 \in Nat
    BY <1>6
  <1> QED BY <1>7, <1>8, <1>9

\* A rule that is checked keeps what a request sends behind its host, and out of it.
LEMMA RewriteStaysPut ==
    ASSUME NEW rule \in [match : Seq(Piece), target : Seq(TargetPart)], NEW path \in Path,
           CheckRule(rule), Matches(rule.match, path)
    PROVE  /\ Rewrite(rule, path) \in Seq(UrlPart)
           /\ \A part \in Host(Rewrite(rule, path)) : part.kind # "encoded"
           /\ DotSegments(Rewrite(rule, path)) = {}
  <1> DEFINE target == rule.target
             parts == [i \in DOMAIN target |->
                          IF target[i].kind = "use" THEN Value(rule.match, path, target[i].text)
                          ELSE <<target[i]>>]
             url == FlattenSeq(parts)
  <1>1. target \in Seq(TargetPart) /\ Len(target) \in Nat /\ DOMAIN target = 1..Len(target)
    OBVIOUS
  <1> HIDE DEF target
  <1>2. ASSUME NEW i \in DOMAIN target
        PROVE  /\ target[i].kind = "use" => parts[i] \in Seq(Filling)
               /\ target[i].kind # "use" => parts[i] = <<target[i]>> /\ target[i] \in UrlPart
    <2>1. CASE target[i].kind = "use"
      <3>1. i \in Uses(rule.target)
        BY <2>1 DEF Uses, target
      <3>2. \E j \in Captures(rule.match) : rule.match[j].text = target[i].text
        BY <3>1 DEF CheckRule, target
      <3>3. CheckMatch(rule.match)
        BY DEF CheckRule
      <3>4. Value(rule.match, path, target[i].text) \in Seq(Filling)
        BY <3>2, <3>3, ValueIsClean
      <3> QED BY <2>1, <3>4
    <2>2. CASE target[i].kind # "use"
      BY <1>1, <2>2 DEF UrlPart
    <2> QED BY <2>1, <2>2
  <1>3. /\ DOMAIN parts = 1..Len(target)
        /\ \A i \in 1..Len(target) : parts[i] \in Seq(UrlPart)
    <2>1. ASSUME NEW i \in 1..Len(target) PROVE parts[i] \in Seq(UrlPart)
      <3>1. CASE target[i].kind = "use"
        <4>1. parts[i] \in Seq(Filling) /\ Filling \subseteq UrlPart
          BY <1>1, <1>2, <3>1 DEF UrlPart
        <4> QED BY <4>1, SeqMonotonic
      <3>2. CASE target[i].kind # "use"
        <4>1. parts[i] = <<target[i]>> /\ target[i] \in UrlPart
          BY <1>1, <1>2, <3>2
        <4>2. <<target[i]>> \in Seq(UrlPart)
          BY <4>1
        <4> HIDE DEF parts
        <4> QED BY <4>1, <4>2
      <3> QED BY <3>1, <3>2
    <2> QED BY <1>1, <2>1
  <1>4. parts \in Seq(Seq(UrlPart)) /\ Len(parts) = Len(target)
    BY <1>1, <1>3
  <1> HIDE DEF parts
  <1>5. url \in Seq(UrlPart)
    BY <1>4, FlattenType
  <1>6. ASSUME NEW i \in 1..Len(url), url[i].kind = "encoded"
        PROVE  /\ url[i].text \notin Dots
               /\ Uses(target) # {}
    <2>1. PICK k \in 1..Len(parts) : \E j \in 1..Len(parts[k]) : url[i] = parts[k][j]
      BY <1>4, FlattenElements
    <2>2. PICK j \in 1..Len(parts[k]) : url[i] = parts[k][j]
      BY <2>1
    <2>3. CASE target[k].kind = "use"
      <3>1. parts[k] \in Seq(Filling)
        BY <1>1, <1>2, <1>4, <2>3
      <3>2. url[i] \in Filling
        BY <2>2, <3>1
      <3>3. url[i].text \notin Dots
        BY <1>6, <3>2 DEF Filling, Encoded, Part
      <3>4. k \in Uses(target)
        BY <1>1, <1>4, <2>3 DEF Uses
      <3> QED BY <3>3, <3>4
    <2>4. CASE target[k].kind # "use"
      <3>1. parts[k] = <<target[k]>> /\ target[k] \in TargetPart
        BY <1>1, <1>2, <1>4, <2>4
      <3>2. j = 1 /\ url[i] = target[k]
        BY <2>2, <3>1
      <3> QED BY <1>6, <3>1, <3>2 DEF TargetPart, Part, Use
    <2> QED BY <2>3, <2>4
  <1>7. DotSegments(url) = {}
    <2>1. DOMAIN url = 1..Len(url)
      BY <1>5
    <2> HIDE DEF url
    <2> QED BY <1>6, <2>1 DEF DotSegments
  <1>8. ASSUME NEW part \in Host(url), part.kind = "encoded" PROVE FALSE
    <2>1. PICK k \in 2..Len(url) : part = url[k] /\ \A j \in 2..k : url[j].kind # "end"
      BY <1>8 DEF Host
    <2>2. Len(url) \in Nat /\ k \in 1..Len(url)
      BY <1>5
    <2>3. Uses(target) # {}
      BY <1>6, <1>8, <2>1, <2>2
    <2>4. PICK last \in HeadOf(target) : target[last].kind = "end"
      BY <2>3 DEF CheckRule, CheckHead, target
    <2>5. last \in 1..Len(target) /\ \A j \in Uses(target) : last < j
      BY <1>1 DEF HeadOf
    <2>6. ASSUME NEW i \in 1..last PROVE i \in 1..Len(target) /\ parts[i] = <<target[i]>>
      <3>1. i \in 1..Len(target) /\ i \notin Uses(target)
        BY <1>1, <2>5
      <3> QED BY <1>1, <1>2, <3>1 DEF Uses
    <2>7. last \in Nat /\ last <= Len(parts) /\ \A i \in 1..last : Len(parts[i]) = 1
      <3>1. last \in Nat /\ last <= Len(parts)
        BY <1>1, <1>4, <2>5
      <3>2. ASSUME NEW i \in 1..last PROVE Len(parts[i]) = 1
        <4>1. parts[i] = <<target[i]>>
          BY <2>6
        <4>2. Len(<<target[i]>>) = 1
          OBVIOUS
        <4> QED BY <4>1, <4>2
      <3> QED BY <3>1, <3>2
    <2>8. \A i \in 1..last : url[i] = parts[i][1]
      BY <1>4, <2>7, FlattenSingles
    <2>9. \A i \in 1..last : url[i] = target[i] /\ i \in 1..Len(target)
      BY <2>6, <2>8
    <2>10. last # 1
      <3>1. target[1].kind = "scheme"
        BY DEF CheckRule, CheckHead, target
      <3> QED BY <2>4, <3>1
    <2>11. CASE last <= k
      <3>1. last \in 2..k /\ last \in 1..last
        BY <2>5, <2>10, <2>11
      <3> QED BY <2>1, <2>4, <2>9, <3>1
    <2>12. CASE k < last
      <3>1. k \in 1..last
        BY <2>1, <2>2, <2>5, <2>12
      <3>2. url[k] = target[k] /\ target[k] \in TargetPart
        BY <1>1, <2>9, <3>1
      <3> QED BY <1>8, <2>1, <3>2 DEF TargetPart, Part, Use
    <2> QED BY <2>5, <2>11, <2>12
  <1>9. Rewrite(rule, path) = url
    BY DEF Rewrite, parts, target
  <1> QED BY <1>5, <1>7, <1>8, <1>9

-----------------------------------------------------------------------------
(* The log. *)

LEMMA NewestIs ==
    ASSUME NEW places, places \subseteq Nat, places # {}
    PROVE  Newest(places) \in places /\ \A j \in places : Newest(places) <= j
  <1>1. \E i \in places : \A j \in places : i <= j
    BY Least
  <1> QED BY <1>1 DEF Newest

LEMMA OnlyNewest ==
    ASSUME NEW places, places \subseteq Nat, NEW k \in places, \A j \in places : k <= j
    PROVE  Newest(places) = k
  <1>1. Newest(places) \in places /\ \A j \in places : Newest(places) <= j
    BY NewestIs
  <1>2. Newest(places) \in Nat /\ k \in Nat /\ Newest(places) <= k /\ k <= Newest(places)
    BY <1>1
  <1> QED BY <1>2

\* A commit is added in front of the others, which move one place.
Lands(entries, commit, later) ==
    /\ DOMAIN later = 1..(Len(entries) + 1) /\ Len(later) = Len(entries) + 1
    /\ later[1] = commit
    /\ \A i \in 1..Len(entries) : later[i + 1] = entries[i]

LEMMA CommitLands ==
    ASSUME NEW X, NEW entries \in Seq(X), NEW commit \in X,
           NEW later, later = <<commit>> \o entries
    PROVE  later \in Seq(X) /\ Lands(entries, commit, later)
  <1>1. <<commit>> \in Seq(X) /\ Len(<<commit>>) = 1 /\ <<commit>>[1] = commit
    OBVIOUS
  <1>2. Adds(<<commit>>, entries, later)
    BY <1>1, ConcatAdds
  <1>3. later \in Seq(X)
    BY <1>1, ConcatProperties
  <1>4. Len(entries) \in Nat /\ Len(later) = Len(entries) + 1
    BY <1>1, <1>2 DEF Adds
  <1>5. ASSUME NEW i \in 1..Len(entries) PROVE later[i + 1] = entries[i]
    <2>1. i + 1 \in 1..Len(later) /\ i + 1 > 1 /\ (i + 1) - 1 = i
      BY <1>4
    <2>2. later[i + 1] = entries[(i + 1) - 1]
      BY <1>1, <1>2, <2>1 DEF Adds
    <2> QED BY <2>1, <2>2
  <1>6. later[1] = commit
    BY <1>1, <1>2 DEF Adds
  <1>7. DOMAIN later = 1..(Len(entries) + 1)
    BY <1>3, <1>4
  <1> QED BY <1>3, <1>4, <1>5, <1>6, <1>7 DEF Lands

Old(entries, file, moment) ==
    {i \in DOMAIN entries : entries[i].file = file /\ NotAfter(entries[i].when, moment)}
Stood(entries, file, moment) ==
    IF Old(entries, file, moment) = {} THEN Gone
    ELSE entries[Newest(Old(entries, file, moment))].content

\* A commit dated after a moment changes nothing of what a file held at that moment.
LEMMA StoodStays ==
    ASSUME NEW X, NEW entries \in Seq(X), NEW commit, NEW later,
           Lands(entries, commit, later),
           NEW file, NEW moment, ~NotAfter(commit.when, moment)
    PROVE  Stood(later, file, moment) = Stood(entries, file, moment)
  <1> DEFINE before == Old(entries, file, moment)
             after == Old(later, file, moment)
  <1>1. Len(entries) \in Nat /\ DOMAIN entries = 1..Len(entries)
    OBVIOUS
  <1>2. before \subseteq 1..Len(entries) /\ after \subseteq 2..(Len(entries) + 1)
    <2>1. 1 \notin after
      BY DEF Lands, Old
    <2>2. after \subseteq 1..(Len(entries) + 1)
      BY DEF Lands, Old
    <2>3. before \subseteq 1..Len(entries)
      BY <1>1 DEF Old
    <2> HIDE DEF before, after
    <2> QED BY <1>1, <2>1, <2>2, <2>3
  <1>3. \A i \in 1..Len(entries) : i + 1 \in after <=> i \in before
    <2> SUFFICES ASSUME NEW i \in 1..Len(entries) PROVE i + 1 \in after <=> i \in before
      OBVIOUS
    <2>1. i + 1 \in 1..(Len(entries) + 1) /\ later[i + 1] = entries[i]
      BY <1>1 DEF Lands
    <2> QED BY <1>1, <2>1 DEF Lands, Old
  <1> HIDE DEF before, after
  <1>4. CASE before = {}
    <2>1. ASSUME NEW i \in after PROVE FALSE
      <3>1. i - 1 \in 1..Len(entries) /\ (i - 1) + 1 = i
        BY <1>1, <1>2
      <3> QED BY <1>3, <1>4, <3>1
    <2> QED BY <1>4, <2>1 DEF Stood, before, after
  <1>5. CASE before # {}
    <2>1. before \subseteq Nat
      BY <1>1, <1>2
    <2>2. Newest(before) \in before /\ \A j \in before : Newest(before) <= j
      BY <1>5, <2>1, NewestIs
    <2> DEFINE k == Newest(before)
    <2>3. k \in 1..Len(entries)
      BY <1>2, <2>2
    <2> HIDE DEF k
    <2>4. k + 1 \in after
      BY <1>3, <2>2, <2>3 DEF k
    <2>5. ASSUME NEW i \in after PROVE k + 1 <= i
      <3>1. i - 1 \in 1..Len(entries) /\ (i - 1) + 1 = i
        BY <1>1, <1>2
      <3>2. k <= i - 1
        BY <1>3, <2>2, <3>1 DEF k
      <3> QED BY <1>1, <2>3, <3>1, <3>2
    <2>6. after \subseteq Nat
      BY <1>1, <1>2
    <2>7. Newest(after) = k + 1
      BY <2>4, <2>5, <2>6, OnlyNewest
    <2>8. later[k + 1] = entries[k]
      BY <2>3 DEF Lands
    <2> QED BY <1>5, <2>4, <2>7, <2>8 DEF Stood, before, after, k
  <1> QED BY <1>4, <1>5

\* The places of the commits of a file, and how many they are.
Of(entries, file) == {i \in DOMAIN entries : entries[i].file = file}
First(entries, file, limit) ==
    {i \in Of(entries, file) : Cardinality({j \in Of(entries, file) : j < i}) < limit}

LEMMA OfIsFinite ==
    ASSUME NEW X, NEW entries \in Seq(X), NEW file
    PROVE  /\ Of(entries, file) \subseteq Nat
           /\ \A part \in SUBSET Of(entries, file) :
                 /\ IsFiniteSet(part) /\ Cardinality(part) \in Nat
                 /\ \A less \in SUBSET part : Cardinality(less) <= Cardinality(part)
  <1>1. Len(entries) \in Nat /\ DOMAIN entries = 1..Len(entries)
    OBVIOUS
  <1>2. IsFiniteSet(1..Len(entries))
    BY <1>1, FS_Interval
  <1>3. Of(entries, file) \subseteq 1..Len(entries)
    BY <1>1 DEF Of
  <1>4. ASSUME NEW part \in SUBSET Of(entries, file)
        PROVE  IsFiniteSet(part) /\ Cardinality(part) \in Nat
    <2>1. part \in SUBSET (1..Len(entries))
      BY <1>3
    <2>2. IsFiniteSet(part)
      BY <1>2, <2>1, FS_Subset
    <2> QED BY <2>2, FS_CardinalityType
  <1>5. ASSUME NEW part \in SUBSET Of(entries, file), NEW less \in SUBSET part
        PROVE  Cardinality(less) <= Cardinality(part)
    BY <1>4, FS_Subset
  <1> QED BY <1>1, <1>3, <1>4, <1>5

\* A file that a commit touches is touched by no fewer commits.
LEMMA OfGrows ==
    ASSUME NEW X, NEW entries \in Seq(X), NEW later \in Seq(X), NEW commit,
           Lands(entries, commit, later), NEW file
    PROVE  Cardinality(Of(entries, file)) <= Cardinality(Of(later, file))
  <1> DEFINE before == Of(entries, file)
             after == Of(later, file)
             f == [i \in before |-> i + 1]
  <1>1. before \subseteq 1..Len(entries) /\ Len(entries) \in Nat
    BY DEF Of
  <1>2. ASSUME NEW i \in before PROVE i + 1 \in after
    <2>1. i \in 1..Len(entries) /\ entries[i].file = file
      BY <1>1 DEF Of
    <2>2. i + 1 \in 1..(Len(entries) + 1) /\ later[i + 1] = entries[i]
      BY <1>1, <2>1 DEF Lands
    <2> QED BY <2>1, <2>2 DEF Of, Lands
  <1>3. IsFiniteSet(after)
    BY OfIsFinite
  <1> HIDE DEF before, after
  <1>4. f \in Injection(before, after)
    <2>1. f \in [before -> after]
      BY <1>2
    <2>2. \A a, b \in before : f[a] = f[b] => a = b
      BY <1>1
    <2> QED BY <2>1, <2>2 DEF Injection, IsInjective
  <1>5. Cardinality(before) <= Cardinality(after)
    <2> HIDE DEF f
    <2> QED BY <1>3, <1>4, FS_Injection
  <1> QED BY <1>5 DEF before, after

\* What is cut off comes after as many as the limit, and a log that is not cut is whole.
LEMMA CutIsLast ==
    ASSUME NEW X, NEW entries \in Seq(X), NEW file, NEW limit \in Nat \ {0}
    PROVE  /\ \A i \in First(entries, file, limit), j \in Of(entries, file) :
                 j <= i => j \in First(entries, file, limit)
           /\ Cardinality(First(entries, file, limit)) < limit =>
                 First(entries, file, limit) = Of(entries, file)
           /\ Cardinality(First(entries, file, limit)) <= Cardinality(Of(entries, file))
  <1> DEFINE all == Of(entries, file)
             some == First(entries, file, limit)
             before(i) == {j \in all : j < i}
  <1>1. /\ all \subseteq Nat
        /\ \A part \in SUBSET all :
              /\ IsFiniteSet(part) /\ Cardinality(part) \in Nat
              /\ \A less \in SUBSET part : Cardinality(less) <= Cardinality(part)
    BY OfIsFinite
  <1>2. some = {i \in all : Cardinality(before(i)) < limit}
    BY DEF First
  <1> HIDE DEF all, some
  <1>3. ASSUME NEW i \in some, NEW j \in all, j <= i PROVE j \in some
    <2>1. i \in all /\ Cardinality(before(i)) < limit
      BY <1>2
    <2>2. before(j) \in SUBSET before(i) /\ before(i) \in SUBSET all /\ before(j) \in SUBSET all
      <3>1. \A k \in all : k < j => k < i
        BY <1>1, <1>3, <2>1
      <3> QED BY <3>1
    <2>3. /\ Cardinality(before(j)) <= Cardinality(before(i))
          /\ Cardinality(before(j)) \in Nat /\ Cardinality(before(i)) \in Nat
      <3> HIDE DEF before
      <3> QED BY <1>1, <2>2
    <2>4. Cardinality(before(j)) < limit
      <3> HIDE DEF before
      <3> QED BY <2>1, <2>3
    <2> QED BY <1>2, <2>4
  <1>4. ASSUME Cardinality(some) < limit PROVE some = all
    <2> SUFFICES ASSUME all \ some # {} PROVE FALSE
      BY <1>2
    <2>1. PICK i \in all \ some : \A j \in all \ some : i <= j
      <3>1. all \ some \subseteq Nat
        BY <1>1
      <3> QED BY <3>1, Least
    <2>2. before(i) \in SUBSET some /\ some \in SUBSET all
      <3>1. \A k \in all : k < i => k \in some
        BY <1>1, <2>1
      <3>2. some \in SUBSET all
        BY <1>2
      <3> QED BY <3>1, <3>2
    <2>3. Cardinality(before(i)) <= Cardinality(some) /\ Cardinality(some) \in Nat
      <3>1. before(i) \in SUBSET all
        BY <2>2
      <3> HIDE DEF before
      <3> QED BY <1>1, <2>2, <3>1
    <2>4. ~(Cardinality(before(i)) < limit)
      BY <1>2, <2>1
    <2>5. Cardinality(before(i)) \in Nat
      <3>1. before(i) \in SUBSET all
        BY <2>2
      <3> HIDE DEF before
      <3> QED BY <1>1, <3>1
    <2> HIDE DEF before
    <2> QED BY <1>4, <2>3, <2>4, <2>5
  <1>5. Cardinality(some) <= Cardinality(all)
    BY <1>1, <1>2
  <1> QED BY <1>3, <1>4, <1>5 DEF some, all

\* The commit that is picked by the dates as they are read is the one by the true times.
LEMMA PickedIsRight ==
    ASSUME NEW X, NEW entries \in Seq(X), NEW file, NEW moment, NEW at, NEW limit \in Nat \ {0},
           \A i \in DOMAIN entries :
               NotAfter(Read(entries[i].date), at) <=> NotAfter(entries[i].when, moment),
           NEW old, old = {i \in First(entries, file, limit) : NotAfter(Read(entries[i].date), at)}
    PROVE  /\ old # {} => /\ Newest(old) \in Of(entries, file)
                          /\ entries[Newest(old)].content = Stood(entries, file, moment)
           /\ old = {} /\ Cardinality(First(entries, file, limit)) < limit =>
                 Stood(entries, file, moment) = Gone
  <1> DEFINE all == Old(entries, file, moment)
             first == First(entries, file, limit)
  <1>1. Of(entries, file) \subseteq Nat
    BY OfIsFinite
  <1>2. /\ \A i \in first, j \in Of(entries, file) : j <= i => j \in first
        /\ Cardinality(first) < limit => first = Of(entries, file)
    BY CutIsLast
  <1>3. all \subseteq Of(entries, file) /\ first \subseteq Of(entries, file)
    BY DEF Old, Of, First
  <1>4. \A i \in first : i \in old <=> i \in all
    BY <1>3 DEF Old, Of
  <1>5. old \subseteq first
    OBVIOUS
  <1> HIDE DEF all, first
  <1>6. ASSUME old # {}
        PROVE  /\ Newest(old) \in Of(entries, file)
               /\ entries[Newest(old)].content = Stood(entries, file, moment)
    <2>1. old \subseteq Nat /\ all \subseteq Nat
      BY <1>1, <1>3, <1>5
    <2>2. PICK k \in old : k = Newest(old) /\ \A j \in old : k <= j
      BY <1>6, <2>1, NewestIs
    <2>3. k \in all
      BY <1>4, <1>5, <2>2
    <2>4. ASSUME NEW j \in all PROVE k <= j
      <3>1. j \in Nat /\ k \in Nat
        BY <2>1, <2>2
      <3>2. CASE j <= k
        <4>1. j \in first
          BY <1>2, <1>3, <1>5, <2>2, <3>2
        <4> QED BY <1>4, <2>2, <4>1
      <3> QED BY <3>1, <3>2
    <2>5. Newest(all) = k
      BY <2>1, <2>3, <2>4, OnlyNewest
    <2> QED BY <1>3, <2>2, <2>3, <2>5 DEF Stood, all
  <1>7. ASSUME old = {}, Cardinality(first) < limit PROVE Stood(entries, file, moment) = Gone
    <2>1. all = {}
      BY <1>2, <1>3, <1>4, <1>7
    <2> QED BY <2>1 DEF Stood, all
  <1> QED BY <1>6, <1>7 DEF first

-----------------------------------------------------------------------------
(* The inductive invariant. *)

AnyContent == Contents("registry") \cup Contents("vocabulary")
DateText == [form : {"instant"}, date : Date, second : Int, offset : Int]
Entry == [file : Files, content : AnyContent, when : Moments, date : DateText]

Pcs == {"load", "log", "show", "source", "answered"}
Kinds == {"none", "refused", "error", "not found", "redirect", "hosted", "retired", "text",
          "absent", "unreadable"}
AnyAnswer == [kind : Kinds, url : Seq(UrlPart), text : AnyContent]
Asked ==
    [pc : Pcs, question : Questions, at : [day : Int, second : 0..(DaySeconds - 1)],
     file : Files, commit : [file : Files, content : AnyContent],
     answer : AnyAnswer, commits : Nat]

StaysPut(url) ==
    /\ \A part \in Host(url) : part.kind # "encoded"
    /\ DotSegments(url) = {}

\* What is answered about the past when both files are read at once from a log.
Right(entries, question) ==
    LET registry == Stood(entries, "registry", Meant(question))
        vocabulary == Stood(entries, "vocabulary", Meant(question))
        answer == Resolved(registry, question.path)
    IN  IF registry = Gone THEN Answer("absent")
        ELSE IF answer.kind # "hosted" \/ question.face = "resolve" THEN answer
        ELSE IF vocabulary = Gone THEN Answer("absent")
        ELSE [Answer("text") EXCEPT !.text = vocabulary]

Quiet(entries, request) ==
    \A i \in 1..(Len(entries) - request.commits) :
        ~NotAfter(entries[i].when, Meant(request.question))

\* The registry has been read, and sent the request on to the document.
Passed(entries, request) ==
    LET registry == Stood(entries, "registry", Meant(request.question))
    IN  /\ registry # Gone
        /\ Resolved(registry, request.question.path).kind = "hosted"
        /\ request.question.face = "document"

\* What a request about the past has read is what the files held then.
Exact(entries, request) ==
    request.question.form # "none" /\ Quiet(entries, request) =>
        /\ request.pc \in {"log", "show"} /\ request.file = "vocabulary" => Passed(entries, request)
        /\ request.pc = "show" =>
              request.commit.content = Stood(entries, request.file, Meant(request.question))
        /\ request.pc = "answered" =>
              \/ request.answer = Right(entries, request.question)
              \/ request.answer.kind = "refused"
              \/ /\ request.answer.kind = "unreadable"
                 /\ Cardinality(Of(entries, request.file)) >= LogLimit
              \/ request.answer.kind = "error" /\ request.question.face = "document"

\* A request is at a step its question takes it to.
OnItsWay(request) ==
    /\ request.answer.kind = "none" <=> request.pc # "answered"
    /\ request.commit.content \in Contents(request.file)
    /\ request.pc \in {"log", "show"} => request.question.form # "none"
    /\ request.pc = "source" => request.question.form = "none"
    /\ request.pc = "load" /\ request.question.form # "none" => request.question.face = "document"
    /\ request.pc = "load" => request.file = "registry"
    /\ request.answer.kind = "redirect" => StaysPut(request.answer.url)

\* The date after the one a question names, and whether it is in the same month.
RunsOn(question) ==
    [Civil(Epoch + question.day) EXCEPT !.day = @ + 1] = Civil(Epoch + question.day + 1)

\* The moment a request has read is the one that is meant.
ReadWell(request) ==
    /\ request.question.form # "none" /\ request.answer.kind # "refused" =>
          /\ request.at = Numbered(Meant(request.question))
          /\ Read(FormatUtc(request.at)) = request.at
    /\ request.question.form = "stretched" =>
          (request.answer.kind = "refused" <=> ~RunsOn(request.question))

LogSound ==
    /\ log \in Seq(Entry)
    /\ Len(log) <= Len(FirstCommits) + MaxCommits
    /\ \A i \in DOMAIN log :
          /\ log[i].content \in Contents(log[i].file)
          /\ IsText(log[i].date)
          /\ Read(log[i].date) = Numbered(log[i].when)

AskedSound ==
    asked.pc # "idle" =>
        /\ asked \in Asked
        /\ asked.commits <= Len(log)
        /\ OnItsWay(asked)
        /\ ReadWell(asked)
        /\ Exact(log, asked)

IInv == start \in Starts /\ clock \in Moments /\ LogSound /\ AskedSound

-----------------------------------------------------------------------------
(* The invariants that follow. *)

LEMMA AsItStoodIs ==
    ASSUME NEW file, NEW moment
    PROVE  AsItStood(file, moment) = Stood(log, file, moment)
  BY DEF AsItStood, Stood, Old

LEMMA ExpectedIs ==
    ASSUME NEW question
    PROVE  Expected(question) = Right(log, question)
  BY AsItStoodIs DEF Expected, Right

LEMMA InvTypeOK == ASSUME IInv PROVE TypeOK
  <1>1. ASSUME NEW i \in DOMAIN log PROVE log[i] \in Entry
    BY DEF IInv, LogSound
  <1>2. /\ \A i \in DOMAIN log :
              /\ log[i].file \in Files
              /\ log[i].content \in Contents(log[i].file)
              /\ log[i].when \in Moments
              /\ IsText(log[i].date)
    BY <1>1 DEF IInv, LogSound, Entry
  <1>3. ASSUME asked.pc # "idle"
        PROVE  /\ asked.pc \in Pcs
               /\ asked.question \in Questions
               /\ asked.at.second \in 0..(DaySeconds - 1)
               /\ asked.commit.content \in Contents(asked.file)
               /\ asked.answer.kind = "none" <=> asked.pc # "answered"
    BY <1>3 DEF IInv, AskedSound, OnItsWay, Asked
  <1>4. asked.pc \in {"idle", "load", "log", "show", "source", "answered"}
    BY <1>3 DEF Pcs
  <1> QED BY <1>2, <1>3, <1>4 DEF TypeOK, IInv, LogSound

LEMMA InvPastIsExact == ASSUME IInv PROVE PastIsExact
  <1> SUFFICES ASSUME asked.pc = "answered", asked.question.form # "none", Undisturbed
               PROVE  \/ asked.answer = Expected(asked.question)
                      \/ asked.answer.kind = "refused"
                      \/ asked.answer.kind = "unreadable" /\ Cardinality(Touching(asked.file)) >= LogLimit
                      \/ asked.answer.kind = "error" /\ asked.question.face = "document"
    BY DEF PastIsExact
  <1>1. Exact(log, asked)
    BY DEF IInv, AskedSound
  <1>2. Quiet(log, asked)
    BY DEF Quiet, Undisturbed
  <1>3. Touching(asked.file) = Of(log, asked.file)
    BY DEF Touching, Of
  <1> QED BY <1>1, <1>2, <1>3, ExpectedIs DEF Exact

LEMMA RunsOnIs ==
    ASSUME start \in Starts, NEW question \in Question, question.form = "stretched"
    PROVE  RunsOn(question) <=> AsOf(question).date = Calendar[question.day + 1]
  <1>1. question.day \in 0..LastDay /\ LastDay \in Nat /\ Epoch \in Int
    BY EpochInt, ResolutionAssumption DEF Question
  <1>2. question.day \in -1..(LastDay + 1) /\ question.day + 1 \in -1..(LastDay + 1)
    BY <1>1
  <1>3. Civil(Epoch + question.day) = Calendar[question.day]
    BY <1>2, Days
  <1>4. Civil(Epoch + (question.day + 1)) = Calendar[question.day + 1]
    BY <1>2, Days
  <1>5. Epoch + (question.day + 1) = Epoch + question.day + 1
    BY <1>1
  <1>6. AsOf(question).date = [Calendar[question.day] EXCEPT !.day = @ + 1]
    BY DEF AsOf
  <1> QED BY <1>3, <1>4, <1>5, <1>6 DEF RunsOn

LEMMA InvOnlyFalseDatesRefused == ASSUME IInv PROVE OnlyFalseDatesRefused
  <1> SUFFICES ASSUME asked.pc = "answered", asked.question.form = "stretched"
               PROVE  asked.answer.kind = "refused"
                          <=> AsOf(asked.question).date # Calendar[asked.question.day + 1]
    BY DEF OnlyFalseDatesRefused
  <1>1. asked.question \in Question /\ start \in Starts /\ LastDay \in Nat
    BY ResolutionAssumption DEF IInv, AskedSound, Asked
  <1>2. asked.answer.kind = "refused" <=> ~RunsOn(asked.question)
    BY DEF IInv, AskedSound, ReadWell
  <1>3. RunsOn(asked.question) <=> AsOf(asked.question).date = Calendar[asked.question.day + 1]
    BY <1>1, RunsOnIs
  <1> QED BY <1>2, <1>3

LEMMA InvCapturesStayPut == ASSUME IInv PROVE CapturesStayPut
  BY DEF IInv, AskedSound, OnItsWay, StaysPut, CapturesStayPut

\* For every year: the invariant of the run says it of some.
LEMMA DaysCount == DaysAreCounted
  <1>1. EpochDays([year |-> 1970, month |-> 1, day |-> 1]) = 0
    BY SMT DEF EpochDays
  <1>2. ASSUME NEW year \in Years, NEW month \in 1..12, NEW day \in 1..Longest(year, month)
        PROVE  LET date == [year |-> year, month |-> month, day |-> day]
               IN  /\ EpochDays(Tomorrow(date)) = EpochDays(date) + 1
                   /\ Civil(EpochDays(date)) = date
    <2> DEFINE date == [year |-> year, month |-> month, day |-> day]
    <2>1. year \in Int
      BY ResolutionAssumption
    <2>2. Longest(year, month) \in Int /\ Longest(year, month) <= 31
      BY DEF Longest
    <2>3. date \in Date
      BY <2>1, <2>2 DEF Date
    <2> HIDE DEF date
    <2>4. EpochDays(Tomorrow(date)) = EpochDays(date) + 1 /\ Civil(EpochDays(date)) = date
      BY <2>3, NextDay, DateFound
    <2> QED BY <2>4 DEF date
  <1> QED BY <1>1, <1>2 DEF DaysAreCounted

-----------------------------------------------------------------------------
(* The steps. *)

LEMMA NumberedInOrder ==
    ASSUME start \in Starts, NEW a, NEW b, a.day \in Int, b.day \in Int
    PROVE  NotAfter(Numbered(a), Numbered(b)) <=> NotAfter(a, b)
  <1>1. Epoch \in Int
    BY EpochInt
  <1>2. /\ Epoch + a.day < Epoch + b.day <=> a.day < b.day
        /\ Epoch + a.day = Epoch + b.day <=> a.day = b.day
    <2>1. \A e, x, y \in Int : (e + x < e + y <=> x < y) /\ (e + x = e + y <=> x = y)
      OBVIOUS
    <2> HIDE DEF Epoch
    <2> QED BY <1>1, <2>1
  <1> QED BY <1>2 DEF NotAfter, Numbered

LEMMA MomentsAre ==
    ASSUME NEW moment \in Moments
    PROVE  /\ moment.day \in 0..LastDay /\ moment.second \in 0..(DaySeconds - 1)
           /\ moment = [day |-> moment.day, second |-> moment.second]
  <1>1. moment.day \in 1..LastDay /\ moment.second \in Seconds
    BY DEF Moments
  <1>2. LastDay \in Nat
    BY ResolutionAssumption
  <1>3. moment.day \in 0..LastDay
    BY <1>1, <1>2
  <1>4. moment = [day |-> moment.day, second |-> moment.second]
    BY DEF Moments
  <1> QED BY <1>1, <1>3, <1>4, ResolutionAssumption

LEMMA MadeIsEntry ==
    ASSUME start \in Starts, NEW file \in Files, NEW content \in Contents(file),
           NEW authored \in Moments, NEW offset \in -MaxOffset..MaxOffset
    PROVE  LET made == Made(file, content, authored, offset)
           IN  /\ made \in Entry
               /\ made.file = file /\ made.content = content /\ made.when = authored
               /\ IsText(made.date) /\ Read(made.date) = Numbered(made.when)
  <1> DEFINE text == Written(authored, offset)
  <1>1. /\ authored.day \in 0..LastDay /\ authored.second \in 0..(DaySeconds - 1)
        /\ authored = [day |-> authored.day, second |-> authored.second]
    BY MomentsAre
  <1>2. IsText(text) /\ Read(text) = Numbered(authored)
    BY <1>1, WrittenIsRead
  <1> DEFINE local == Moment(authored.day, authored.second + offset)
  <1>3. /\ local.day \in Int /\ authored.day - 1 <= local.day /\ local.day <= authored.day + 1
        /\ local.second \in 0..(DaySeconds - 1)
        /\ Moment(Epoch + local.day, local.second - offset)
               = [day |-> Epoch + authored.day, second |-> authored.second]
    <2>1. authored.day \in Int /\ Epoch \in Int
      BY <1>1, EpochInt
    <2> HIDE DEF Epoch
    <2> QED BY <1>1, <2>1, Shifted
  <1>4. text = [form |-> "instant", date |-> Calendar[local.day], second |-> local.second,
                offset |-> offset]
    BY DEF Written
  <1> HIDE DEF local, text
  <1>5. local.day \in -1..(LastDay + 1)
    BY <1>1, <1>3, ResolutionAssumption
  <1>6. text \in DateText
    <2>1. Calendar[local.day] \in Date
      BY <1>5, Days
    <2> QED BY <1>3, <1>4, <2>1 DEF DateText
  <1>7. content \in AnyContent
    BY DEF AnyContent, Files
  <1> QED BY <1>2, <1>6, <1>7 DEF Made, Entry, text

LEMMA FirstMomentIs == FirstMoment \in Moments
  <1>1. PICK second \in Seconds : TRUE
    BY ResolutionAssumption
  <1>2. Seconds \subseteq Nat /\ LastDay \in Nat \ {0}
    BY ResolutionAssumption, Constants
  <1>3. PICK least \in Seconds : \A other \in Seconds : least <= other
    BY <1>1, <1>2, Least
  <1> DEFINE first == [day |-> 1, second |-> least]
  <1>4. first \in Moments
    BY <1>2, <1>3 DEF Moments
  <1>5. ASSUME NEW moment \in Moments PROVE NotAfter(first, moment)
    <2>1. moment.day \in Int /\ 1 <= moment.day /\ moment.second \in Seconds
      BY <1>2 DEF Moments
    <2>2. least <= moment.second /\ first.day = 1 /\ first.second = least
      BY <1>3, <2>1
    <2> HIDE DEF first
    <2>3. 1 < moment.day \/ 1 = moment.day
      BY <2>1
    <2> QED BY <2>2, <2>3 DEF NotAfter
  <1> QED BY <1>4, <1>5 DEF FirstMoment

LEMMA InitSound == ASSUME Init PROVE IInv
  <1> USE DEF Init
  <1>1. start \in Starts /\ clock \in Moments /\ FirstMoment \in Moments
    BY FirstMomentIs
  <1>2. AskedSound
    BY DEF AskedSound
  <1>3. /\ FirstCommits \in Seq([file : Files, content : UNION {Contents(file) : file \in Files}])
        /\ Len(FirstCommits) \in Nat /\ DOMAIN FirstCommits = 1..Len(FirstCommits)
        /\ MaxCommits \in Nat
    BY ResolutionAssumption
  <1>4. ASSUME NEW i \in 1..Len(FirstCommits)
        PROVE  /\ log[i] = Made(FirstCommits[i].file, FirstCommits[i].content, FirstMoment, 0)
               /\ log[i] \in Entry
               /\ log[i].content \in Contents(log[i].file)
               /\ IsText(log[i].date) /\ Read(log[i].date) = Numbered(log[i].when)
    <2>1. FirstCommits[i].file \in Files
      <3> DEFINE Anything == UNION {Contents(file) : file \in Files}
      <3>1. FirstCommits \in Seq([file : Files, content : Anything])
        BY <1>3
      <3> HIDE DEF Anything
      <3>2. FirstCommits[i] \in [file : Files, content : Anything]
        BY <3>1, ElementOfSeq
      <3> QED BY <3>2
    <2>2. FirstCommits[i].content \in Contents(FirstCommits[i].file)
      BY <1>3, ResolutionAssumption
    <2>3. 0 \in -MaxOffset..MaxOffset
      BY Constants
    <2>4. log[i] = Made(FirstCommits[i].file, FirstCommits[i].content, FirstMoment, 0)
      BY <1>3 DEF FirstLog
    <2> QED BY <1>1, <2>1, <2>2, <2>3, <2>4, MadeIsEntry
  <1>5. log \in Seq(Entry) /\ Len(log) = Len(FirstCommits) /\ DOMAIN log = 1..Len(FirstCommits)
    <2>1. log = [i \in 1..Len(FirstCommits) |->
                   Made(FirstCommits[i].file, FirstCommits[i].content, FirstMoment, 0)]
      BY <1>3 DEF FirstLog
    <2>2. log \in [1..Len(FirstCommits) -> Entry]
      BY <1>4, <2>1
    <2> QED BY <1>3, <2>2
  <1>6. LogSound
    BY <1>3, <1>4, <1>5 DEF LogSound
  <1> QED BY <1>1, <1>2, <1>6 DEF IInv

\* What is exact of a request stays so when a commit lands, unless it is dated before.
LEMMA ExactStays ==
    ASSUME NEW X, NEW entries \in Seq(X), NEW later \in Seq(X), NEW commit,
           Lands(entries, commit, later),
           NEW request, request.commits \in Nat, request.commits <= Len(entries),
           Exact(entries, request)
    PROVE  Exact(later, request)
  <1> SUFFICES ASSUME request.question.form # "none", Quiet(later, request)
               PROVE  /\ request.pc \in {"log", "show"} /\ request.file = "vocabulary" =>
                             Passed(later, request)
                      /\ request.pc = "show" =>
                            request.commit.content = Stood(later, request.file, Meant(request.question))
                      /\ request.pc = "answered" =>
                            \/ request.answer = Right(later, request.question)
                            \/ request.answer.kind = "refused"
                            \/ /\ request.answer.kind = "unreadable"
                               /\ Cardinality(Of(later, request.file)) >= LogLimit
                            \/ request.answer.kind = "error" /\ request.question.face = "document"
    BY DEF Exact
  <1> DEFINE moment == Meant(request.question)
  <1>1. Len(entries) \in Nat /\ Len(later) = Len(entries) + 1
    BY DEF Lands
  <1>2. ~NotAfter(commit.when, moment)
    <2>1. 1 \in 1..(Len(later) - request.commits) /\ later[1] = commit
      BY <1>1 DEF Lands
    <2> QED BY <2>1 DEF Quiet
  <1>3. Quiet(entries, request)
    <2>1. ASSUME NEW i \in 1..(Len(entries) - request.commits)
          PROVE  ~NotAfter(entries[i].when, moment)
      <3>1. i \in 1..Len(entries) /\ i + 1 \in 1..(Len(later) - request.commits)
        BY <1>1
      <3>2. later[i + 1] = entries[i]
        BY <3>1 DEF Lands
      <3> QED BY <3>1, <3>2 DEF Quiet
    <2> QED BY <2>1 DEF Quiet
  <1>4. \A file : Stood(later, file, moment) = Stood(entries, file, moment)
    BY <1>2, StoodStays
  <1>5. Passed(later, request) <=> Passed(entries, request)
    BY <1>4 DEF Passed
  <1>6. Right(later, request.question) = Right(entries, request.question)
    BY <1>4 DEF Right
  <1>7. Cardinality(Of(entries, request.file)) >= LogLimit =>
            Cardinality(Of(later, request.file)) >= LogLimit
    <2>1. Cardinality(Of(entries, request.file)) <= Cardinality(Of(later, request.file))
      BY OfGrows
    <2>2. Cardinality(Of(entries, request.file)) \in Nat /\ Cardinality(Of(later, request.file)) \in Nat
      BY OfIsFinite
    <2> QED BY <2>1, <2>2, ResolutionAssumption
  <1> QED BY <1>3, <1>4, <1>5, <1>6, <1>7 DEF Exact

LEMMA CommitSound ==
    ASSUME IInv, NEW file \in Files, NEW authored \in Moments, NEW offset \in Offsets,
           NEW content \in Contents(file), Commit(file, content, authored, offset)
    PROVE  IInv'
  <1> DEFINE made == Made(file, content, authored, offset)
  <1>1. start' = start /\ clock' = clock /\ asked' = asked /\ log' = <<made>> \o log
        /\ Len(log) < Len(FirstCommits) + MaxCommits
    BY DEF Commit
  <1>2. start \in Starts /\ clock \in Moments /\ log \in Seq(Entry)
    BY DEF IInv, LogSound
  <1>3. /\ made \in Entry
        /\ made.file = file /\ made.content = content
        /\ IsText(made.date) /\ Read(made.date) = Numbered(made.when)
    BY <1>2, ResolutionAssumption, MadeIsEntry
  <1> HIDE DEF made
  <1>4. log' \in Seq(Entry) /\ Lands(log, made, log')
    BY <1>1, <1>2, <1>3, CommitLands
  <1>5. LogSound'
    <2>1. Len(log) \in Nat /\ Len(log') = Len(log) + 1 /\ DOMAIN log' = 1..(Len(log) + 1)
      BY <1>2, <1>4 DEF Lands
    <2>2. Len(log') <= Len(FirstCommits) + MaxCommits
      <3>1. Len(FirstCommits) + MaxCommits \in Int
        BY ResolutionAssumption
      <3> QED BY <1>1, <2>1, <3>1
    <2>3. Epoch' = Epoch
      BY <1>1 DEF Epoch
    <2>4. ASSUME NEW i \in 1..(Len(log) + 1)
          PROVE  /\ log'[i].content \in Contents(log'[i].file)
                 /\ IsText(log'[i].date)
                 /\ Read(log'[i].date) = [day |-> Epoch + log'[i].when.day, second |-> log'[i].when.second]
      <3>1. CASE i = 1
        BY <1>3, <1>4, <3>1 DEF Lands, Numbered
      <3>2. CASE i # 1
        <4>1. i - 1 \in 1..Len(log) /\ (i - 1) + 1 = i
          BY <2>1, <3>2
        <4>2. log'[i] = log[i - 1]
          BY <1>4, <4>1 DEF Lands
        <4>3. i - 1 \in DOMAIN log
          BY <1>2, <4>1
        <4> QED BY <4>2, <4>3 DEF IInv, LogSound, Numbered
      <3> QED BY <3>1, <3>2
    <2> QED BY <1>4, <2>1, <2>2, <2>3, <2>4 DEF LogSound, Numbered
  <1>6. AskedSound'
    <2> SUFFICES ASSUME asked.pc # "idle"
                 PROVE  /\ asked' \in Asked
                        /\ asked'.commits <= Len(log')
                        /\ OnItsWay(asked')
                        /\ ReadWell(asked)'
                        /\ Exact(log', asked')
      BY <1>1 DEF AskedSound
    <2>1. /\ asked \in Asked /\ asked.commits <= Len(log) /\ OnItsWay(asked)
          /\ ReadWell(asked) /\ Exact(log, asked)
      BY DEF IInv, AskedSound
    <2>2. asked.commits \in Nat
      BY <2>1 DEF Asked
    <2>3. Exact(log', asked)
      BY <1>2, <1>4, <2>1, <2>2, ExactStays
    <2>4. ReadWell(asked)'
      BY <1>1, <2>1 DEF ReadWell, Numbered, RunsOn, Epoch
    <2>5. asked.commits <= Len(log')
      BY <1>2, <1>4, <2>1, <2>2 DEF Lands
    <2> QED BY <1>1, <2>1, <2>3, <2>4, <2>5
  <1> QED BY <1>1, <1>2, <1>5, <1>6 DEF IInv

\* A step that leaves the log alone keeps what is sound of it, and a request that is
\* sound after it makes the whole sound.
LEMMA LogKept ==
    ASSUME IInv, start' = start, clock' \in Moments, log' = log,
           asked'.pc # "idle" => /\ asked' \in Asked
                                 /\ asked'.commits <= Len(log)
                                 /\ OnItsWay(asked')
                                 /\ ReadWell(asked')
                                 /\ Exact(log, asked')
    PROVE  IInv'
  <1>1. Epoch' = Epoch
    BY DEF Epoch
  <1>2. LogSound'
    BY <1>1 DEF IInv, LogSound, Numbered
  <1>3. ReadWell(asked)' <=> ReadWell(asked')
    BY <1>1 DEF ReadWell, Numbered, RunsOn
  <1>4. AskedSound'
    BY <1>3 DEF AskedSound
  <1> QED BY <1>2, <1>4 DEF IInv

LEMMA TickSound ==
    ASSUME IInv, NEW moment \in Moments, Tick(moment)
    PROVE  IInv'
  <1>1. start' = start /\ clock' \in Moments /\ log' = log /\ asked' = asked
    BY DEF Tick
  <1> QED BY <1>1, LogKept DEF IInv, AskedSound

LEMMA Contained ==
    /\ \A file \in Files : Contents(file) \subseteq AnyContent
    /\ \A file : Gone \in Contents(file)
    /\ Contents("registry") = {Gone} \cup Registries
    /\ "registry" \in Files /\ "vocabulary" \in Files
    /\ Gone \in AnyContent
    /\ \A kind \in Kinds : Answer(kind) \in AnyAnswer /\ Answer(kind).kind = kind
    /\ NoCommit \in [file : Files, content : AnyContent]
  <1>1. << >> \in Seq(UrlPart)
    OBVIOUS
  <1>2. Gone \in AnyContent
    BY DEF AnyContent, Contents
  <1>3. \A kind \in Kinds : Answer(kind) \in AnyAnswer /\ Answer(kind).kind = kind
    <2> HIDE DEF Kinds
    <2> QED BY <1>1, <1>2 DEF Answer, AnyAnswer
  <1>4. Contents("registry") = {Gone} \cup Registries /\ \A file : Gone \in Contents(file)
    BY DEF Contents
  <1>5. \A file \in Files : Contents(file) \subseteq AnyContent
    BY DEF Files, AnyContent
  <1>6. "registry" \in Files /\ "vocabulary" \in Files
    BY DEF Files
  <1>7. NoCommit \in [file : Files, content : AnyContent]
    BY <1>2, <1>6 DEF NoCommit
  <1> QED BY <1>2, <1>3, <1>4, <1>5, <1>6, <1>7

\* A request is read, and answered at once when its date cannot be.
LEMMA AskSound ==
    ASSUME IInv, NEW question \in Questions, Ask(question)
    PROVE  IInv'
  <1> DEFINE past == question.form # "none"
             parses == Parses(AsOf(question))
  <1>1. /\ start' = start /\ clock' = clock /\ log' = log
        /\ asked' = [pc |-> IF past /\ ~parses THEN "answered"
                            ELSE IF past /\ question.face = "resolve" THEN "log"
                            ELSE "load",
                     question |-> question,
                     at |-> IF past /\ parses THEN Read(AsOf(question)) ELSE NoMoment,
                     file |-> "registry", commit |-> NoCommit,
                     answer |-> Answer(IF past /\ ~parses THEN "refused" ELSE "none"),
                     commits |-> Len(log)]
    BY DEF Ask
  <1> HIDE DEF parses
  <1>2. question \in Question /\ start \in Starts /\ clock \in Moments /\ log \in Seq(Entry)
    BY ResolutionAssumption DEF IInv, LogSound
  <1>3. ASSUME past, parses
        PROVE  /\ Read(AsOf(question)) = Numbered(Meant(question))
               /\ Read(FormatUtc(Read(AsOf(question)))) = Read(AsOf(question))
               /\ Read(AsOf(question)) \in [day : Int, second : 0..(DaySeconds - 1)]
    <2>1. /\ Read(AsOf(question)) = Numbered(Meant(question))
          /\ Read(FormatUtc(Read(AsOf(question)))) = Read(AsOf(question))
      BY <1>2, <1>3, AskedIsMeant DEF parses
    <2>2. /\ Meant(question).day \in 0..(LastDay + 1)
          /\ Meant(question).second \in 0..(DaySeconds - 1)
      BY <1>2, <1>3, MeantDay
    <2>3. Epoch \in Int
      BY <1>2, EpochInt
    <2>4. Epoch + Meant(question).day \in Int
      BY <2>2, <2>3
    <2> QED BY <2>1, <2>2, <2>4 DEF Numbered
  <1>4. NoMoment \in [day : Int, second : 0..(DaySeconds - 1)]
    BY Constants DEF NoMoment
  <1>5. Answer("refused") \in AnyAnswer /\ Answer("none") \in AnyAnswer
        /\ Answer("refused").kind = "refused" /\ Answer("none").kind = "none"
    BY Contained DEF Kinds
  <1>6. asked' \in Asked
    <2>1. asked'.at \in [day : Int, second : 0..(DaySeconds - 1)]
      BY <1>1, <1>3, <1>4
    <2>2. Len(log) \in Nat
      BY <1>2
    <2> QED BY <1>1, <1>5, <2>1, <2>2, Contained DEF Asked, Pcs
  <1>7. asked'.commits <= Len(log)
    BY <1>1, <1>2
  <1>8. OnItsWay(asked')
    <2>1. /\ asked'.question = question /\ asked'.file = "registry"
          /\ asked'.commit.content \in Contents(asked'.file)
      BY <1>1, Contained DEF NoCommit
    <2>2. question.face \in {"resolve", "document"}
      BY <1>2 DEF Question
    <2>3. CASE past /\ ~parses
      <3>1. asked'.pc = "answered" /\ asked'.answer.kind = "refused"
        BY <1>1, <1>5, <2>3
      <3> QED BY <2>1, <3>1 DEF OnItsWay
    <2>4. CASE past /\ parses /\ question.face = "resolve"
      <3>1. asked'.pc = "log" /\ asked'.answer.kind = "none"
        BY <1>1, <1>5, <2>4
      <3> QED BY <2>1, <2>4, <3>1 DEF OnItsWay
    <2>5. CASE ~past \/ (parses /\ question.face # "resolve")
      <3>1. asked'.pc = "load" /\ asked'.answer.kind = "none"
        BY <1>1, <1>5, <2>5
      <3> QED BY <2>1, <2>2, <2>5, <3>1 DEF OnItsWay
    <2> QED BY <2>3, <2>4, <2>5
  <1>9. ReadWell(asked')
    <2>1. question.form = "stretched" => (parses <=> RunsOn(question))
      BY <1>2, RunsOnIs, StretchedIsADate DEF parses
    <2> QED BY <1>1, <1>3, <1>5, <2>1 DEF ReadWell
  <1>10. Exact(log, asked')
    BY <1>1, <1>5 DEF Exact
  <1> QED BY <1>1, <1>2, <1>6, <1>7, <1>8, <1>9, <1>10, LogKept

\* What a registry answers, and that it sends no request to another host.
LEMMA ResolvedSound ==
    ASSUME NEW registry \in Registries, NEW path \in Path
    PROVE  LET answer == Resolved(registry, path)
           IN  /\ answer \in AnyAnswer
               /\ answer.kind \notin {"none", "refused"}
               /\ answer.kind = "redirect" => StaysPut(answer.url)
  <1> DEFINE answer == Resolved(registry, path)
             below == SubSeq(path, Len(Prefix) + 1, Len(path))
  <1>1. registry.kind \in {"unclaimed", "hosted", "redirect", "retired"}
    BY ResolutionAssumption
  <1>2. CASE ~Loads(registry)
    <2>1. answer = Answer("error")
      BY <1>2 DEF Resolved
    <2> QED BY <2>1, Contained DEF Kinds
  <1>3. CASE Loads(registry) /\ (registry.kind = "unclaimed" \/ ~Covers(Prefix, path))
    <2>1. answer = Answer("not found")
      BY <1>3 DEF Resolved
    <2> QED BY <2>1, Contained DEF Kinds
  <1>4. CASE /\ Loads(registry) /\ ~(registry.kind = "unclaimed" \/ ~Covers(Prefix, path))
             /\ registry.kind # "redirect"
    <2>1. answer = Answer(registry.kind) /\ registry.kind \in {"hosted", "retired"}
      BY <1>1, <1>4 DEF Resolved
    <2> HIDE DEF answer
    <2>2. registry.kind \in Kinds
      BY <2>1 DEF Kinds
    <2> QED BY <2>1, <2>2, Contained DEF answer
  <1>5. CASE /\ Loads(registry) /\ ~(registry.kind = "unclaimed" \/ ~Covers(Prefix, path))
             /\ registry.kind = "redirect"
    <2> DEFINE url == Redirection(registry.rules, registry.target, below)
    <2>1. answer = [Answer("redirect") EXCEPT !.url = url]
      BY <1>5 DEF Resolved
    <2>2. below \in Path
      <3>1. Len(Prefix) + 1 \in Int /\ Len(Prefix) + 1 >= 1 /\ Len(path) \in Int
        BY ResolutionAssumption DEF Path
      <3>2. \A i \in (Len(Prefix) + 1)..Len(path) : path[i] \in Segment
        BY <3>1 DEF Path
      <3> QED BY <3>1, <3>2, SubSeqProperties DEF Path
    <2>3. /\ registry.target \in Seq(TargetPart)
          /\ registry.rules \in Seq([match : Seq(Piece), target : Seq(TargetPart)])
      BY <1>5, ResolutionAssumption
    <2> HIDE DEF below
    <2>4. url \in Seq(UrlPart) /\ StaysPut(url)
      <3> DEFINE matching == {i \in DOMAIN registry.rules :
                    CheckRule(registry.rules[i]) /\ Matches(registry.rules[i].match, below)}
                 first == CHOOSE i \in matching : \A j \in matching : i <= j
      <3>1. CASE matching = {}
        <4>1. url = registry.target
          BY <3>1 DEF Redirection
        <4>2. TargetPart \subseteq UrlPart
          BY DEF UrlPart
        <4>3. registry.target \in Seq(UrlPart)
          BY <2>3, <4>2, SeqMonotonic
        <4>4. \A i \in DOMAIN registry.target : registry.target[i].kind # "encoded"
          BY <2>3 DEF TargetPart, Part, Use
        <4>5. StaysPut(registry.target)
          <5>1. DOMAIN registry.target = 1..Len(registry.target) /\ Len(registry.target) \in Nat
            BY <2>3
          <5> QED BY <4>4, <5>1 DEF StaysPut, Host, DotSegments
        <4> QED BY <4>1, <4>3, <4>5
      <3>2. CASE matching # {}
        <4>1. matching \subseteq Nat
          BY <2>3
        <4>2. \E i \in matching : \A j \in matching : i <= j
          <5> HIDE DEF matching
          <5> QED BY <3>2, <4>1, Least
        <4>3. first \in matching
          <5> HIDE DEF matching
          <5> QED BY <4>2
        <4> DEFINE rule == registry.rules[first]
        <4>4. url = Rewrite(rule, below)
          BY <3>2 DEF Redirection
        <4> HIDE DEF first
        <4>5. /\ rule \in [match : Seq(Piece), target : Seq(TargetPart)]
              /\ CheckRule(rule) /\ Matches(rule.match, below)
          <5>1. /\ first \in DOMAIN registry.rules
                /\ CheckRule(rule) /\ Matches(rule.match, below)
            BY <4>3
          <5> HIDE DEF matching
          <5>2. rule \in [match : Seq(Piece), target : Seq(TargetPart)]
            <6> DEFINE AnyRule == [match : Seq(Piece), target : Seq(TargetPart)]
            <6>1. registry.rules \in Seq(AnyRule)
              BY <2>3
            <6> HIDE DEF AnyRule
            <6>2. registry.rules[first] \in AnyRule
              BY <5>1, <6>1
            <6> QED BY <6>2 DEF AnyRule
          <5> QED BY <5>1, <5>2
        <4> HIDE DEF rule, matching, url
        <4> QED BY <2>2, <4>4, <4>5, RewriteStaysPut DEF StaysPut
      <3> QED BY <3>1, <3>2
    <2> HIDE DEF url, answer
    <2>5. Answer("redirect") \in AnyAnswer /\ Answer("redirect").kind = "redirect"
      BY Contained DEF Kinds
    <2>6. answer \in AnyAnswer /\ answer.kind = "redirect" /\ answer.url = url
      BY <2>1, <2>4, <2>5 DEF AnyAnswer
    <2> QED BY <2>4, <2>6 DEF answer
  <1> QED BY <1>2, <1>3, <1>4, <1>5

\* A request is answered and keeps what it was.
LEMMA AnswersSound ==
    ASSUME IInv, asked.pc \in Pcs \ {"answered"}, NEW answer \in AnyAnswer, Answers(answer),
           answer.kind \notin {"none", "refused"},
           answer.kind = "redirect" => StaysPut(answer.url),
           (asked.question.form # "none" /\ Quiet(log, asked)) =>
               \/ answer = Right(log, asked.question)
               \/ answer.kind = "unreadable" /\ Cardinality(Of(log, asked.file)) >= LogLimit
               \/ answer.kind = "error" /\ asked.question.face = "document"
    PROVE  /\ asked' \in Asked
           /\ asked'.commits <= Len(log)
           /\ OnItsWay(asked')
           /\ ReadWell(asked')
           /\ Exact(log, asked')
  <1>1. /\ asked \in Asked /\ asked.commits <= Len(log) /\ OnItsWay(asked)
        /\ ReadWell(asked)
    BY DEF IInv, AskedSound, Pcs
  <1>2. asked' = [asked EXCEPT !.pc = "answered", !.answer = answer, !.commit = NoCommit]
    BY DEF Answers
  <1>3. asked' \in Asked
    BY <1>1, <1>2, Contained DEF Asked, Pcs
  <1>4. /\ asked'.pc = "answered" /\ asked'.answer = answer /\ asked'.commit = NoCommit
        /\ asked'.question = asked.question /\ asked'.at = asked.at /\ asked'.file = asked.file
        /\ asked'.commits = asked.commits
    BY <1>1, <1>2 DEF Asked
  <1>5. asked.answer.kind = "none"
    BY <1>1 DEF OnItsWay
  <1>6. OnItsWay(asked')
    BY <1>4, Contained DEF OnItsWay, NoCommit
  <1>7. ReadWell(asked')
    BY <1>1, <1>4, <1>5 DEF ReadWell
  <1>8. Quiet(log, asked') => Quiet(log, asked)
    BY <1>4 DEF Quiet
  <1>9. Exact(log, asked')
    BY <1>4, <1>8 DEF Exact
  <1> QED BY <1>1, <1>3, <1>4, <1>6, <1>7, <1>9

LEMMA CurrentIs ==
    ASSUME IInv, NEW file \in Files
    PROVE  Current(file) \in Contents(file)
  <1>1. CASE Touching(file) = {}
    BY <1>1, Contained DEF Current
  <1>2. CASE Touching(file) # {}
    <2>1. Touching(file) = Of(log, file) /\ log \in Seq(Entry)
      BY DEF Touching, Of, IInv, LogSound
    <2>2. Touching(file) \subseteq Nat
      BY <2>1, OfIsFinite
    <2>3. Newest(Touching(file)) \in Touching(file)
      BY <1>2, <2>2, NewestIs
    <2>4. /\ Newest(Touching(file)) \in DOMAIN log
          /\ log[Newest(Touching(file))].file = file
      BY <2>3 DEF Touching
    <2> QED BY <1>2, <2>4 DEF Current, IInv, LogSound
  <1> QED BY <1>1, <1>2

\* The registry answers, or sends a document on.
LEMMA ResolvesSound ==
    ASSUME IInv, asked.pc \in {"load", "show"}, NEW registry \in Registries,
           Resolves(registry), asked.file = "registry",
           asked.pc = "load" => asked.question.form = "none",
           (asked.question.form # "none" /\ Quiet(log, asked)) =>
               registry = Stood(log, "registry", Meant(asked.question)) /\ registry # Gone
    PROVE  /\ asked' \in Asked
           /\ asked'.commits <= Len(log)
           /\ OnItsWay(asked')
           /\ ReadWell(asked')
           /\ Exact(log, asked')
  <1> DEFINE answer == Resolved(registry, asked.question.path)
             question == asked.question
             document == answer.kind = "hosted" /\ question.face = "document"
  <1>1. /\ asked \in Asked /\ asked.commits <= Len(log) /\ OnItsWay(asked)
        /\ ReadWell(asked)
    BY DEF IInv, AskedSound, Pcs
  <1>2. question \in Questions /\ question.path \in Path
        /\ question.face \in {"resolve", "document"}
    <2>1. question \in Questions
      BY <1>1 DEF Asked
    <2> QED BY <2>1, ResolutionAssumption DEF Question
  <1>3. /\ answer \in AnyAnswer /\ answer.kind \notin {"none", "refused"}
        /\ answer.kind = "redirect" => StaysPut(answer.url)
    BY <1>2, ResolvedSound
  <1>4. CASE ~document
    <2>1. Answers(answer)
      BY <1>4 DEF Resolves
    <2>2. ASSUME question.form # "none", Quiet(log, asked) PROVE answer = Right(log, question)
      <3>1. registry = Stood(log, "registry", Meant(question)) /\ registry # Gone
        BY <2>2
      <3>2. answer.kind # "hosted" \/ question.face = "resolve"
        BY <1>2, <1>4
      <3> QED BY <3>1, <3>2 DEF Right
    <2>3. asked.pc \in Pcs \ {"answered"}
      BY DEF Pcs
    <2> HIDE DEF answer
    <2> QED BY <1>3, <2>1, <2>2, <2>3, AnswersSound
  <1>5. CASE document
    <2>1. asked' = [asked EXCEPT !.file = "vocabulary", !.commit = NoCommit,
                       !.pc = IF question.form = "none" THEN "source" ELSE "log"]
      BY <1>5 DEF Resolves
    <2>2. asked' \in Asked
      BY <1>1, <2>1, Contained DEF Asked, Pcs
    <2>3. /\ asked'.pc = IF question.form = "none" THEN "source" ELSE "log"
          /\ asked'.file = "vocabulary" /\ asked'.commit = NoCommit
          /\ asked'.question = question /\ asked'.at = asked.at
          /\ asked'.answer = asked.answer /\ asked'.commits = asked.commits
      BY <1>1, <2>1 DEF Asked
    <2>4. asked.answer.kind = "none"
      BY <1>1 DEF OnItsWay
    <2>5. OnItsWay(asked')
      BY <2>3, <2>4, Contained DEF OnItsWay, NoCommit
    <2>6. ReadWell(asked')
      BY <1>1, <2>3 DEF ReadWell
    <2>7. Quiet(log, asked') => Quiet(log, asked)
      BY <2>3 DEF Quiet
    <2>8. Exact(log, asked')
      BY <1>5, <2>3, <2>7 DEF Exact, Passed
    <2> QED BY <1>1, <2>2, <2>3, <2>5, <2>6, <2>8
  <1> QED BY <1>4, <1>5

LEMMA LoadSound == ASSUME IInv, Load PROVE IInv'
  <1> DEFINE registry == Current("registry")
  <1>1. /\ asked.pc = "load" /\ start' = start /\ clock' = clock /\ log' = log
        /\ asked \in Asked /\ asked.commits <= Len(log) /\ OnItsWay(asked) /\ ReadWell(asked)
        /\ clock \in Moments
    BY DEF Load, IInv, AskedSound
  <1>2. /\ asked.file = "registry"
        /\ asked.question.form # "none" => asked.question.face = "document"
    BY <1>1 DEF OnItsWay
  <1>3. registry = Gone \/ registry \in Registries
    BY CurrentIs, Contained
  <1>4. asked.pc \in Pcs \ {"answered"}
    BY <1>1 DEF Pcs
  <1> HIDE DEF registry
  <1>5. CASE registry = Gone \/ ~Loads(registry)
    <2>1. Answers(Answer("error"))
      BY <1>1, <1>5 DEF Load, registry
    <2>2. Answer("error") \in AnyAnswer /\ Answer("error").kind = "error"
      BY Contained DEF Kinds
    <2> QED BY <1>1, <1>2, <1>4, <2>1, <2>2, AnswersSound, LogKept
  <1>6. CASE ~(registry = Gone \/ ~Loads(registry)) /\ asked.question.form = "none"
    <2>1. Resolves(registry)
      BY <1>1, <1>6 DEF Load, registry
    <2> QED BY <1>1, <1>2, <1>3, <1>6, <2>1, ResolvesSound, LogKept
  <1>7. CASE ~(registry = Gone \/ ~Loads(registry)) /\ asked.question.form # "none"
    <2>1. asked' = [asked EXCEPT !.pc = "log"]
      BY <1>1, <1>7 DEF Load, registry
    <2>2. asked' \in Asked
      BY <1>1, <2>1 DEF Asked, Pcs
    <2>3. /\ asked'.pc = "log" /\ asked'.file = asked.file /\ asked'.commit = asked.commit
          /\ asked'.question = asked.question /\ asked'.at = asked.at
          /\ asked'.answer = asked.answer /\ asked'.commits = asked.commits
      BY <1>1, <2>1 DEF Asked
    <2>4. OnItsWay(asked') /\ ReadWell(asked')
      BY <1>1, <1>7, <2>3 DEF OnItsWay, ReadWell
    <2>5. Exact(log, asked')
      BY <1>2, <2>3 DEF Exact
    <2> QED BY <1>1, <2>2, <2>3, <2>4, <2>5, LogKept
  <1> QED BY <1>5, <1>6, <1>7

LEMMA SourceSound == ASSUME IInv, Source PROVE IInv'
  <1> DEFINE text == Current("vocabulary")
             answer == IF text = Gone THEN Answer("error") ELSE [Answer("text") EXCEPT !.text = text]
  <1>1. /\ asked.pc = "source" /\ start' = start /\ clock' = clock /\ log' = log
        /\ OnItsWay(asked) /\ clock \in Moments
    BY DEF Source, IInv, AskedSound
  <1>2. asked.question.form = "none" /\ asked.pc \in Pcs \ {"answered"}
    BY <1>1 DEF OnItsWay, Pcs
  <1>3. Answers(answer)
    BY DEF Source
  <1>4. text \in AnyContent
    BY CurrentIs, Contained
  <1> HIDE DEF text
  <1>5. /\ Answer("error") \in AnyAnswer /\ Answer("error").kind = "error"
        /\ Answer("text") \in AnyAnswer /\ Answer("text").kind = "text"
    BY Contained DEF Kinds
  <1>6. answer \in AnyAnswer /\ answer.kind \in {"error", "text"}
    BY <1>4, <1>5 DEF AnyAnswer
  <1> HIDE DEF answer
  <1> QED BY <1>1, <1>2, <1>3, <1>6, AnswersSound, LogKept

\* The commit that is picked holds what the file held at the moment that is meant.
LEMMA ReadLogSound == ASSUME IInv, ReadLog PROVE IInv'
  <1> DEFINE file == asked.file
             at == Read(FormatUtc(asked.at))
             moment == Meant(asked.question)
             old == OldEnough(file, at)
             cut == Cardinality(Listed(file)) >= LogLimit
  <1>1. /\ asked.pc = "log" /\ start' = start /\ clock' = clock /\ log' = log
        /\ asked \in Asked /\ asked.commits <= Len(log) /\ OnItsWay(asked) /\ ReadWell(asked)
        /\ Exact(log, asked)
        /\ clock \in Moments /\ start \in Starts /\ log \in Seq(Entry)
    BY DEF ReadLog, IInv, AskedSound, LogSound
  <1>2. /\ asked.question.form # "none" /\ asked.answer.kind = "none"
        /\ asked.pc \in Pcs \ {"answered"}
        /\ asked.question \in Question /\ file \in Files
    BY <1>1, ResolutionAssumption DEF OnItsWay, Asked, Pcs
  <1>3. at = Numbered(moment)
    BY <1>1, <1>2 DEF ReadWell
  <1>4. ASSUME NEW i \in DOMAIN log
        PROVE  NotAfter(Read(log[i].date), at) <=> NotAfter(log[i].when, moment)
    <2>1. Read(log[i].date) = Numbered(log[i].when)
      BY DEF IInv, LogSound
    <2>2. log[i].when \in Moments
      <3>1. log[i] \in Entry
        BY <1>1
      <3> HIDE DEF at, moment
      <3> QED BY <3>1 DEF Entry
    <2>3. log[i].when.day \in Int /\ moment.day \in Int
      <3>1. log[i].when.day \in 0..LastDay
        BY <2>2, MomentsAre
      <3>2. moment.day \in 0..(LastDay + 1)
        BY <1>2, MeantDay
      <3> QED BY <3>1, <3>2
    <2> HIDE DEF at, moment
    <2> QED BY <1>1, <1>3, <2>1, <2>3, NumberedInOrder
  <1>5. /\ Touching(file) = Of(log, file) /\ Listed(file) = First(log, file, LogLimit)
        /\ old = {i \in First(log, file, LogLimit) : NotAfter(Read(log[i].date), at)}
    BY DEF Touching, Of, Listed, First, OldEnough
  <1>6. LogLimit \in Nat \ {0}
    BY ResolutionAssumption
  <1>7. /\ IF old = {} THEN Answers(Answer(IF cut THEN "unreadable" ELSE "absent"))
           ELSE asked' = [asked EXCEPT !.pc = "show",
                    !.commit = [file |-> file, content |-> log[Newest(old)].content]]
    BY DEF ReadLog
  <1> HIDE DEF old, at, moment, cut, file
  <1>8. /\ old # {} => /\ Newest(old) \in Of(log, file)
                       /\ log[Newest(old)].content = Stood(log, file, moment)
        /\ old = {} /\ Cardinality(First(log, file, LogLimit)) < LogLimit =>
              Stood(log, file, moment) = Gone
    <2>1. log \in Seq(Entry)
      BY <1>1
    <2>2. \A i \in DOMAIN log :
              NotAfter(Read(log[i].date), at) <=> NotAfter(log[i].when, moment)
      BY <1>4
    <2>3. old = {i \in First(log, file, LogLimit) : NotAfter(Read(log[i].date), at)}
      BY <1>5
    <2> QED BY <1>6, <2>1, <2>2, <2>3, PickedIsRight
  <1>9. CASE old = {}
    <2> DEFINE answer == Answer(IF cut THEN "unreadable" ELSE "absent")
    <2>1. Answers(answer)
      BY <1>7, <1>9
    <2>2. answer \in AnyAnswer /\ answer.kind = IF cut THEN "unreadable" ELSE "absent"
      BY Contained DEF Kinds
    <2>3. /\ Cardinality(First(log, file, LogLimit)) \in Nat /\ Cardinality(Of(log, file)) \in Nat
          /\ Cardinality(First(log, file, LogLimit)) <= Cardinality(Of(log, file))
      <3>1. First(log, file, LogLimit) \subseteq Of(log, file)
        BY DEF First
      <3> QED BY <1>1, <1>6, <3>1, OfIsFinite
    <2>4. ASSUME cut PROVE Cardinality(Of(log, file)) >= LogLimit
      BY <1>5, <1>6, <2>3, <2>4 DEF cut
    <2>5. ASSUME ~cut, Quiet(log, asked) PROVE answer = Right(log, asked.question)
      <3>1. Stood(log, file, moment) = Gone
        BY <1>5, <1>6, <1>8, <1>9, <2>3, <2>5 DEF cut
      <3>2. answer = Answer("absent")
        BY <2>5
      <3>3. CASE file = "registry"
        BY <3>1, <3>2, <3>3 DEF Right, moment
      <3>4. CASE file = "vocabulary"
        <4>1. Passed(log, asked)
          BY <1>1, <1>2, <2>5, <3>4 DEF Exact, file
        <4> QED BY <3>1, <3>2, <3>4, <4>1 DEF Right, Passed, moment
      <3> QED BY <1>2, <3>3, <3>4 DEF Files
    <2>6. answer.kind \in {"unreadable", "absent"} /\ (cut => answer.kind = "unreadable")
      BY <2>2
    <2> HIDE DEF answer
    <2> QED BY <1>1, <1>2, <2>1, <2>2, <2>4, <2>5, <2>6, AnswersSound, LogKept DEF file
  <1>10. CASE old # {}
    <2> DEFINE content == log[Newest(old)].content
    <2>1. asked' = [asked EXCEPT !.pc = "show", !.commit = [file |-> file, content |-> content]]
      BY <1>7, <1>10
    <2>2. Newest(old) \in DOMAIN log /\ log[Newest(old)].file = file
      BY <1>8, <1>10 DEF Of
    <2>3. content \in Contents(file)
      BY <2>2 DEF IInv, LogSound
    <2>4. content = Stood(log, file, moment)
      BY <1>8, <1>10
    <2> HIDE DEF content
    <2>5. asked' \in Asked
      BY <1>1, <1>2, <2>1, <2>3, Contained DEF Asked, Pcs
    <2>6. /\ asked'.pc = "show" /\ asked'.file = file /\ asked'.commit.content = content
          /\ asked'.question = asked.question /\ asked'.at = asked.at
          /\ asked'.answer = asked.answer /\ asked'.commits = asked.commits
      BY <1>1, <2>1 DEF Asked, file
    <2>7. OnItsWay(asked') /\ ReadWell(asked')
      BY <1>1, <1>2, <2>3, <2>6 DEF OnItsWay, ReadWell
    <2>8. Quiet(log, asked') => Quiet(log, asked)
      BY <2>6 DEF Quiet
    <2>9. Passed(log, asked') <=> Passed(log, asked)
      BY <2>6 DEF Passed
    <2>10. Exact(log, asked')
      BY <1>1, <1>2, <2>4, <2>6, <2>8, <2>9 DEF Exact, file, moment
    <2> QED BY <1>1, <2>5, <2>6, <2>7, <2>10, LogKept
  <1> QED BY <1>9, <1>10

LEMMA ShowSound == ASSUME IInv, Show PROVE IInv'
  <1> DEFINE content == asked.commit.content
             moment == Meant(asked.question)
  <1>1. /\ asked.pc = "show" /\ start' = start /\ clock' = clock /\ log' = log
        /\ asked \in Asked /\ asked.commits <= Len(log) /\ OnItsWay(asked) /\ ReadWell(asked)
        /\ Exact(log, asked)
        /\ clock \in Moments
    BY DEF Show, IInv, AskedSound
  <1>2. /\ asked.question.form # "none" /\ asked.file \in Files
        /\ asked.pc \in Pcs \ {"answered"}
        /\ content \in Contents(asked.file)
    BY <1>1 DEF OnItsWay, Asked, Pcs
  <1>3. ASSUME Quiet(log, asked)
        PROVE  /\ content = Stood(log, asked.file, moment)
               /\ asked.file = "vocabulary" => Passed(log, asked)
    BY <1>1, <1>2, <1>3 DEF Exact
  <1>4. /\ Answer("absent") \in AnyAnswer /\ Answer("absent").kind = "absent"
        /\ Answer("text") \in AnyAnswer /\ Answer("text").kind = "text"
    BY Contained DEF Kinds
  <1>5. IF content = Gone THEN Answers(Answer("absent"))
        ELSE IF asked.file = "registry" THEN Resolves(content)
        ELSE Answers([Answer("text") EXCEPT !.text = content])
    BY DEF Show
  <1> HIDE DEF content, moment
  <1>6. CASE content = Gone
    <2>1. Answers(Answer("absent"))
      BY <1>5, <1>6
    <2>2. ASSUME Quiet(log, asked) PROVE Answer("absent") = Right(log, asked.question)
      <3>1. CASE asked.file = "registry"
        BY <1>3, <1>6, <2>2, <3>1 DEF Right, moment
      <3>2. CASE asked.file = "vocabulary"
        <4>1. Passed(log, asked)
          BY <1>3, <2>2, <3>2
        <4> QED BY <1>3, <1>6, <2>2, <3>2, <4>1 DEF Right, Passed, moment
      <3> QED BY <1>2, <3>1, <3>2 DEF Files
    <2> QED BY <1>1, <1>2, <1>4, <2>1, <2>2, AnswersSound, LogKept
  <1>7. CASE content # Gone /\ asked.file = "registry"
    <2>1. content \in Registries
      BY <1>2, <1>7, Contained
    <2>2. Resolves(content)
      BY <1>5, <1>7
    <2>3. ASSUME Quiet(log, asked) PROVE content = Stood(log, "registry", moment) /\ content # Gone
      BY <1>3, <1>7, <2>3
    <2> QED BY <1>1, <1>7, <2>1, <2>2, <2>3, ResolvesSound, LogKept DEF moment
  <1>8. CASE content # Gone /\ asked.file = "vocabulary"
    <2> DEFINE answer == [Answer("text") EXCEPT !.text = content]
    <2>1. Answers(answer)
      BY <1>5, <1>8
    <2>2. content \in AnyContent
      BY <1>2, Contained
    <2>3. answer \in AnyAnswer /\ answer.kind = "text"
      BY <1>4, <2>2 DEF AnyAnswer
    <2>4. ASSUME Quiet(log, asked) PROVE answer = Right(log, asked.question)
      <3>1. Passed(log, asked) /\ content = Stood(log, "vocabulary", moment)
        BY <1>3, <1>8, <2>4
      <3> QED BY <1>8, <3>1 DEF Right, Passed, moment
    <2> HIDE DEF answer
    <2> QED BY <1>1, <1>2, <2>1, <2>3, <2>4, AnswersSound, LogKept
  <1> QED BY <1>2, <1>6, <1>7, <1>8 DEF Files

LEMMA StepSound == ASSUME IInv, [Next]_vars PROVE IInv'
  <1>1. CASE UNCHANGED vars
    <2>1. start' = start /\ clock' = clock /\ log' = log /\ asked' = asked
      BY <1>1 DEF vars
    <2> QED BY <2>1, LogKept DEF IInv, AskedSound
  <1>2. ASSUME NEW file \in Files, NEW authored \in Moments, NEW offset \in Offsets,
               NEW content \in Contents(file), Commit(file, content, authored, offset)
        PROVE  IInv'
    BY <1>2, CommitSound
  <1>3. ASSUME NEW moment \in Moments, Tick(moment) PROVE IInv'
    BY <1>3, TickSound
  <1>4. ASSUME NEW question \in Questions, Ask(question) PROVE IInv'
    BY <1>4, AskSound
  <1>5. CASE Load
    BY <1>5, LoadSound
  <1>6. CASE Source
    BY <1>6, SourceSound
  <1>7. CASE ReadLog
    BY <1>7, ReadLogSound
  <1>8. CASE Show
    BY <1>8, ShowSound
  <1> QED BY <1>1, <1>2, <1>3, <1>4, <1>5, <1>6, <1>7, <1>8 DEF Next

\* What the proofs rest on holds in every state.
LEMMA Sound == Spec => []IInv
  <1>1. Init => IInv
    BY InitSound
  <1>2. IInv /\ [Next]_vars => IInv'
    BY StepSound
  <1> QED BY <1>1, <1>2, PTL DEF Spec

-----------------------------------------------------------------------------
(* The theorems. *)

\* The log, the request and its answer have the shape the steps give them, however many
\* commits, rewrites and questions came before.
THEOREM TypesHold == Spec => []TypeOK
  <1>1. IInv => TypeOK
    BY InvTypeOK
  <1> QED BY <1>1, Sound, PTL

\* What is answered about a moment is what the repository held by then, for every log and
\* moment: of the commits listed, the first old enough is the last one made by then, unless
\* the log was cut short of it, and then nothing is answered.
THEOREM PastHolds == Spec => []PastIsExact
  <1>1. IInv => PastIsExact
    BY InvPastIsExact
  <1> QED BY <1>1, Sound, PTL

\* A date is refused exactly when the calendar does not have it: the longest day epoch_days
\* allows a month is the one its calendar turns over after, in leap years too.
THEOREM RefusalsHold == Spec => []OnlyFalseDatesRefused
  <1>1. IInv => OnlyFalseDatesRefused
    BY InvOnlyFalseDatesRefused
  <1> QED BY <1>1, Sound, PTL

\* No request decides the host of a redirect or puts a dot segment into it, whatever rules a
\* registry that loads holds and whatever of the path they capture: check_target_head lets no
\* use stand before the host has ended, and what is captured is encoded.
THEOREM CapturesHold == Spec => []CapturesStayPut
  <1>1. IInv => CapturesStayPut
    BY InvCapturesStayPut
  <1> QED BY <1>1, Sound, PTL

\* epoch_days, which sums years, months and leap days apart, and format_utc, which takes the
\* sum apart again, agree with a calendar that is counted day by day, on every date there is.
THEOREM DaysHold == Spec => []DaysAreCounted
  BY DaysCount, PTL
=============================================================================
