--------------------------- MODULE CalendarProofs ---------------------------
(***************************************************************************)
(* Theorems about Calendar, for every year an int may hold and those it    *)
(* may not: the lengths of months that the program tests for are those of  *)
(* the calendar, and its comparison of dates, field by field, is that of   *)
(* the instants.                                                           *)
(***************************************************************************)
EXTENDS Calendar, TLAPS

\* One year more completes a period of k years or does not.
LEMMA Periods ==
    ASSUME NEW y \in Int
    PROVE  /\ y \div 4 - (y - 1) \div 4 = IF y % 4 = 0 THEN 1 ELSE 0
           /\ y \div 100 - (y - 1) \div 100 = IF y % 100 = 0 THEN 1 ELSE 0
           /\ y \div 400 - (y - 1) \div 400 = IF y % 400 = 0 THEN 1 ELSE 0
  OBVIOUS

LEMMA Multiples ==
    ASSUME NEW y \in Int
    PROVE  (y % 100 = 0 => y % 4 = 0) /\ (y % 400 = 0 => y % 100 = 0)
  OBVIOUS

\* The February that daysInMonth tests for is the one leap years leave.
LEMMA Leap ==
    ASSUME NEW y \in Int
    PROVE  /\ LeapDays(y) \in Int /\ LeapDays(y - 1) \in Int
           /\ LeapDays(y) - LeapDays(y - 1) =
                 IF y % 4 = 0 /\ (y % 100 # 0 \/ y % 400 = 0) THEN 1 ELSE 0
  BY Periods, Multiples DEF LeapDays

\* Leap days only add up.
LEMMA LeapDaysGrow ==
    ASSUME NEW y \in Int, NEW z \in Int, y <= z
    PROVE  LeapDays(y) <= LeapDays(z)
  <1>1. \A x \in Int : x \div 4 - x \div 100 = 24 * (x \div 100) + (x % 100) \div 4
    OBVIOUS
  <1>2. y \div 100 <= z \div 100 /\ y \div 400 <= z \div 400
    OBVIOUS
  <1>3. y \div 4 - y \div 100 <= z \div 4 - z \div 100
    <2>1. CASE y \div 100 = z \div 100
      <3>1. y \div 4 <= z \div 4
        OBVIOUS
      <3> QED
        BY <2>1, <3>1
    <2>2. CASE y \div 100 < z \div 100
      <3>1. 24 * (y \div 100) + 24 <= 24 * (z \div 100)
        BY <2>2
      <3>2. (y % 100) \div 4 <= 24 /\ (z % 100) \div 4 >= 0
        OBVIOUS
      <3> QED
        BY <1>1, <3>1, <3>2
    <2> QED
      BY <1>2, <2>1, <2>2
  <1> QED
    BY <1>2, <1>3 DEF LeapDays

\* The lengths of months in DateTime.cpp are those of the calendar.
THEOREM MonthsAreRight ==
    ASSUME NEW y \in Int, NEW m \in 1..12
    PROVE  daysInMonth(m, y) = Length(m, y)
  <1>1. CASE m = 2
    BY <1>1, Leap DEF daysInMonth, Length
  <1>2. CASE m # 2
    <2>1. m \in {1, 3, 4, 5, 6, 7, 8, 9, 10, 11, 12}
      BY <1>2
    <2> QED
      BY <1>2, <2>1 DEF daysInMonth, Length
  <1> QED
    BY <1>1, <1>2

\* The days before month m, in a year with this many leap days.
Before(m, leap) ==
    <<0, 31, 59, 90, 120, 151, 181, 212, 243, 273, 304, 334>>[m] + IF m > 2 THEN leap ELSE 0
Days(m, leap) ==
    IF m = 2 THEN 28 + leap ELSE <<31, 28, 31, 30, 31, 30, 31, 31, 30, 31, 30, 31>>[m]

\* Months follow each other and make up the year.
LEMMA MonthsFollow ==
    ASSUME NEW leap \in 0..1, NEW m \in 1..12
    PROVE  /\ Before(m, leap) \in Nat /\ Days(m, leap) \in 28..31
           /\ Before(m, leap) + Days(m, leap) <= 365 + leap
           /\ \A k \in 1..12 : m < k => Before(m, leap) + Days(m, leap) <= Before(k, leap)
  <1>1. m \in {1, 2, 3, 4, 5, 6, 7, 8, 9, 10, 11, 12}
    OBVIOUS
  <1>2. /\ Before(1, leap) = 0 /\ Days(1, leap) = 31
        /\ Before(2, leap) = 31 /\ Days(2, leap) = 28 + leap
        /\ Before(3, leap) = 59 + leap /\ Days(3, leap) = 31
        /\ Before(4, leap) = 90 + leap /\ Days(4, leap) = 30
        /\ Before(5, leap) = 120 + leap /\ Days(5, leap) = 31
        /\ Before(6, leap) = 151 + leap /\ Days(6, leap) = 30
        /\ Before(7, leap) = 181 + leap /\ Days(7, leap) = 31
        /\ Before(8, leap) = 212 + leap /\ Days(8, leap) = 31
        /\ Before(9, leap) = 243 + leap /\ Days(9, leap) = 30
        /\ Before(10, leap) = 273 + leap /\ Days(10, leap) = 31
        /\ Before(11, leap) = 304 + leap /\ Days(11, leap) = 30
        /\ Before(12, leap) = 334 + leap /\ Days(12, leap) = 31
    BY DEF Before, Days
  <1>3. \A k \in 1..12 : k \in {1, 2, 3, 4, 5, 6, 7, 8, 9, 10, 11, 12}
    OBVIOUS
  <1> QED
    BY <1>1, <1>2, <1>3

\* Whole minutes of a day, and of days.
LEMMA Lexical ==
    ASSUME NEW a \in Int, NEW b \in Int, NEW h \in 0..23, NEW i \in 0..23, NEW p \in 0..59, NEW q \in 0..59
    PROVE  LET M == (a * 24 + h) * 60 + p
               N == (b * 24 + i) * 60 + q
           IN  /\ M \in Int
               /\ (M > N) <=> (a > b \/ (a = b /\ (h > i \/ (h = i /\ p > q))))
  OBVIOUS

\* The number of a day.
Day(d, m, y) == 365 * y + LeapDays(y - 1) + DaysBefore(m, y) + d

\* Days come in the order of year, month and day of the month.
LEMMA DaysInOrder ==
    ASSUME NEW d \in Int, NEW m \in Int, NEW y \in Int, isValidDate(d, m, y),
           NEW e \in Int, NEW k \in Int, NEW z \in Int, isValidDate(e, k, z)
    PROVE  /\ Day(d, m, y) \in Int
           /\ y > z => Day(d, m, y) > Day(e, k, z)
           /\ y = z /\ m > k => Day(d, m, y) > Day(e, k, z)
           /\ y = z /\ m = k => (Day(d, m, y) > Day(e, k, z) <=> d > e)
           /\ y = z /\ m = k /\ d = e => Day(d, m, y) = Day(e, k, z)
  <1> DEFINE leap(x) == LeapDays(x) - LeapDays(x - 1)
  <1>1. \A x \in Int : LeapDays(x) \in Int /\ LeapDays(x - 1) \in Int /\ leap(x) \in 0..1
    BY Leap
  <1>2. /\ m \in 1..12 /\ d >= 1 /\ d <= Length(m, y)
        /\ k \in 1..12 /\ e >= 1 /\ e <= Length(k, z)
    BY MonthsAreRight DEF isValidDate
  <1>3. \A x \in Int, j \in 1..12 : /\ Length(j, x) = Days(j, leap(x))
                                    /\ DaysBefore(j, x) = Before(j, leap(x))
    <2> TAKE x \in Int, j \in 1..12
    <2>1. Length(2, x) - 28 = leap(x)
      BY <1>1 DEF Length
    <2>2. Length(j, x) = Days(j, leap(x))
      BY <1>1 DEF Length, Days
    <2>3. DaysBefore(j, x) = Before(j, leap(x))
      BY <2>1 DEF DaysBefore, Before
    <2> QED
      BY <2>2, <2>3
  <1> HIDE DEF leap
  <1>4. /\ DaysBefore(m, y) \in Nat /\ DaysBefore(k, z) \in Nat
        /\ Length(k, z) \in Nat
        /\ DaysBefore(k, z) + Length(k, z) <= 365 + leap(z)
        /\ y = z /\ m > k => DaysBefore(k, z) + Length(k, z) <= DaysBefore(m, y)
    <2>1. /\ Before(m, leap(y)) \in Nat
          /\ Before(k, leap(z)) \in Nat /\ Days(k, leap(z)) \in 28..31
          /\ Before(k, leap(z)) + Days(k, leap(z)) <= 365 + leap(z)
          /\ k < m => Before(k, leap(z)) + Days(k, leap(z)) <= Before(m, leap(z))
      BY <1>1, <1>2, MonthsFollow
    <2> QED
      BY <1>2, <1>3, <2>1
  <1>5. Day(d, m, y) \in Int /\ Day(e, k, z) \in Int
    BY <1>1, <1>4 DEF Day
  <1>6. ASSUME y > z PROVE Day(d, m, y) > Day(e, k, z)
    <2>1. 365 * z + 365 <= 365 * y
      BY <1>6
    <2>2. LeapDays(z) <= LeapDays(y - 1)
      BY <1>6, LeapDaysGrow
    <2>3. leap(z) = LeapDays(z) - LeapDays(z - 1)
      BY DEF leap
    <2>4. Day(e, k, z) <= 365 * z + LeapDays(z - 1) + 365 + leap(z)
      BY <1>1, <1>2, <1>4 DEF Day
    <2>5. Day(d, m, y) >= 365 * y + LeapDays(y - 1) + 1
      BY <1>1, <1>2, <1>4 DEF Day
    <2> QED
      BY <1>1, <1>5, <2>1, <2>2, <2>3, <2>4, <2>5
  <1>7. ASSUME y = z, m > k PROVE Day(d, m, y) > Day(e, k, z)
    BY <1>1, <1>2, <1>4, <1>7 DEF Day
  <1>8. ASSUME y = z, m = k PROVE Day(d, m, y) - Day(e, k, z) = d - e
    BY <1>1, <1>4, <1>8 DEF Day
  <1> QED
    BY <1>5, <1>6, <1>7, <1>8

\* The minutes of a date.
Instant(t) == Minutes(t.day, t.month, t.year, t.hour, t.minute)

\* isAfter, which compares field by field, follows the instants: no date of
\* the calendar is out of order, whatever the lengths of its months and years.
THEOREM ComparedInOrder ==
    ASSUME NEW t, IsDate(t), NEW u, IsDate(u)
    PROVE  /\ Instant(t) \in Int /\ Instant(u) \in Int
           /\ isAfter(t, u) <=> \/ Instant(t) > Instant(u)
                                \/ Instant(t) = Instant(u) /\ t.second > u.second
           /\ (Instant(t) = Instant(u) /\ t.second = u.second) <=> t = u
  <1> DEFINE a == Day(t.day, t.month, t.year)
             b == Day(u.day, u.month, u.year)
  <1>1. /\ t.year \in Int /\ t.month \in Int /\ t.day \in Int /\ t.hour \in 0..23
        /\ t.minute \in 0..59 /\ t.second \in 0..59
        /\ u.year \in Int /\ u.month \in Int /\ u.day \in Int /\ u.hour \in 0..23
        /\ u.minute \in 0..59 /\ u.second \in 0..59
    BY DEF IsDate, isValidDate, isValidTime
  <1>2. Instant(t) = (a * 24 + t.hour) * 60 + t.minute /\ Instant(u) = (b * 24 + u.hour) * 60 + u.minute
    BY DEF Instant, Minutes, Day
  <1>3. /\ a \in Int /\ b \in Int
        /\ t.year > u.year => a > b
        /\ t.year = u.year /\ t.month > u.month => a > b
        /\ t.year = u.year /\ t.month = u.month => (a > b <=> t.day > u.day)
        /\ t.year = u.year /\ t.month = u.month /\ t.day = u.day => a = b
        /\ u.year > t.year => b > a
        /\ u.year = t.year /\ u.month > t.month => b > a
        /\ u.year = t.year /\ u.month = t.month => (b > a <=> u.day > t.day)
    BY <1>1, DaysInOrder DEF IsDate
  <1> HIDE DEF a, b
  <1>4. /\ a > b <=> \/ t.year > u.year
                     \/ t.year = u.year /\ t.month > u.month
                     \/ t.year = u.year /\ t.month = u.month /\ t.day > u.day
        /\ a = b <=> t.year = u.year /\ t.month = u.month /\ t.day = u.day
    BY <1>1, <1>3
  <1>5. /\ Instant(t) > Instant(u) <=>
             (a > b \/ (a = b /\ (t.hour > u.hour \/ (t.hour = u.hour /\ t.minute > u.minute))))
        /\ Instant(u) > Instant(t) <=>
             (b > a \/ (b = a /\ (u.hour > t.hour \/ (u.hour = t.hour /\ u.minute > t.minute))))
        /\ Instant(t) \in Int /\ Instant(u) \in Int
    <2> DEFINE M == (a * 24 + t.hour) * 60 + t.minute
               N == (b * 24 + u.hour) * 60 + u.minute
    <2>1. /\ M \in Int
          /\ (M > N) <=> (a > b \/ (a = b /\ (t.hour > u.hour \/ (t.hour = u.hour /\ t.minute > u.minute))))
      BY <1>1, <1>3, Lexical
    <2>2. /\ N \in Int
          /\ (N > M) <=> (b > a \/ (b = a /\ (u.hour > t.hour \/ (u.hour = t.hour /\ u.minute > t.minute))))
      BY <1>1, <1>3, Lexical
    <2>3. Instant(t) = M /\ Instant(u) = N
      BY <1>2
    <2> HIDE DEF M, N
    <2> QED
      BY <2>1, <2>2, <2>3
  <1>6. Instant(t) \in Int /\ Instant(u) \in Int
    BY <1>5
  <1>7. Instant(t) = Instant(u) <=> a = b /\ t.hour = u.hour /\ t.minute = u.minute
    BY <1>1, <1>3, <1>5, <1>6
  <1>8. isAfter(t, u) <=>
           \/ t.year > u.year
           \/ t.year = u.year /\ t.month > u.month
           \/ t.year = u.year /\ t.month = u.month /\ t.day > u.day
           \/ /\ t.year = u.year /\ t.month = u.month /\ t.day = u.day
              /\ \/ t.hour > u.hour
                 \/ t.hour = u.hour /\ t.minute > u.minute
                 \/ t.hour = u.hour /\ t.minute = u.minute /\ t.second > u.second
    BY <1>1 DEF isAfter
  <1>9. isAfter(t, u) <=> \/ Instant(t) > Instant(u)
                          \/ Instant(t) = Instant(u) /\ t.second > u.second
    BY <1>1, <1>3, <1>4, <1>5, <1>7, <1>8
  <1>10. (Instant(t) = Instant(u) /\ t.second = u.second) => t = u
    BY <1>4, <1>7 DEF IsDate, Date
  <1> QED
    BY <1>6, <1>9, <1>10

\* What the constructor makes of numbers is a date of the calendar or Zero.
LEMMA Constructed ==
    ASSUME NEW d, NEW m, NEW y \in Int, NEW h, NEW i
    PROVE  LET t == DateTime(d, m, y, h, i, 0) IN
           \/ t = Zero
           \/ IsDate(t) /\ t.second = 0 /\ t = Date(d, m, y, h, i, 0)
  <1> DEFINE t == DateTime(d, m, y, h, i, 0)
             u == Date(d, m, y, h, i, 0)
  <1>1. CASE ~(isValidDate(d, m, y) /\ isValidTime(h, i, 0))
    BY <1>1 DEF DateTime
  <1>2. CASE isValidDate(d, m, y) /\ isValidTime(h, i, 0)
    <2>1. t = u
      BY <1>2 DEF DateTime
    <2>2. /\ u.day = d /\ u.month = m /\ u.year = y /\ u.hour = h /\ u.minute = i /\ u.second = 0
          /\ u = Date(u.day, u.month, u.year, u.hour, u.minute, u.second)
      BY DEF Date
    <2> HIDE DEF u
    <2> QED
      BY <1>2, <2>1, <2>2 DEF IsDate, u
  <1> QED
    BY <1>1, <1>2

\* Zero is before every date since the year 1.
LEMMA ZeroIsPast ==
    ASSUME NEW now, IsDate(now), now.year > 0
    PROVE  isPast(Zero, now)
  <1>1. Zero.year = 0 /\ now.year \in Int /\ 0 # now.year /\ ~(0 > now.year)
    BY DEF Zero, Date, IsDate
  <1>2. ~isAfter(Zero, now)
    BY <1>1 DEF isAfter
  <1> QED
    BY <1>1, <1>2 DEF isPast

\* What isPast says of a date without seconds is what the calendar says of it:
\* it has passed unless the clock shows this minute's first second or earlier.
THEOREM PastIsPast ==
    ASSUME NEW t, IsDate(t), t.second = 0, NEW now, IsDate(now)
    PROVE  isPast(t, now) <=> ~Upcoming(DateWord(t), TimeWord(t), now)
  <1>1. /\ Instant(t) \in Int /\ Instant(now) \in Int
        /\ isAfter(t, now) <=> \/ Instant(t) > Instant(now)
                               \/ Instant(t) = Instant(now) /\ t.second > now.second
        /\ (Instant(t) = Instant(now) /\ t.second = now.second) <=> t = now
    BY ComparedInOrder
  <1>2. Upcoming(DateWord(t), TimeWord(t), now) <=>
           \/ Instant(t) > Instant(now)
           \/ Instant(t) = Instant(now) /\ now.second = 0
    BY DEF Upcoming, DateWord, TimeWord, Instant
  <1>3. now.second \in 0..59
    BY DEF IsDate, isValidTime
  <1> QED
    BY <1>1, <1>2, <1>3 DEF isPast
=============================================================================
