------------------------------ MODULE Calendar ------------------------------
(***************************************************************************)
(* Dates as the program keeps them (src/src/common/DateTime.cpp): a record *)
(* of numbers, with 00-00-0000 00:00:00 for what is no date.  nextMinute,  *)
(* nextSecond and the setters are called from nowhere and left out.        *)
(***************************************************************************)
EXTENDS Integers

Date(d, m, y, h, min, s) ==
    [day |-> d, month |-> m, year |-> y, hour |-> h, minute |-> min, second |-> s]
Zero == Date(0, 0, 0, 0, 0, 0)

daysInMonth(m, y) ==
    CASE m = 2 -> IF y % 4 = 0 /\ (y % 100 # 0 \/ y % 400 = 0) THEN 29 ELSE 28
      [] m \in {4, 6, 9, 11} -> 30
      [] OTHER -> 31

isValidDate(d, m, y) == m \in 1..12 /\ d \in 1..daysInMonth(m, y)
isValidTime(h, min, s) == h \in 0..23 /\ min \in 0..59 /\ s \in 0..59

(***************************************************************************)
(* Slip: the constructor keeps the numbers it is given, and leaves it to   *)
(* its callers to ask whether they make a date.                            *)
(***************************************************************************)
DateTimeSlip(d, m, y, h, min, s) == Date(d, m, y, h, min, s)

\* The constructor does not fail: an impossible date becomes Zero.
DateTime(d, m, y, h, min, s) ==
    IF isValidDate(d, m, y) /\ isValidTime(h, min, s) THEN Date(d, m, y, h, min, s) ELSE Zero

\* True of no date the constructor makes: it sets day to 0.
invalidDateTime(t) == t.day = -1

\* The date in the two words of a message, dd-mm-yyyy and hh:mm, whose
\* numbers are date and time here.  None of them makes it fail.
fromStrings(date, time) == DateTime(date[1], date[2], date[3], time[1], time[2], 0)
readable(date, time) == ~invalidDateTime(fromStrings(date, time))

\* toString without seconds: the two words of a message.
DateWord(t) == <<t.day, t.month, t.year>>
TimeWord(t) == <<t.hour, t.minute>>

isAfter(t, other) ==
    IF t.year # other.year THEN t.year > other.year
    ELSE IF t.month # other.month THEN t.month > other.month
    ELSE IF t.day # other.day THEN t.day > other.day
    ELSE IF t.hour # other.hour THEN t.hour > other.hour
    ELSE IF t.minute # other.minute THEN t.minute > other.minute
    ELSE t.second > other.second

isPast(t, now) == ~isAfter(t, now) /\ t # now

is_valid_date_time(d, m, y, h, min, now) ==
    LET t == DateTime(d, m, y, h, min, 0) IN ~invalidDateTime(t) /\ ~isPast(t, now)

-----------------------------------------------------------------------------
(***************************************************************************)
(* The calendar itself, for properties: leap years counted rather than     *)
(* tested, and instants as minutes since the year 0.                       *)
(***************************************************************************)
LeapDays(y) == y \div 4 - y \div 100 + y \div 400
Length(m, y) ==
    IF m = 2 THEN 28 + LeapDays(y) - LeapDays(y - 1)
    ELSE <<31, 28, 31, 30, 31, 30, 31, 31, 30, 31, 30, 31>>[m]
DaysBefore(m, y) ==
    <<0, 31, 59, 90, 120, 151, 181, 212, 243, 273, 304, 334>>[m]
        + IF m > 2 THEN Length(2, y) - 28 ELSE 0

Minutes(d, m, y, h, min) ==
    ((365 * y + LeapDays(y - 1) + DaysBefore(m, y) + d) * 24 + h) * 60 + min

Real(date, time) ==
    /\ date[2] \in 1..12 /\ date[1] \in 1..Length(date[2], date[3])
    /\ time[1] \in 0..23 /\ time[2] \in 0..59

\* A date of the calendar, with its seconds.
IsDate(t) ==
    /\ t = Date(t.day, t.month, t.year, t.hour, t.minute, t.second)
    /\ t.year \in Int
    /\ isValidDate(t.day, t.month, t.year) /\ isValidTime(t.hour, t.minute, t.second)

\* The instant of the two words is not before now, a date with seconds.
Upcoming(date, time, now) ==
    LET then == Minutes(date[1], date[2], date[3], time[1], time[2])
        present == Minutes(now.day, now.month, now.year, now.hour, now.minute)
    IN  then > present \/ (then = present /\ now.second = 0)
=============================================================================
