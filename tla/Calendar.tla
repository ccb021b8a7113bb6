------------------------------ MODULE Calendar ------------------------------
(***************************************************************************)
(* The dates of Python's datetime and calendar modules that the triggers   *)
(* compute with: naive dates of the proleptic Gregorian calendar, to the   *)
(* second.  A date is a record with the attributes of a datetime.          *)
(***************************************************************************)
EXTENDS Integers, FiniteSets

Date(y, mo, d, h, mi, s) ==
  [year |-> y, month |-> mo, day |-> d, hour |-> h, minute |-> mi, second |-> s]

IsLeap(y) == y % 4 = 0 /\ (y % 100 # 0 \/ y % 400 = 0)

\* calendar.monthrange(y, m)[1]
DaysIn(y, m) == CASE m = 2 -> IF IsLeap(y) THEN 29 ELSE 28
                  [] m \in {4, 6, 9, 11} -> 30
                  [] OTHER -> 31

\* The number of days before the first of the month, in a year and in all.
DaysBefore(y, m) ==
  <<0, 31, 59, 90, 120, 151, 181, 212, 243, 273, 304, 334>>[m]
    + (IF m > 2 /\ IsLeap(y) THEN 1 ELSE 0)
DayOfYear(d) == DaysBefore(d.year, d.month) + d.day
Ordinal(d) == LET y == d.year - 1
              IN 365 * y + y \div 4 - y \div 100 + y \div 400 + DayOfYear(d)

\* date.weekday(): Monday is 0.
Weekday(d) == (Ordinal(d) + 6) % 7

\* date.isocalendar()[1]: the week of a day is the one of its Thursday.
IsoWeeks(y) ==
  LET first == Weekday(Date(y, 1, 1, 0, 0, 0))
  IN IF first = 3 \/ (first = 2 /\ IsLeap(y)) THEN 53 ELSE 52
IsoWeek(d) ==
  LET w == (DayOfYear(d) - Weekday(d) + 9) \div 7
  IN CASE w < 1 -> IsoWeeks(d.year - 1)
       [] w > IsoWeeks(d.year) -> 1
       [] OTHER -> w

\* Seconds since the year 2000, for comparisons.
Seconds(d) ==
  (Ordinal(d) - 730120) * 86400 + d.hour * 3600 + d.minute * 60 + d.second
==============================================================================
