------------------------------ MODULE Calendar ------------------------------
(***************************************************************************)
(* strtool.c: the date checks.  The module walks through the calendar the  *)
(* way isDate accepts it, one valid date after another, and counts days;    *)
(* the count is compared with the day number of the Gregorian calendar.    *)
(***************************************************************************)
EXTENDS Integers

CONSTANTS FirstYear, LastYear  \* bounds of the walk

ASSUME CalendarAssumption ==
  FirstYear \in Nat /\ LastYear \in Nat /\ 1700 <= FirstYear /\ LastYear <= 3000

isYear(Year) == ~(Year < 1700 \/ Year > 3000)

isMonth(Month) == ~(Month > 12 \/ Month < 1)

(* Definitions named Bug... are deliberate mistakes that nothing uses: they *)
(* check that the property would notice them.  Here: centuries are leap.   *)
BugIsLeapYear(Year) == Year % 4 = 0

isLeapYear(Year) ==
  (Year % 4 = 0 /\ Year % 100 # 0) \/ Year % 400 = 0 \/ Year % 1000 = 0

DaysOf == <<31, 28, 31, 30, 31, 30, 31, 31, 30, 31, 30, 31>>

(* The last day of the month, and 0 when there is no such month. *)
mxday_month(Year, Month) ==
  IF ~isYear(Year) \/ ~isMonth(Month) THEN 0
  ELSE DaysOf[Month] + IF isLeapYear(Year) /\ Month = 2 THEN 1 ELSE 0

isDay(Year, Month, Day) == ~(Day < 1 \/ Day > mxday_month(Year, Month))

-----------------------------------------------------------------------------
(* The reference: the number of days up to a date, without any test for leap *)
(* years.                                                                    *)

LeapDaysUpTo(y) == (y \div 4) - (y \div 100) + (y \div 400)

DaysBeforeMonth == <<0, 31, 59, 90, 120, 151, 181, 212, 243, 273, 304, 334>>

DayNumber(y, m, d) ==
  365 * (y - 1) + LeapDaysUpTo(IF m > 2 THEN y ELSE y - 1) + DaysBeforeMonth[m] + d

(* From the first of a month to the first of the next one. *)
LengthOfMonth(y, m) ==
  (IF m = 12 THEN DayNumber(y + 1, 1, 1) ELSE DayNumber(y, m + 1, 1)) - DayNumber(y, m, 1)

DayExists(y, m, d) == 1 <= d /\ d <= LengthOfMonth(y, m)

(* The one day that the code has and the calendar has not: isLeapYear takes  *)
(* every thousandth year for a leap year.                                    *)
ExtraDay(y, m, d) == y = 3000 /\ m = 2 /\ d = 29

-----------------------------------------------------------------------------
VARIABLES year, month, day, number

calendarVars == <<year, month, day, number>>

CalendarInit ==
  /\ year \in FirstYear..LastYear
  /\ month = 1 /\ day = 1
  /\ number = DayNumber(year, 1, 1)

(* The next string YYYYMMDD that isDate accepts. *)
NextDate ==
  /\ \/ /\ isDay(year, month, day + 1)
        /\ day' = day + 1
        /\ UNCHANGED <<year, month>>
     \/ /\ ~isDay(year, month, day + 1) /\ isDay(year, month + 1, 1)
        /\ month' = month + 1 /\ day' = 1
        /\ UNCHANGED year
     \/ /\ ~isDay(year, month, day + 1) /\ ~isDay(year, month + 1, 1)
        /\ year < LastYear /\ isDay(year + 1, 1, 1)
        /\ year' = year + 1 /\ month' = 1 /\ day' = 1
  /\ number' = number + 1

CalendarNext == NextDate

CalendarSpec == CalendarInit /\ [][CalendarNext]_calendarVars

(* The dates that isDate accepts are the days of the Gregorian calendar: it *)
(* neither leaves a day out nor lets one in that does not exist.  A wrong    *)
(* month length shows on the first day of the month after it.               *)
DatesAreDays ==
  number = DayNumber(year, month, day)
=============================================================================
