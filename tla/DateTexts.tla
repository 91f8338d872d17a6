------------------------------ MODULE DateTexts ------------------------------
(***************************************************************************)
(* strtool.c: the checks of dates and times given as text.  They get no    *)
(* length: isDigit and memcpy may run past the end of a text that is too   *)
(* short, into whatever the memory holds there.                            *)
(***************************************************************************)
EXTENDS Calendar, Sequences, SequencesExt

CONSTANTS
  NUL,     \* the end of a text
  Slash,   \* a character that is neither a figure nor NUL
  Behind   \* what the memory holds behind the NUL

Figures == 0..9

ASSUME DateTextsAssumption == NUL \notin Figures /\ Slash \notin Figures /\ NUL # Slash

(* Character n, from 0, of the memory that starts with the text s. *)
Str(s, n) ==
  IF n < Len(s) THEN s[n + 1] ELSE IF n = Len(s) THEN NUL ELSE Behind

(* memcpy into an array that was cleared: the text ends at the first NUL. *)
memcpy(s, from, n) ==
  LET ends == SelectInSeq([k \in 1..n |-> Str(s, from + k - 1)], LAMBDA c : c = NUL)
  IN  [k \in 1..(IF ends = 0 THEN n ELSE ends - 1) |-> Str(s, from + k - 1)]

AllDigits(s, n) == \A k \in 0..(n - 1) : Str(s, k) \in Figures

Number(s, k) == 10 * s[k] + s[k + 1]

isDate(s) ==
  /\ AllDigits(s, 8) /\ Len(s) = 8
  /\ isDay(100 * Number(s, 1) + Number(s, 3), Number(s, 5), Number(s, 7))

isTime(s) ==
  /\ AllDigits(s, 6) /\ Len(s) = 6
  /\ Number(s, 1) \in 0..23 /\ Number(s, 3) \in 0..59 /\ Number(s, 5) \in 0..59

isDatetime(s) == isDate(memcpy(s, 0, 8)) /\ isTime(memcpy(s, 8, 6))

(* A deliberate mistake, as in Calendar: the day is taken from behind one separator. *)
BugisDateFmt(s) ==
  Len(s) = 10 /\ isDate(memcpy(s, 0, 4) \o memcpy(s, 5, 2) \o memcpy(s, 7, 2))

isDateFmt(s) ==
  Len(s) = 10 /\ isDate(memcpy(s, 0, 4) \o memcpy(s, 5, 2) \o memcpy(s, 8, 2))

isTimeFmt(s) ==
  Len(s) = 8 /\ isTime(memcpy(s, 0, 2) \o memcpy(s, 3, 2) \o memcpy(s, 6, 2))
-----------------------------------------------------------------------------
Decimal(n) == <<n \div 10, n % 10>>

(* The time that goes with the date of the walk; it need not exist. *)
TimeExists == day < 24 /\ 5 * month < 60 /\ 58 + (year % 3) < 60

(* The days the text checks have to accept. *)
Accepted(y, m, d) == DayExists(y, m, d) \/ ExtraDay(y, m, d)

(* What the checks say of the day d of the month the walk has come to. *)
AgreeOnDay(d) ==
  LET yyyy   == Decimal(year \div 100) \o Decimal(year % 100)
      mm     == Decimal(month)
      dd     == Decimal(d)
      digits == yyyy \o mm \o dd \o Decimal(day) \o Decimal(5 * month)
                  \o Decimal(58 + (year % 3))
  IN  /\ isDateFmt(yyyy \o <<Slash>> \o mm \o <<Slash>> \o dd) <=> Accepted(year, month, d)
      /\ isDatetime(digits) <=> Accepted(year, month, d) /\ TimeExists
      /\ \A n \in 1..13 : ~isDatetime(SubSeq(digits, 1, n))

(* The checks of dates given as text agree with the calendar, counted in    *)
(* days, on the date the walk has come to and on the day after it, which     *)
(* need not exist: as text it is a date, also with separators, exactly when  *)
(* its month is that long, and 3000/02/29 is one too; with the time          *)
(* day : 5 * month : 58 + year % 3 behind it, which need not exist either,   *)
(* it is a date and time when both exist.  A text that is cut short is never *)
(* accepted, although the checks read beyond its end and may find figures    *)
(* there.                                                                    *)
DateFormatsAgree ==
  /\ isTimeFmt(Decimal(day) \o <<Slash>> \o Decimal(5 * month) \o <<Slash>>
                 \o Decimal(58 + (year % 3))) <=> TimeExists
  /\ \A d \in {day, day + 1} : AgreeOnDay(d)
=============================================================================
