---------------------------- MODULE FunctionProofs ----------------------------
(***************************************************************************)
(* Proofs about the functions that keep no state between calls, one        *)
(* section for each: packets of every length with plain header bytes,      *)
(* dates of every range of years below 3000 as numbers and as text, and    *)
(* texts, environments and files of any size.  What a recursive function   *)
(* computes is found with AllNumbers, for the set of the numbers for which *)
(* it is right.                                                            *)
(***************************************************************************)
EXTENDS MCFunctions, SequenceLemmas

-----------------------------------------------------------------------------
(* testpacket *)

PlainBytes == \A n \in Lengths : High(n) < 128 /\ Low(n) < 128

(* The buffer never holds more than the current packet, and its second      *)
(* byte is the current low byte once that has arrived.                     *)
BufferInv ==
  /\ len \in Lengths
  /\ received \in 0..(len + HEADER_LEN)
  /\ buf1 \in 0..127
  /\ received >= 2 => buf1 = Low(len)

LEMMA Division ==
  ASSUME NEW n \in Nat, NEW q \in Nat, NEW r \in Nat, q = n \div 256, r = n % 256
  PROVE  n = q * 256 + r
OBVIOUS

(* A length is rebuilt from its bytes. *)
LEMMA HeaderBytes ==
  ASSUME NEW n \in Nat
  PROVE  /\ High(n) \in Nat /\ Low(n) \in 0..255
         /\ n = High(n) * 256 + Low(n)
<1>1. High(n) \in Nat
  BY DEF High
<1>2. Low(n) \in 0..255
  BY DEF Low
<1> QED
  BY <1>1, <1>2, Division DEF High, Low

LEMMA LengthsNat == \A n \in Lengths : n \in Nat
BY PacketReaderAssumption

LEMMA PlainByte ==
  ASSUME PlainBytes, NEW n \in Lengths
  PROVE  High(n) \in 0..127 /\ Low(n) \in 0..127
<1>0. n \in Nat
  BY LengthsNat
<1>1. High(n) \in Nat /\ Low(n) \in 0..255
  BY <1>0, HeaderBytes
<1>2. High(n) < 128 /\ Low(n) < 128
  BY DEF PlainBytes
<1> QED
  BY <1>1, <1>2

LEMMA BufferInvInit == ASSUME PlainBytes PROVE ReaderInit => BufferInv
<1> SUFFICES ASSUME ReaderInit PROVE BufferInv
  OBVIOUS
<1>1. len \in Nat /\ len \in Lengths /\ received = 0 /\ buf1 = 0
  BY LengthsNat DEF ReaderInit
<1> QED
  BY <1>1 DEF BufferInv, HEADER_LEN

LEMMA BufferInvNext ==
  ASSUME PlainBytes
  PROVE  BufferInv /\ [ReaderNext]_readerVars => BufferInv'
<1> SUFFICES ASSUME BufferInv, [ReaderNext]_readerVars PROVE BufferInv'
  OBVIOUS
<1>a. len \in Nat /\ received \in Nat /\ received <= len + 2
  BY LengthsNat DEF BufferInv, HEADER_LEN
<1>1. CASE Receive
  <2>1. Low(len) \in 0..127
    BY PlainByte DEF BufferInv
  <2>2. received' = received + 1 /\ received < len + 2 /\ len' = len
    BY <1>1 DEF Receive, HEADER_LEN
  <2>3. received' \in 0..(len' + HEADER_LEN)
    BY <1>a, <2>2 DEF HEADER_LEN
  <2>4. buf1' \in 0..127
    BY <1>1, <1>a, <2>1 DEF Receive, BufferInv
  <2>5. received' >= 2 => buf1' = Low(len')
    BY <1>1, <1>a, <2>2 DEF Receive, BufferInv
  <2> QED
    BY <2>2, <2>3, <2>4, <2>5 DEF BufferInv
<1>2. CASE NextPacket
  <2>1. len' \in Lengths /\ received' = 0 /\ buf1' = buf1
    BY <1>2 DEF NextPacket
  <2>2. len' \in Nat
    BY <2>1, LengthsNat
  <2>3. received' \in 0..(len' + HEADER_LEN)
    <3>1. \A k \in Nat : 0 \in 0..(k + 2)
      OBVIOUS
    <3> QED
      BY <2>1, <2>2, <3>1 DEF HEADER_LEN
  <2>4. buf1' \in 0..127
    BY <2>1 DEF BufferInv
  <2>5. ~(received' >= 2)
    BY <2>1
  <2> QED
    BY <2>1, <2>3, <2>4, <2>5 DEF BufferInv
<1>3. CASE UNCHANGED readerVars
  BY <1>3 DEF BufferInv, readerVars
<1> QED
  BY <1>1, <1>2, <1>3 DEF ReaderNext

LEMMA BufferInvVerdict == ASSUME PlainBytes PROVE BufferInv => VerdictCorrect
<1> SUFFICES ASSUME BufferInv, received > 0 PROVE
      CurrentVerdict = IF received = len + HEADER_LEN
                       THEN "DATA_COMPLETE" ELSE "DATA_CONTINUE"
  BY DEF VerdictCorrect
<1> DEFINE hi == High(len)
           announced == HeaderLength(hi, buf1)
<1>1. len \in Nat /\ received \in Nat /\ received > 0 /\ received <= len + 2
  BY LengthsNat DEF BufferInv, HEADER_LEN
<1>2. /\ hi \in 0..127 /\ Low(len) \in 0..127
      /\ len = hi * 256 + Low(len)
  BY <1>1, HeaderBytes, PlainByte DEF BufferInv
<1>3. buf1 \in 0..127 /\ (received >= 2 => buf1 = Low(len))
  BY DEF BufferInv
<1> HIDE DEF hi
<1>4. announced = hi * 256 + buf1
  BY <1>2, <1>3 DEF HeaderLength, SignedChar
<1>5. announced \in Nat
  BY <1>2, <1>3, <1>4
<1>6. CurrentVerdict = IF announced = received - 2 THEN "DATA_COMPLETE"
                       ELSE IF announced < received - 2 THEN "DATA_ERROR"
                       ELSE "DATA_CONTINUE"
  BY <1>1, <1>5 DEF CurrentVerdict, TestPacket, HEADER_LEN, hi
<1>7. CASE received = 1
  BY <1>1, <1>5, <1>6, <1>7 DEF HEADER_LEN
<1>8. CASE received >= 2
  <2>1. announced = len
    BY <1>2, <1>3, <1>4, <1>8
  <2> QED
    BY <1>1, <1>6, <1>8, <2>1 DEF HEADER_LEN
<1> QED
  BY <1>1, <1>7, <1>8

(* With header bytes below 128 the verdict is DATA_CONTINUE up to the last  *)
(* byte of a packet and DATA_COMPLETE with it, for all such lengths.       *)
THEOREM PlainVerdicts == ASSUME PlainBytes PROVE ReaderSpec => []VerdictCorrect
<1>1. ReaderInit => BufferInv
  BY BufferInvInit
<1>2. BufferInv /\ [ReaderNext]_readerVars => BufferInv'
  BY BufferInvNext
<1>3. BufferInv => VerdictCorrect
  BY BufferInvVerdict
<1> QED
  BY <1>1, <1>2, <1>3, PTL DEF ReaderSpec

-----------------------------------------------------------------------------
(* isDate *)

(* The extra condition Year%1000==0 adds no year between 1700 and 2999: the *)
(* only multiple of 1000 there is 2000, a multiple of 400.                  *)
LEMMA LeapRule ==
  ASSUME NEW y \in 1700..2999
  PROVE  isLeapYear(y) <=> (y % 4 = 0 /\ y % 100 # 0) \/ y % 400 = 0
  BY DEF isLeapYear

(* A leap year adds one day to the count of leap days, other years none. *)
LEMMA LeapStep ==
  ASSUME NEW y \in Nat, 1700 <= y, y <= 2999
  PROVE  LeapDaysUpTo(y) - LeapDaysUpTo(y - 1) = IF isLeapYear(y) THEN 1 ELSE 0
  <1>1. (y \div 4) - ((y - 1) \div 4) = IF y % 4 = 0 THEN 1 ELSE 0
    OBVIOUS
  <1>2. (y \div 100) - ((y - 1) \div 100) = IF y % 100 = 0 THEN 1 ELSE 0
    OBVIOUS
  <1>3. (y \div 400) - ((y - 1) \div 400) = IF y % 400 = 0 THEN 1 ELSE 0
    OBVIOUS
  <1>4. (y % 100 = 0 => y % 4 = 0) /\ (y % 400 = 0 => y % 100 = 0)
    OBVIOUS
  <1>5. /\ y \div 4 \in Int /\ (y - 1) \div 4 \in Int
        /\ y \div 100 \in Int /\ (y - 1) \div 100 \in Int
        /\ y \div 400 \in Int /\ (y - 1) \div 400 \in Int
    OBVIOUS
  <1> QED
    BY <1>1, <1>2, <1>3, <1>4, <1>5, LeapRule DEF LeapDaysUpTo

LEMMA LeapDaysInteger ==
  ASSUME NEW y \in Nat
  PROVE  LeapDaysUpTo(y) \in Int
  BY DEF LeapDaysUpTo

(* The first of a month is the day after the last of the month before. *)
LEMMA MonthStep ==
  ASSUME NEW y \in Nat, NEW m \in Nat, y \in 1700..2999, m \in 1..11
  PROVE  DayNumber(y, m + 1, 1) = DayNumber(y, m, mxday_month(y, m)) + 1
  <1>1. isYear(y) /\ isMonth(m)
    BY DEF isYear, isMonth
  <1>2. /\ LeapDaysUpTo(y) - LeapDaysUpTo(y - 1) = IF isLeapYear(y) THEN 1 ELSE 0
        /\ LeapDaysUpTo(y) \in Int /\ LeapDaysUpTo(y - 1) \in Int
    <2>1. y \in Nat /\ y - 1 \in Nat
      OBVIOUS
    <2>2. LeapDaysUpTo(y) \in Int /\ LeapDaysUpTo(y - 1) \in Int
      BY <2>1, LeapDaysInteger
    <2>3. LeapDaysUpTo(y) - LeapDaysUpTo(y - 1) = IF isLeapYear(y) THEN 1 ELSE 0
      <3>1. 1700 <= y /\ y <= 2999
        OBVIOUS
      <3> QED
        BY <3>1, LeapStep
    <2> QED
      BY <2>2, <2>3
  <1>3. CASE m = 1
    BY <1>1, <1>2, <1>3 DEF DayNumber, mxday_month, DaysOf, DaysBeforeMonth
  <1>4. CASE m = 2
    BY <1>1, <1>2, <1>4 DEF DayNumber, mxday_month, DaysOf, DaysBeforeMonth
  <1>5. CASE m \in 3..11
    <2>1. mxday_month(y, m) = DaysOf[m]
      BY <1>1, <1>5 DEF mxday_month, DaysOf
    <2>2. DaysBeforeMonth[m + 1] = DaysBeforeMonth[m] + DaysOf[m]
      BY <1>5 DEF DaysBeforeMonth, DaysOf
    <2>3. DaysBeforeMonth[m] \in Int /\ DaysOf[m] \in Int
      BY <1>5 DEF DaysBeforeMonth, DaysOf
    <2> QED
      BY <1>2, <1>5, <2>1, <2>2, <2>3 DEF DayNumber
  <1> QED
    BY <1>3, <1>4, <1>5

(* The first of January is the day after the 31 December before. *)
LEMMA YearStep ==
  ASSUME NEW y \in 1700..2999
  PROVE  DayNumber(y + 1, 1, 1) = DayNumber(y, 12, mxday_month(y, 12)) + 1
  <1>1. mxday_month(y, 12) = 31
    BY DEF mxday_month, DaysOf, isYear, isMonth
  <1>2. LeapDaysUpTo(y) \in Int
    BY LeapDaysInteger
  <1> QED
    BY <1>1, <1>2 DEF DayNumber, DaysBeforeMonth

-----------------------------------------------------------------------------
(* The walk stays within the calendar. *)
InCalendar ==
  /\ year \in FirstYear..LastYear
  /\ month \in 1..12
  /\ day \in 1..mxday_month(year, month)

CalendarInv == InCalendar /\ DatesAreDays

LEMMA MonthLength ==
  ASSUME NEW y \in Nat, NEW m \in Nat, y \in 1700..2999, m \in 1..12
  PROVE  mxday_month(y, m) \in Nat /\ mxday_month(y, m) >= 28
  BY DEF mxday_month, DaysOf, isYear, isMonth

LEMMA NoMonthZero ==
  ASSUME NEW y \in Int, NEW m \in Int, isDay(y, m, 1)
  PROVE  m \in 1..12
  BY DEF isDay, mxday_month, isMonth

LEMMA CalendarInvInit ==
  ASSUME LastYear < 3000, CalendarInit
  PROVE  CalendarInv
  <1>1. year \in 1700..2999 /\ year \in FirstYear..LastYear
    BY CalendarAssumption DEF CalendarInit
  <1>2. mxday_month(year, 1) \in Nat /\ mxday_month(year, 1) >= 28
    <2>1. 1 \in 1..12
      OBVIOUS
    <2> QED
      BY <1>1, <2>1, MonthLength
  <1>3. month \in 1..12 /\ day \in 1..mxday_month(year, month)
    BY <1>2 DEF CalendarInit
  <1> QED
    BY <1>1, <1>3 DEF CalendarInit, CalendarInv, InCalendar, DatesAreDays

LEMMA CalendarInvNext ==
  ASSUME LastYear < 3000, CalendarInv, CalendarNext
  PROVE  CalendarInv'
  <1> USE DEF CalendarInv, InCalendar, DatesAreDays
  <1>1. year \in 1700..2999 /\ month \in 1..12 /\ FirstYear \in Nat /\ LastYear \in Nat
    BY CalendarAssumption
  <1>2. mxday_month(year, month) \in Nat /\ day \in Nat
    <2>1. mxday_month(year, month) \in Nat
      BY <1>1, MonthLength
    <2> QED
      BY <2>1
  <1>3. DaysBeforeMonth[month] \in Int /\ DaysBeforeMonth \in [1..12 -> Int]
    BY <1>1 DEF DaysBeforeMonth
  <1>4. LeapDaysUpTo(year) \in Int /\ LeapDaysUpTo(year - 1) \in Int
    <2>1. year \in Nat /\ year - 1 \in Nat
      BY <1>1
    <2> QED
      BY <2>1, LeapDaysInteger
  <1>5. CASE isDay(year, month, day + 1) /\ day' = day + 1 /\ UNCHANGED <<year, month>>
    <2>1. day' \in 1..mxday_month(year', month')
      BY <1>1, <1>2, <1>5 DEF isDay
    <2>2. DayNumber(year, month, day + 1) = DayNumber(year, month, day) + 1
      BY <1>1, <1>2, <1>3, <1>4 DEF DayNumber
    <2> QED
      BY <1>5, <2>1, <2>2 DEF CalendarNext, NextDate
  <1>6. ~isDay(year, month, day + 1) => day = mxday_month(year, month)
    BY <1>1, <1>2 DEF isDay
  <1>7. CASE /\ ~isDay(year, month, day + 1) /\ isDay(year, month + 1, 1)
             /\ month' = month + 1 /\ day' = 1 /\ UNCHANGED year
    <2>1. month \in 1..11
      BY <1>1, <1>7, NoMonthZero
    <2>2. month + 1 \in 1..12 /\ day = mxday_month(year, month)
      BY <1>6, <1>7, <2>1
    <2>3. mxday_month(year, month + 1) \in Nat /\ mxday_month(year, month + 1) >= 28
      BY <1>1, <2>2, MonthLength
    <2>4. DayNumber(year, month + 1, 1) = DayNumber(year, month, day) + 1
      BY <1>1, <2>1, <2>2, MonthStep
    <2> QED
      BY <1>7, <2>2, <2>3, <2>4 DEF CalendarNext, NextDate
  <1>8. CASE /\ ~isDay(year, month, day + 1) /\ ~isDay(year, month + 1, 1)
             /\ year < LastYear /\ isDay(year + 1, 1, 1)
             /\ year' = year + 1 /\ month' = 1 /\ day' = 1
    <2>1. month = 12
      <3> SUFFICES ASSUME month \in 1..11 PROVE FALSE
        BY <1>1
      <3>1. month + 1 \in 1..12
        OBVIOUS
      <3>2. mxday_month(year, month + 1) \in Nat /\ mxday_month(year, month + 1) >= 28
        BY <1>1, <3>1, MonthLength
      <3> QED
        BY <1>8, <3>2 DEF isDay
    <2>2. year + 1 \in 1700..2999 /\ year + 1 \in FirstYear..LastYear
      BY <1>1, <1>8
    <2>3. mxday_month(year + 1, 1) \in Nat /\ mxday_month(year + 1, 1) >= 28
      BY <2>2, MonthLength
    <2>4. DayNumber(year + 1, 1, 1) = DayNumber(year, month, day) + 1
      BY <1>1, <1>6, <1>8, <2>1, YearStep
    <2> QED
      BY <1>8, <2>2, <2>3, <2>4 DEF CalendarNext, NextDate
  <1> QED
    BY <1>5, <1>7, <1>8 DEF CalendarNext, NextDate

(* Whatever years the walk covers, as long as it stays below 3000: isDate   *)
(* accepts every day of the calendar and nothing else.                      *)
THEOREM CalendarCorrect ==
  ASSUME LastYear < 3000
  PROVE  CalendarSpec => []DatesAreDays
  <1>1. CalendarInit => CalendarInv
    BY CalendarInvInit
  <1>2. CalendarInv /\ [CalendarNext]_calendarVars => CalendarInv'
    <2>1. CASE CalendarNext
      BY <2>1, CalendarInvNext
    <2>2. CASE UNCHANGED calendarVars
      BY <2>2 DEF calendarVars, CalendarInv, InCalendar, DatesAreDays
    <2> QED
      BY <2>1, <2>2
  <1>3. CalendarInv => DatesAreDays
    BY DEF CalendarInv
  <1> QED
    BY <1>1, <1>2, <1>3, PTL DEF CalendarSpec

-----------------------------------------------------------------------------
(* Dates as texts *)

(* The characters of the texts: no NUL among them. *)
Plain == Figures \cup {Slash}

(* No text of the walk contains a NUL.                                       *)
LEMMA PlainText ==
  ASSUME NEW s \in Seq(Plain)
  PROVE  /\ Len(s) \in Nat
         /\ \A k \in 1..Len(s) : s[k] \in Plain /\ s[k] # NUL
<1>1. Len(s) \in Nat /\ \A k \in 1..Len(s) : s[k] \in Plain
  BY LenProperties, ElementOfSeq
<1>2. NUL \notin Plain
  BY DateTextsAssumption DEF Plain
<1> QED
  BY <1>1, <1>2

(* What memcpy takes from the middle of a text. *)
LEMMA MemcpyInside ==
  ASSUME NEW s \in Seq(Plain), NEW from \in Nat, NEW n \in Nat, from + n <= Len(s)
  PROVE  /\ memcpy(s, from, n) \in Seq(Plain) /\ Len(memcpy(s, from, n)) = n
         /\ \A k \in 1..n : memcpy(s, from, n)[k] = s[from + k]
<1>1. Len(s) \in Nat /\ \A k \in 1..Len(s) : s[k] \in Plain /\ s[k] # NUL
  BY PlainText
<1>2. PICK q : q = [k \in 1..n |-> Str(s, from + k - 1)]
  OBVIOUS
<1>3. ASSUME NEW k \in 1..n PROVE q[k] = s[from + k] /\ q[k] \in Plain /\ q[k] # NUL
  <2>1. from + k \in 1..Len(s) /\ from + k - 1 < Len(s) /\ from + k - 1 + 1 = from + k
    BY <1>1
  <2> QED
    BY <1>1, <1>2, <2>1 DEF Str
<1>4. q \in Seq(Plain) /\ Len(q) = n
  <2>1. q \in [1..n -> Plain]
    BY <1>2, <1>3
  <2> QED
    BY <2>1
<1>5. SelectInSeq(q, LAMBDA c : c = NUL) = 0
  <2>1. {pos \in 1..Len(q) : q[pos] = NUL} = {}
    BY <1>3, <1>4
  <2> QED
    BY <2>1 DEF SelectInSeq
<1>6. memcpy(s, from, n) = q
  BY <1>2, <1>5 DEF memcpy
<1> QED
  BY <1>3, <1>4, <1>6

(* Near the end of a text it stops at the NUL. *)
LEMMA MemcpyAtEnd ==
  ASSUME NEW s \in Seq(Plain), NEW from \in Nat, NEW n \in Nat,
         from <= Len(s), Len(s) < from + n
  PROVE  Len(memcpy(s, from, n)) = Len(s) - from
<1>1. Len(s) \in Nat /\ \A k \in 1..Len(s) : s[k] \in Plain /\ s[k] # NUL
  BY PlainText
<1>2. PICK q : q = [k \in 1..n |-> Str(s, from + k - 1)]
  OBVIOUS
<1>3. PICK e \in Nat : e = Len(s) - from + 1 /\ e - 1 = Len(s) - from
  <2>1. Len(s) - from + 1 \in Nat /\ (Len(s) - from + 1) - 1 = Len(s) - from
    BY <1>1
  <2> QED
    BY <2>1
<1>4. e \in 1..n /\ q[e] = NUL
  <2>1. e \in 1..n /\ from + e - 1 = Len(s) /\ ~(from + e - 1 < Len(s))
    BY <1>1, <1>3
  <2> QED
    BY <1>2, <2>1 DEF Str
<1>5. ASSUME NEW k \in 1..n, k < e PROVE q[k] # NUL
  <2>1. from + k \in 1..Len(s) /\ from + k - 1 < Len(s) /\ from + k - 1 + 1 = from + k
    BY <1>1, <1>3, <1>5
  <2> QED
    BY <1>1, <1>2, <2>1 DEF Str
<1>6. Len(q) = n
  <2>1. DOMAIN q = 1..n
    BY <1>2
  <2> QED
    BY <2>1
<1>7. PICK I : I = {pos \in 1..Len(q) : q[pos] = NUL}
  OBVIOUS
<1>8. I \in SUBSET Nat /\ e \in I /\ \A pos \in I : ~ pos < e
  BY <1>4, <1>5, <1>6, <1>7
<1>9. Min(I) = e
  <2>1. Min(I) \in I /\ \A y \in I : Min(I) <= y
    BY <1>8, MinIsLeast
  <2>2. Min(I) \in Nat /\ Min(I) <= e /\ ~ Min(I) < e
    BY <1>8, <2>1
  <2> QED
    BY <2>2
<1>10. SelectInSeq(q, LAMBDA c : c = NUL) = e
  BY <1>7, <1>8, <1>9 DEF SelectInSeq
<1>11. memcpy(s, from, n) = [k \in 1..(e - 1) |-> Str(s, from + k - 1)]
  <2>1. e # 0
    BY <1>4
  <2> QED
    BY <1>2, <1>10, <2>1 DEF memcpy
<1>12. Len(memcpy(s, from, n)) = e - 1
  <2>1. e - 1 \in Nat
    BY <1>4
  <2>2. DOMAIN memcpy(s, from, n) = 1..(e - 1)
    BY <1>11
  <2> QED
    BY <1>11, <2>1, <2>2
<1> QED
  BY <1>3, <1>12

(* What the checks read from the figures of a text. *)
Two(a, b) == 10 * a + b
IsDay(yy, y, m, d) == isDay(100 * yy + y, m, d)
IsClock(hour, minute, second) == hour \in 0..23 /\ minute \in 0..59 /\ second \in 0..59

(* The two figures of a number. *)
LEMMA TwoFigures ==
  ASSUME NEW n \in Nat, n < 100
  PROVE  \E a, b \in Figures : Decimal(n) = <<a, b>> /\ Two(a, b) = n
<1>1. n \div 10 \in 0..9 /\ n % 10 \in 0..9 /\ 10 * (n \div 10) + (n % 10) = n
  OBVIOUS
<1> QED
  BY <1>1 DEF Decimal, Figures, Two

(* A text of figures is a date or a time by the numbers in it. *)
LEMMA DateOfFigures ==
  ASSUME NEW s \in Seq(Plain), Len(s) = 8, \A k \in 1..8 : s[k] \in Figures
  PROVE  isDate(s) <=>
           IsDay(Two(s[1], s[2]), Two(s[3], s[4]), Two(s[5], s[6]), Two(s[7], s[8]))
<1>1. AllDigits(s, 8)
  <2> SUFFICES ASSUME NEW k \in 0..(8 - 1) PROVE Str(s, k) \in Figures
    BY DEF AllDigits
  <2>1. k < 8 /\ k + 1 \in 1..8
    OBVIOUS
  <2> QED
    BY <2>1 DEF Str
<1> QED
  BY <1>1 DEF isDate, Number, IsDay, Two

LEMMA TimeOfFigures ==
  ASSUME NEW s \in Seq(Plain), Len(s) = 6, \A k \in 1..6 : s[k] \in Figures
  PROVE  isTime(s) <=>
           IsClock(Two(s[1], s[2]), Two(s[3], s[4]), Two(s[5], s[6]))
<1>1. AllDigits(s, 6)
  <2> SUFFICES ASSUME NEW k \in 0..(6 - 1) PROVE Str(s, k) \in Figures
    BY DEF AllDigits
  <2>1. k < 6 /\ k + 1 \in 1..6
    OBVIOUS
  <2> QED
    BY <2>1 DEF Str
<1> QED
  BY <1>1 DEF isTime, Number, IsClock, Two

(* Fourteen figures: a date and a time; eight or ten with separators.        *)
LEMMA DatetimeOfText ==
  ASSUME NEW t \in Seq(Plain), Len(t) = 14, Range(t) \subseteq Figures
  PROVE  isDatetime(t) <=>
           /\ IsDay(Two(t[1], t[2]), Two(t[3], t[4]), Two(t[5], t[6]), Two(t[7], t[8]))
           /\ IsClock(Two(t[9], t[10]), Two(t[11], t[12]), Two(t[13], t[14]))
<1>0. \A k \in 1..14 : t[k] \in Figures
  BY LenProperties DEF Range
<1>1. PICK u : u = memcpy(t, 0, 8)
  OBVIOUS
<1>2. PICK w : w = memcpy(t, 8, 6)
  OBVIOUS
<1>3. u \in Seq(Plain) /\ Len(u) = 8 /\ \A k \in 1..8 : u[k] = t[0 + k]
  <2>1. 0 \in Nat /\ 8 \in Nat /\ 0 + 8 <= Len(t)
    OBVIOUS
  <2> QED
    BY <1>1, <2>1, MemcpyInside
<1>4. w \in Seq(Plain) /\ Len(w) = 6 /\ \A k \in 1..6 : w[k] = t[8 + k]
  <2>1. 8 \in Nat /\ 6 \in Nat /\ 8 + 6 <= Len(t)
    OBVIOUS
  <2> QED
    BY <1>2, <2>1, MemcpyInside
<1>5. /\ u[1] = t[1] /\ u[2] = t[2] /\ u[3] = t[3] /\ u[4] = t[4]
      /\ u[5] = t[5] /\ u[6] = t[6] /\ u[7] = t[7] /\ u[8] = t[8]
      /\ \A k \in 1..8 : u[k] \in Figures
  BY <1>0, <1>3
<1>6. /\ w[1] = t[9] /\ w[2] = t[10] /\ w[3] = t[11]
      /\ w[4] = t[12] /\ w[5] = t[13] /\ w[6] = t[14]
      /\ \A k \in 1..6 : w[k] \in Figures
  BY <1>0, <1>4
<1>7. isDate(u) <=>
        IsDay(Two(u[1], u[2]), Two(u[3], u[4]), Two(u[5], u[6]), Two(u[7], u[8]))
  BY <1>3, <1>5, DateOfFigures
<1>8. isTime(w) <=>
        IsClock(Two(w[1], w[2]), Two(w[3], w[4]), Two(w[5], w[6]))
  BY <1>4, <1>6, TimeOfFigures
<1>9. isDatetime(t) <=> isDate(u) /\ isTime(w)
  BY <1>1, <1>2 DEF isDatetime
<1> QED
  BY <1>5, <1>6, <1>7, <1>8, <1>9

(* One figure too few, and one of the two parts ends at the NUL.             *)
LEMMA ShortIsNoDatetime ==
  ASSUME NEW t \in Seq(Plain), Len(t) <= 13
  PROVE  ~isDatetime(t)
<1>1. PICK n \in Nat : n = Len(t)
  BY LenProperties
<1>2. n <= 13
  BY <1>1
<1>3. CASE n < 8
  <2>1. 0 \in Nat /\ 8 \in Nat /\ 0 <= n /\ n < 0 + 8 /\ n - 0 # 8
    BY <1>3
  <2>2. Len(memcpy(t, 0, 8)) = n - 0
    BY <1>1, <2>1, MemcpyAtEnd
  <2>3. Len(memcpy(t, 0, 8)) # 8
    BY <2>1, <2>2, Zenon
  <2> QED
    BY <2>3, Zenon DEF isDatetime, isDate
<1>4. CASE ~ n < 8
  <2>1. 8 \in Nat /\ 6 \in Nat /\ 8 <= n /\ n < 8 + 6 /\ n - 8 # 6
    BY <1>2, <1>4
  <2>2. Len(memcpy(t, 8, 6)) = n - 8
    BY <1>1, <2>1, MemcpyAtEnd
  <2>3. Len(memcpy(t, 8, 6)) # 6
    BY <2>1, <2>2, Zenon
  <2> QED
    BY <2>3, Zenon DEF isDatetime, isTime
<1> QED
  BY <1>3, <1>4

LEMMA DateFmtOfText ==
  ASSUME NEW t \in Seq(Plain), Len(t) = 10,
         {t[1], t[2], t[3], t[4], t[6], t[7], t[9], t[10]} \subseteq Figures
  PROVE  isDateFmt(t) <=>
           IsDay(Two(t[1], t[2]), Two(t[3], t[4]), Two(t[6], t[7]), Two(t[9], t[10]))
<1>1. PICK a : a = memcpy(t, 0, 4)
  OBVIOUS
<1>2. PICK b : b = memcpy(t, 5, 2)
  OBVIOUS
<1>3. PICK c : c = memcpy(t, 8, 2)
  OBVIOUS
<1>4. a \in Seq(Plain) /\ Len(a) = 4 /\ \A k \in 1..4 : a[k] = t[0 + k]
  <2>1. 0 \in Nat /\ 4 \in Nat /\ 0 + 4 <= Len(t)
    OBVIOUS
  <2> QED
    BY <1>1, <2>1, MemcpyInside
<1>5. b \in Seq(Plain) /\ Len(b) = 2 /\ \A k \in 1..2 : b[k] = t[5 + k]
  <2>1. 5 \in Nat /\ 2 \in Nat /\ 5 + 2 <= Len(t)
    OBVIOUS
  <2> QED
    BY <1>2, <2>1, MemcpyInside
<1>6. c \in Seq(Plain) /\ Len(c) = 2 /\ \A k \in 1..2 : c[k] = t[8 + k]
  <2>1. 8 \in Nat /\ 2 \in Nat /\ 8 + 2 <= Len(t)
    OBVIOUS
  <2> QED
    BY <1>3, <2>1, MemcpyInside
<1>7. PICK ab : ab = a \o b
  OBVIOUS
<1>8. /\ ab \in Seq(Plain) /\ Len(ab) = 6
      /\ ab[1] = t[1] /\ ab[2] = t[2] /\ ab[3] = t[3] /\ ab[4] = t[4]
      /\ ab[5] = t[6] /\ ab[6] = t[7]
  <2>0. a \in Seq(Plain) /\ b \in Seq(Plain)
    BY <1>4, <1>5
  <2>1. /\ ab \in Seq(Plain) /\ Len(ab) = Len(a) + Len(b)
        /\ \A k \in 1..Len(a) : ab[k] = a[k]
        /\ \A k \in 1..Len(b) : ab[Len(a) + k] = b[k]
    BY <1>7, <2>0, ConcatElements
  <2>2. ab[4 + 1] = b[1] /\ ab[4 + 2] = b[2]
    BY <1>4, <1>5, <2>1
  <2> QED
    BY <1>4, <1>5, <2>1, <2>2
<1>9. PICK u : u = ab \o c
  OBVIOUS
<1>10. /\ u \in Seq(Plain) /\ Len(u) = 8
       /\ u[1] = t[1] /\ u[2] = t[2] /\ u[3] = t[3] /\ u[4] = t[4]
       /\ u[5] = t[6] /\ u[6] = t[7] /\ u[7] = t[9] /\ u[8] = t[10]
  <2>0. ab \in Seq(Plain) /\ c \in Seq(Plain)
    BY <1>6, <1>8
  <2>1. /\ u \in Seq(Plain) /\ Len(u) = Len(ab) + Len(c)
        /\ \A k \in 1..Len(ab) : u[k] = ab[k]
        /\ \A k \in 1..Len(c) : u[Len(ab) + k] = c[k]
    BY <1>9, <2>0, ConcatElements
  <2>2. u[6 + 1] = c[1] /\ u[6 + 2] = c[2]
    BY <1>6, <1>8, <2>1
  <2> QED
    BY <1>6, <1>8, <2>1, <2>2
<1>11. \A k \in 1..8 : u[k] \in Figures
  BY <1>10
<1>12. isDate(u) <=>
         IsDay(Two(u[1], u[2]), Two(u[3], u[4]), Two(u[5], u[6]), Two(u[7], u[8]))
  BY <1>10, <1>11, DateOfFigures
<1>13. isDateFmt(t) <=> isDate(u)
  BY <1>1, <1>2, <1>3, <1>7, <1>9 DEF isDateFmt
<1> QED
  BY <1>10, <1>12, <1>13

LEMMA TimeFmtOfText ==
  ASSUME NEW t \in Seq(Plain), Len(t) = 8,
         {t[1], t[2], t[4], t[5], t[7], t[8]} \subseteq Figures
  PROVE  isTimeFmt(t) <=>
           IsClock(Two(t[1], t[2]), Two(t[4], t[5]), Two(t[7], t[8]))
<1>1. PICK a : a = memcpy(t, 0, 2)
  OBVIOUS
<1>2. PICK b : b = memcpy(t, 3, 2)
  OBVIOUS
<1>3. PICK c : c = memcpy(t, 6, 2)
  OBVIOUS
<1>4. a \in Seq(Plain) /\ Len(a) = 2 /\ \A k \in 1..2 : a[k] = t[0 + k]
  <2>1. 0 \in Nat /\ 2 \in Nat /\ 0 + 2 <= Len(t)
    OBVIOUS
  <2> QED
    BY <1>1, <2>1, MemcpyInside
<1>5. b \in Seq(Plain) /\ Len(b) = 2 /\ \A k \in 1..2 : b[k] = t[3 + k]
  <2>1. 3 \in Nat /\ 2 \in Nat /\ 3 + 2 <= Len(t)
    OBVIOUS
  <2> QED
    BY <1>2, <2>1, MemcpyInside
<1>6. c \in Seq(Plain) /\ Len(c) = 2 /\ \A k \in 1..2 : c[k] = t[6 + k]
  <2>1. 6 \in Nat /\ 2 \in Nat /\ 6 + 2 <= Len(t)
    OBVIOUS
  <2> QED
    BY <1>3, <2>1, MemcpyInside
<1>7. PICK ab : ab = a \o b
  OBVIOUS
<1>8. /\ ab \in Seq(Plain) /\ Len(ab) = 4
      /\ ab[1] = t[1] /\ ab[2] = t[2] /\ ab[3] = t[4] /\ ab[4] = t[5]
  <2>0. a \in Seq(Plain) /\ b \in Seq(Plain)
    BY <1>4, <1>5
  <2>1. /\ ab \in Seq(Plain) /\ Len(ab) = Len(a) + Len(b)
        /\ \A k \in 1..Len(a) : ab[k] = a[k]
        /\ \A k \in 1..Len(b) : ab[Len(a) + k] = b[k]
    BY <1>7, <2>0, ConcatElements
  <2>2. ab[2 + 1] = b[1] /\ ab[2 + 2] = b[2]
    BY <1>4, <1>5, <2>1
  <2> QED
    BY <1>4, <1>5, <2>1, <2>2
<1>9. PICK u : u = ab \o c
  OBVIOUS
<1>10. /\ u \in Seq(Plain) /\ Len(u) = 6
       /\ u[1] = t[1] /\ u[2] = t[2] /\ u[3] = t[4] /\ u[4] = t[5]
       /\ u[5] = t[7] /\ u[6] = t[8]
  <2>0. ab \in Seq(Plain) /\ c \in Seq(Plain)
    BY <1>6, <1>8
  <2>1. /\ u \in Seq(Plain) /\ Len(u) = Len(ab) + Len(c)
        /\ \A k \in 1..Len(ab) : u[k] = ab[k]
        /\ \A k \in 1..Len(c) : u[Len(ab) + k] = c[k]
    BY <1>9, <2>0, ConcatElements
  <2>2. u[4 + 1] = c[1] /\ u[4 + 2] = c[2]
    BY <1>6, <1>8, <2>1
  <2> QED
    BY <1>6, <1>8, <2>1, <2>2
<1>11. \A k \in 1..6 : u[k] \in Figures
  BY <1>10
<1>12. isTime(u) <=>
         IsClock(Two(u[1], u[2]), Two(u[3], u[4]), Two(u[5], u[6]))
  BY <1>10, <1>11, TimeOfFigures
<1>13. isTimeFmt(t) <=> isTime(u)
  BY <1>1, <1>2, <1>3, <1>7, <1>9 DEF isTimeFmt
<1> QED
  BY <1>10, <1>12, <1>13

(* Six figures and two separators. *)
LEMMA TimeFormat ==
  ASSUME NEW h \in Nat, NEW mi \in Nat, NEW sec \in Nat, h < 100, mi < 100, sec < 100
  PROVE  isTimeFmt(Decimal(h) \o <<Slash>> \o Decimal(mi) \o <<Slash>> \o Decimal(sec))
           <=> IsClock(h, mi, sec)
<1>1. PICK h1, h2 \in Figures : Decimal(h) = <<h1, h2>> /\ Two(h1, h2) = h
  BY TwoFigures
<1>2. PICK i1, i2 \in Figures : Decimal(mi) = <<i1, i2>> /\ Two(i1, i2) = mi
  BY TwoFigures
<1>3. PICK s1, s2 \in Figures : Decimal(sec) = <<s1, s2>> /\ Two(s1, s2) = sec
  BY TwoFigures
<1>4. PICK t : t = Decimal(h) \o <<Slash>> \o Decimal(mi) \o <<Slash>> \o Decimal(sec)
  OBVIOUS
<1>5. t = <<h1, h2>> \o <<Slash>> \o <<i1, i2>> \o <<Slash>> \o <<s1, s2>>
  BY <1>1, <1>2, <1>3, <1>4
<1>6. Figures \subseteq Plain /\ Slash \in Plain
  BY DEF Plain
<1>7. /\ t \in Seq(Plain) /\ Len(t) = 8
      /\ t[1] = h1 /\ t[2] = h2 /\ t[4] = i1 /\ t[5] = i2 /\ t[7] = s1 /\ t[8] = s2
  BY <1>5, <1>6
<1>8. {t[1], t[2], t[4], t[5], t[7], t[8]} \subseteq Figures
  BY <1>7
<1>9. isTimeFmt(t) <=> IsClock(Two(t[1], t[2]), Two(t[4], t[5]), Two(t[7], t[8]))
  BY <1>7, <1>8, TimeFmtOfText
<1>10. Two(t[1], t[2]) = h /\ Two(t[4], t[5]) = mi /\ Two(t[7], t[8]) = sec
  BY <1>1, <1>2, <1>3, <1>7
<1> QED
  BY <1>4, <1>9, <1>10

LEMMA DateFormat ==
  ASSUME NEW p \in Nat, NEW q \in Nat, NEW m \in Nat, NEW d \in Nat,
         p < 100, q < 100, m < 100, d < 100
  PROVE  isDateFmt(Decimal(p) \o Decimal(q) \o <<Slash>> \o Decimal(m)
                     \o <<Slash>> \o Decimal(d))
           <=> IsDay(p, q, m, d)
<1>1. PICK y1, y2 \in Figures : Decimal(p) = <<y1, y2>> /\ Two(y1, y2) = p
  BY TwoFigures
<1>2. PICK y3, y4 \in Figures : Decimal(q) = <<y3, y4>> /\ Two(y3, y4) = q
  BY TwoFigures
<1>3. PICK m1, m2 \in Figures : Decimal(m) = <<m1, m2>> /\ Two(m1, m2) = m
  BY TwoFigures
<1>4. PICK d1, d2 \in Figures : Decimal(d) = <<d1, d2>> /\ Two(d1, d2) = d
  BY TwoFigures
<1>5. PICK t : t = Decimal(p) \o Decimal(q) \o <<Slash>> \o Decimal(m)
                     \o <<Slash>> \o Decimal(d)
  OBVIOUS
<1>6. t = <<y1, y2>> \o <<y3, y4>> \o <<Slash>> \o <<m1, m2>> \o <<Slash>> \o <<d1, d2>>
  BY <1>1, <1>2, <1>3, <1>4, <1>5
<1>7. Figures \subseteq Plain /\ Slash \in Plain
  BY DEF Plain
<1>8. /\ t \in Seq(Plain) /\ Len(t) = 10
      /\ t[1] = y1 /\ t[2] = y2 /\ t[3] = y3 /\ t[4] = y4
      /\ t[6] = m1 /\ t[7] = m2 /\ t[9] = d1 /\ t[10] = d2
  BY <1>6, <1>7
<1>9. {t[1], t[2], t[3], t[4], t[6], t[7], t[9], t[10]} \subseteq Figures
  BY <1>8
<1>10. isDateFmt(t) <=>
         IsDay(Two(t[1], t[2]), Two(t[3], t[4]), Two(t[6], t[7]), Two(t[9], t[10]))
  BY <1>8, <1>9, DateFmtOfText
<1>11. /\ Two(t[1], t[2]) = p /\ Two(t[3], t[4]) = q
       /\ Two(t[6], t[7]) = m /\ Two(t[9], t[10]) = d
  BY <1>1, <1>2, <1>3, <1>4, <1>8
<1> QED
  BY <1>5, <1>10, <1>11

LEMMA AllFourteen ==
  ASSUME NEW u \in Seq(Plain), Len(u) = 14,
         {u[1], u[2], u[3], u[4], u[5], u[6], u[7], u[8], u[9], u[10], u[11], u[12],
          u[13], u[14]} \subseteq Figures
  PROVE  Range(u) \subseteq Figures
<1>1. \A k \in 1..14 : u[k] \in Figures
  OBVIOUS
<1>2. DOMAIN u = 1..14
  BY LenProperties
<1> QED
  BY <1>1, <1>2 DEF Range

(* A date and time without separators. *)
Stamp(p, q, m, d, h, mi, sec) ==
  Decimal(p) \o Decimal(q) \o Decimal(m) \o Decimal(d)
    \o Decimal(h) \o Decimal(mi) \o Decimal(sec)

(* The same of the other formats of a date and a time.                       *)
LEMMA DatetimeFormat ==
  ASSUME NEW p \in Nat, NEW q \in Nat, NEW m \in Nat, NEW d \in Nat,
         NEW h \in Nat, NEW mi \in Nat, NEW sec \in Nat,
         p < 100, q < 100, m < 100, d < 100, h < 100, mi < 100, sec < 100
  PROVE  /\ Stamp(p, q, m, d, h, mi, sec) \in Seq(Plain)
         /\ Len(Stamp(p, q, m, d, h, mi, sec)) = 14
         /\ isDatetime(Stamp(p, q, m, d, h, mi, sec))
              <=> IsDay(p, q, m, d) /\ IsClock(h, mi, sec)
<1>0. PICK u : u = Stamp(p, q, m, d, h, mi, sec)
  OBVIOUS
<1>1. PICK y1, y2 \in Figures : Decimal(p) = <<y1, y2>> /\ Two(y1, y2) = p
  BY TwoFigures
<1>2. PICK y3, y4 \in Figures : Decimal(q) = <<y3, y4>> /\ Two(y3, y4) = q
  BY TwoFigures
<1>3. PICK m1, m2 \in Figures : Decimal(m) = <<m1, m2>> /\ Two(m1, m2) = m
  BY TwoFigures
<1>4. PICK d1, d2 \in Figures : Decimal(d) = <<d1, d2>> /\ Two(d1, d2) = d
  BY TwoFigures
<1>5. PICK h1, h2 \in Figures : Decimal(h) = <<h1, h2>> /\ Two(h1, h2) = h
  BY TwoFigures
<1>6. PICK i1, i2 \in Figures : Decimal(mi) = <<i1, i2>> /\ Two(i1, i2) = mi
  BY TwoFigures
<1>7. PICK s1, s2 \in Figures : Decimal(sec) = <<s1, s2>> /\ Two(s1, s2) = sec
  BY TwoFigures
<1>8. u = <<y1, y2>> \o <<y3, y4>> \o <<m1, m2>> \o <<d1, d2>>
            \o <<h1, h2>> \o <<i1, i2>> \o <<s1, s2>>
  BY <1>0, <1>1, <1>2, <1>3, <1>4, <1>5, <1>6, <1>7 DEF Stamp
<1>9. Figures \subseteq Plain
  BY DEF Plain
<1>10. /\ u \in Seq(Plain) /\ Len(u) = 14
       /\ u[1] = y1 /\ u[2] = y2 /\ u[3] = y3 /\ u[4] = y4 /\ u[5] = m1 /\ u[6] = m2
       /\ u[7] = d1 /\ u[8] = d2 /\ u[9] = h1 /\ u[10] = h2 /\ u[11] = i1 /\ u[12] = i2
       /\ u[13] = s1 /\ u[14] = s2
  BY <1>8, <1>9
<1>11. Range(u) \subseteq Figures
  <2>1. {u[1], u[2], u[3], u[4], u[5], u[6], u[7], u[8], u[9], u[10], u[11], u[12],
         u[13], u[14]} \subseteq Figures
    BY <1>10
  <2> QED
    BY <1>10, <2>1, AllFourteen
<1>12. isDatetime(u) <=>
         /\ IsDay(Two(u[1], u[2]), Two(u[3], u[4]), Two(u[5], u[6]), Two(u[7], u[8]))
         /\ IsClock(Two(u[9], u[10]), Two(u[11], u[12]), Two(u[13], u[14]))
  BY <1>10, <1>11, DatetimeOfText
<1>13. /\ Two(u[1], u[2]) = p /\ Two(u[3], u[4]) = q
       /\ Two(u[5], u[6]) = m /\ Two(u[7], u[8]) = d
  BY <1>1, <1>2, <1>3, <1>4, <1>10
<1>14. Two(u[9], u[10]) = h /\ Two(u[11], u[12]) = mi /\ Two(u[13], u[14]) = sec
  BY <1>5, <1>6, <1>7, <1>10
<1> QED
  BY <1>0, <1>10, <1>12, <1>13, <1>14

(* A text that is cut short is never a date and time. *)
LEMMA CutIsNoDatetime ==
  ASSUME NEW u \in Seq(Plain), Len(u) = 14, NEW n \in 1..13
  PROVE  ~isDatetime(SubSeq(u, 1, n))
<1>1. \A k \in 1..n : u[k] \in Plain
  <2>1. \A k \in 1..Len(u) : u[k] \in Plain
    BY PlainText
  <2> QED
    BY <2>1
<1>2. PICK v : v = SubSeq(u, 1, n)
  OBVIOUS
<1>3. n \in Int /\ 1 \in Int /\ 1 <= n /\ n - 1 + 1 = n /\ n <= 13
  OBVIOUS
<1>4. v \in Seq(Plain) /\ Len(v) = IF 1 <= n THEN n - 1 + 1 ELSE 0
  BY <1>1, <1>2, <1>3, SubSeqProperties
<1>5. Len(v) <= 13
  BY <1>3, <1>4
<1> QED
  BY <1>2, <1>4, <1>5, ShortIsNoDatetime

(* DateFormatsAgree of a year y of the figures p and q. *)
WellWritten(y, m, dd, p, q, mi, sec) ==
  /\ isTimeFmt(Decimal(dd) \o <<Slash>> \o Decimal(mi) \o <<Slash>> \o Decimal(sec))
       <=> IsClock(dd, mi, sec)
  /\ \A d \in {dd, dd + 1} :
       /\ isDateFmt(Decimal(p) \o Decimal(q) \o <<Slash>> \o Decimal(m)
                      \o <<Slash>> \o Decimal(d)) <=> isDay(y, m, d)
       /\ isDatetime(Stamp(p, q, m, d, dd, mi, sec))
            <=> isDay(y, m, d) /\ IsClock(dd, mi, sec)
       /\ \A n \in 1..13 : ~isDatetime(SubSeq(Stamp(p, q, m, d, dd, mi, sec), 1, n))

(* A year is read back from its two halves.                                  *)
LEMMA FormatsAgree ==
  ASSUME NEW y \in Nat, NEW m \in Nat, NEW dd \in Nat, NEW p \in Nat, NEW q \in Nat,
         NEW mi \in Nat, NEW sec \in Nat,
         100 * p + q = y, p < 100, q < 100, m < 100, dd + 1 < 100, mi < 100, sec < 100
  PROVE  WellWritten(y, m, dd, p, q, mi, sec)
<1>2. dd < 100
  OBVIOUS
<1>4. isTimeFmt(Decimal(dd) \o <<Slash>> \o Decimal(mi) \o <<Slash>> \o Decimal(sec))
        <=> IsClock(dd, mi, sec)
  BY <1>2, TimeFormat
<1>5. ASSUME NEW d \in {dd, dd + 1}
      PROVE  /\ isDateFmt(Decimal(p) \o Decimal(q) \o <<Slash>> \o Decimal(m)
                            \o <<Slash>> \o Decimal(d)) <=> isDay(y, m, d)
             /\ isDatetime(Stamp(p, q, m, d, dd, mi, sec))
                  <=> isDay(y, m, d) /\ IsClock(dd, mi, sec)
             /\ \A n \in 1..13 : ~isDatetime(SubSeq(Stamp(p, q, m, d, dd, mi, sec), 1, n))
  <2>1. d \in Nat /\ d < 100
    OBVIOUS
  <2>2. IsDay(p, q, m, d) <=> isDay(y, m, d)
    BY DEF IsDay
  <2>3. isDateFmt(Decimal(p) \o Decimal(q) \o <<Slash>> \o Decimal(m)
                    \o <<Slash>> \o Decimal(d)) <=> IsDay(p, q, m, d)
    BY <1>2, <2>1, DateFormat
  <2>4. /\ Stamp(p, q, m, d, dd, mi, sec) \in Seq(Plain)
        /\ Len(Stamp(p, q, m, d, dd, mi, sec)) = 14
        /\ isDatetime(Stamp(p, q, m, d, dd, mi, sec))
             <=> IsDay(p, q, m, d) /\ IsClock(dd, mi, sec)
    BY <1>2, <2>1, DatetimeFormat
  <2>5. \A n \in 1..13 : ~isDatetime(SubSeq(Stamp(p, q, m, d, dd, mi, sec), 1, n))
    BY <2>4, CutIsNoDatetime
  <2> QED
    BY <2>2, <2>3, <2>4, <2>5
<1> QED
  BY <1>4, <1>5, Zenon DEF WellWritten

DateInv ==
  /\ year \in Nat /\ month \in Nat /\ day \in Nat
  /\ 1700 <= year /\ year <= LastYear /\ LastYear <= 3000
  /\ 1 <= month /\ month <= 12 /\ 1 <= day /\ day <= 31

LEMMA DateInvInit == CalendarInit => DateInv
BY CalendarAssumption DEF CalendarInit, DateInv

(* The walk never comes to a 32nd day.                                       *)
LEMMA DateInvNext == DateInv /\ [CalendarNext]_calendarVars => DateInv'
<1> SUFFICES ASSUME DateInv, [CalendarNext]_calendarVars PROVE DateInv'
  OBVIOUS
<1>0. LastYear' = LastYear
  OBVIOUS
<1>1. ASSUME isDay(year, month, day + 1) PROVE day + 1 <= 31
  <2>1. day + 1 <= mxday_month(year, month)
    BY <1>1 DEF DateInv, isDay, mxday_month, isYear, isMonth, DaysOf
  <2>2. mxday_month(year, month) <= 31
    BY DEF DateInv, mxday_month, isYear, isMonth, DaysOf
  <2>3. mxday_month(year, month) \in Int
    BY DEF DateInv, mxday_month, isYear, isMonth, DaysOf
  <2> QED
    BY <2>1, <2>2, <2>3 DEF DateInv
<1>2. isDay(year, month + 1, 1) => month + 1 <= 12
  BY DEF DateInv, isDay, mxday_month, isYear, isMonth
<1>3. CASE NextDate
  <2>1. CASE isDay(year, month, day + 1) /\ day' = day + 1 /\ UNCHANGED <<year, month>>
    BY <1>1, <2>1 DEF DateInv
  <2>2. CASE isDay(year, month + 1, 1) /\ month' = month + 1 /\ day' = 1 /\ UNCHANGED year
    BY <1>2, <2>2 DEF DateInv
  <2>3. CASE year < LastYear /\ year' = year + 1 /\ month' = 1 /\ day' = 1
    BY <2>3, CalendarAssumption DEF DateInv
  <2> QED
    BY <1>3, <2>1, <2>2, <2>3 DEF NextDate
<1>4. CASE UNCHANGED calendarVars
  BY <1>4 DEF DateInv, calendarVars
<1> QED
  BY <1>3, <1>4 DEF CalendarNext


(* The months are as long in the code as in the calendar, up to the one      *)
(* February that is too long.                                                *)
LEMMA LengthBefore3000 ==
  ASSUME NEW y \in Nat, NEW m \in Nat, y \in 1700..2999, m \in 1..12
  PROVE  LengthOfMonth(y, m) = mxday_month(y, m)
<1>1. /\ LeapDaysUpTo(y) \in Int /\ LeapDaysUpTo(y - 1) \in Int
      /\ mxday_month(y, m) \in Nat /\ DaysBeforeMonth[m] \in Int
  <2>1. y \in Nat /\ y - 1 \in Nat
    OBVIOUS
  <2>2. LeapDaysUpTo(y) \in Int /\ LeapDaysUpTo(y - 1) \in Int
    BY <2>1, LeapDaysInteger
  <2>3. mxday_month(y, m) \in Nat
    BY MonthLength
  <2>4. DaysBeforeMonth[m] \in Int
    BY DEF DaysBeforeMonth
  <2> QED
    BY <2>2, <2>3, <2>4
<1>2. /\ DayNumber(y, m, 1) \in Int
      /\ DayNumber(y, m, mxday_month(y, m)) = DayNumber(y, m, 1) + mxday_month(y, m) - 1
  BY <1>1 DEF DayNumber
<1>3. CASE m = 12
  BY <1>2, <1>3, <1>1, YearStep DEF LengthOfMonth
<1>4. CASE m \in 1..11
  <2>1. DayNumber(y, m + 1, 1) = DayNumber(y, m, mxday_month(y, m)) + 1
    BY <1>4, MonthStep
  <2> QED
    BY <1>1, <1>2, <1>4, <2>1 DEF LengthOfMonth
<1> QED
  BY <1>3, <1>4

LEMMA LengthIn3000 ==
  ASSUME NEW m \in 1..12
  PROVE  LengthOfMonth(3000, m) = IF m = 2 THEN 28 ELSE DaysOf[m]
<1>1. LeapDaysUpTo(3000) = 727 /\ LeapDaysUpTo(2999) = 727 /\ 3000 - 1 = 2999
  BY DEF LeapDaysUpTo
<1>2. CASE m = 12
  BY <1>1, <1>2 DEF LengthOfMonth, DayNumber, DaysBeforeMonth, DaysOf
<1>3. CASE m = 1
  BY <1>1, <1>3 DEF LengthOfMonth, DayNumber, DaysBeforeMonth, DaysOf
<1>4. CASE m = 2
  BY <1>1, <1>4 DEF LengthOfMonth, DayNumber, DaysBeforeMonth, DaysOf
<1>5. CASE m \in 3..11
  BY <1>1, <1>5 DEF LengthOfMonth, DayNumber, DaysBeforeMonth, DaysOf
<1> QED
  BY <1>2, <1>3, <1>4, <1>5

LEMMA DayAccepted ==
  ASSUME NEW y \in Nat, NEW m \in Nat, NEW d \in Nat,
         1700 <= y, y <= 3000, 1 <= m, m <= 12
  PROVE  isDay(y, m, d) <=> Accepted(y, m, d)
<1>1. CASE y <= 2999
  <2>1. y \in 1700..2999 /\ m \in 1..12 /\ y # 3000
    BY <1>1
  <2>2. LengthOfMonth(y, m) = mxday_month(y, m) /\ mxday_month(y, m) \in Nat
    BY <2>1, LengthBefore3000, MonthLength
  <2> QED
    BY <2>1, <2>2 DEF isDay, Accepted, DayExists, ExtraDay
<1>2. CASE y = 3000
  <2>1. m \in 1..12 /\ DaysOf[m] \in Nat
    BY DEF DaysOf
  <2>2. mxday_month(3000, m) = IF m = 2 THEN 29 ELSE DaysOf[m]
    BY <2>1 DEF mxday_month, isYear, isMonth, isLeapYear, DaysOf
  <2>3. LengthOfMonth(3000, m) = IF m = 2 THEN 28 ELSE DaysOf[m]
    BY <2>1, LengthIn3000
  <2> QED
    BY <1>2, <2>1, <2>2, <2>3 DEF isDay, Accepted, DayExists, ExtraDay
<1> QED
  BY <1>1, <1>2

LEMMA DatesWellWritten == DateInv => DateFormatsAgree
<1> SUFFICES ASSUME DateInv PROVE DateFormatsAgree
  OBVIOUS
<1>1. PICK y \in Nat, m \in Nat, dd \in Nat : y = year /\ m = month /\ dd = day
  BY DEF DateInv
<1>2. 1700 <= y /\ y <= 3000 /\ 1 <= m /\ m <= 12 /\ 1 <= dd /\ dd <= 31
  BY <1>1, CalendarAssumption DEF DateInv
<1>3. PICK p \in Nat, q \in Nat :
        p = y \div 100 /\ q = y % 100 /\ p < 100 /\ q < 100 /\ 100 * p + q = y
  <2>1. /\ y \div 100 \in Nat /\ y \div 100 < 100 /\ y % 100 \in Nat /\ y % 100 < 100
        /\ 100 * (y \div 100) + (y % 100) = y
    BY <1>2
  <2> QED
    BY <2>1
<1>4. PICK mi \in Nat, sec \in Nat : mi = 5 * m /\ sec = 58 + (y % 3) /\ mi < 100 /\ sec < 100
  <2>1. 5 * m \in Nat /\ 5 * m < 100 /\ 58 + (y % 3) \in Nat /\ 58 + (y % 3) < 100
    BY <1>2
  <2> QED
    BY <2>1
<1>5. m < 100 /\ dd + 1 < 100
  BY <1>2
<1>6. 100 * p + q = y /\ p < 100 /\ q < 100 /\ mi < 100 /\ sec < 100
  BY <1>3, <1>4
<1>7. WellWritten(y, m, dd, p, q, mi, sec)
  BY <1>5, <1>6, FormatsAgree
<1>8. /\ p = year \div 100 /\ q = year % 100 /\ mi = 5 * month /\ sec = 58 + (year % 3)
      /\ m = month /\ dd = day /\ y = year
  BY <1>1, <1>3, <1>4
<1>9. WellWritten(year, month, day, year \div 100, year % 100, 5 * month, 58 + (year % 3))
  BY <1>7, <1>8
<1>10. (dd < 24 /\ mi < 60 /\ sec < 60) <=> IsClock(dd, mi, sec)
  BY DEF IsClock
<1>11. TimeExists <=> IsClock(day, 5 * month, 58 + (year % 3))
  BY <1>8, <1>10 DEF TimeExists
<1>12. isTimeFmt(Decimal(day) \o <<Slash>> \o Decimal(5 * month) \o <<Slash>>
                   \o Decimal(58 + (year % 3))) <=> TimeExists
  BY <1>9, <1>11, Zenon DEF WellWritten
<1>13. ASSUME NEW d \in {day, day + 1} PROVE AgreeOnDay(d)
  <2>1. /\ year \in Nat /\ month \in Nat /\ d \in Nat
        /\ 1700 <= year /\ year <= 3000 /\ 1 <= month /\ month <= 12
    BY <1>1, <1>2
  <2>2. isDay(year, month, d) <=> Accepted(year, month, d)
    BY <2>1, DayAccepted
  <2>3. /\ isDateFmt(Decimal(year \div 100) \o Decimal(year % 100) \o <<Slash>>
                       \o Decimal(month) \o <<Slash>> \o Decimal(d))
             <=> isDay(year, month, d)
        /\ isDatetime(Stamp(year \div 100, year % 100, month, d, day, 5 * month, 58 + (year % 3)))
             <=> isDay(year, month, d) /\ IsClock(day, 5 * month, 58 + (year % 3))
        /\ \A n \in 1..13 :
             ~isDatetime(SubSeq(Stamp(year \div 100, year % 100, month, d, day, 5 * month,
                                      58 + (year % 3)), 1, n))
    BY <1>9, Zenon DEF WellWritten
  <2> QED
    BY <1>11, <2>2, <2>3, Zenon DEF AgreeOnDay, Stamp
<1> QED
  BY <1>12, <1>13, Zenon DEF DateFormatsAgree

(* The format checks: every date of every range of years up to 3000, written *)
(* with and without separators, passes exactly when the calendar, counted in *)
(* days, has it or it is 3000/02/29, and no date and time that is cut short  *)
(* passes.                                                                   *)
THEOREM DatesAgreeAsText == FunctionsSpec => []TextsAgreeOnDates
<1>1. FunctionsInit => DateInv
  BY DateInvInit DEF FunctionsInit
<1>2. DateInv /\ [FunctionsNext]_functionVars => DateInv'
  <2> SUFFICES ASSUME DateInv, [FunctionsNext]_functionVars PROVE DateInv'
    OBVIOUS
  <2>1. [CalendarNext]_calendarVars
    BY DEF FunctionsNext, functionVars, CalendarNext, calendarVars
  <2> QED
    BY <2>1, DateInvNext
<1>3. DateInv => TextsAgreeOnDates
  BY DatesWellWritten DEF TextsAgreeOnDates
<1> QED
  BY <1>1, <1>2, <1>3, PTL DEF FunctionsSpec

-----------------------------------------------------------------------------
(* Texts *)

(* The text a behaviour builds. *)
TextInv == text \in Seq(Characters) /\ text \in Seq(Int)

LEMMA TextInvariant == TextSpec => []TextInv
<1>0. Characters \subseteq Int
  BY TextToolsAssumption
<1>1. TextInit => TextInv
  BY EmptySeq DEF TextInit, TextInv
<1>2. TextInv /\ [Extend]_text => TextInv'
  <2> SUFFICES ASSUME TextInv, [Extend]_text PROVE TextInv'
    OBVIOUS
  <2>1. ASSUME NEW c \in Characters, text' = Append(text, c) PROVE TextInv'
    <3>1. c \in Int
      BY <1>0
    <3>2. Append(text, c) \in Seq(Characters)
      BY AppendProperties DEF TextInv
    <3>3. Append(text, c) \in Seq(Int)
      BY <3>1, AppendProperties DEF TextInv
    <3> QED
      BY <2>1, <3>2, <3>3 DEF TextInv
  <2>2. CASE UNCHANGED text
    BY <2>2 DEF TextInv
  <2> QED
    BY <2>1, <2>2 DEF Extend
<1> QED
  BY <1>1, <1>2, PTL DEF TextSpec

-----------------------------------------------------------------------------
(* Deleting blanks *)

(* The characters copied so far, and the next one. *)
Kept(t, c) == IF c = Blank THEN t ELSE Append(t, c)

(* What WithoutBlanks has kept after n characters of the function f. *)
Keeping(g, f, n) == g = [k \in 0..n |-> IF k = 0 THEN <<>> ELSE Kept(g[k - 1], f[k])]

KeptOf(f, n) == WithoutBlanks([k \in 1..n |-> f[k]])

(* There is such a function, for every length; and only one.                 *)
LEMMA KeepingExists == \A f : \A n \in Nat : \E g : Keeping(g, f, n)
<1> SUFFICES ASSUME NEW f PROVE \A n \in Nat : \E g : Keeping(g, f, n)
  OBVIOUS
<1> DEFINE Good == {n \in Nat : \E g : Keeping(g, f, n)}
<1>1. 0 \in Good
  <2>1. Keeping([k \in 0..0 |-> <<>>], f, 0)
    BY DEF Keeping
  <2> QED
    BY <2>1
<1>2. ASSUME NEW n \in Nat, n \in Good PROVE n + 1 \in Good
  <2>1. PICK h : Keeping(h, f, n)
    BY <1>2
  <2> DEFINE g == [k \in 0..(n + 1) |-> IF k = n + 1 THEN Kept(h[n], f[n + 1]) ELSE h[k]]
  <2>2. ASSUME NEW k \in 0..(n + 1)
        PROVE  g[k] = IF k = 0 THEN <<>> ELSE Kept(g[k - 1], f[k])
    <3>1. CASE k = n + 1
      <4>1. k - 1 = n /\ n \in 0..(n + 1) /\ n # n + 1 /\ k # 0
        BY <3>1
      <4>2. g[n] = h[n] /\ g[k] = Kept(h[n], f[n + 1])
        BY <3>1, <4>1
      <4> QED
        BY <3>1, <4>1, <4>2
    <3>2. CASE k # n + 1
      <4>1. k \in 0..n /\ (k # 0 => k - 1 \in 0..(n + 1) /\ k - 1 # n + 1)
        BY <3>2
      <4>2. h[k] = IF k = 0 THEN <<>> ELSE Kept(h[k - 1], f[k])
        BY <2>1, <4>1 DEF Keeping
      <4>3. g[k] = h[k] /\ (k # 0 => g[k - 1] = h[k - 1])
        BY <3>2, <4>1
      <4> HIDE DEF g
      <4> QED
        BY <4>2, <4>3
    <3> QED
      BY <3>1, <3>2
  <2>3. g = [k \in 0..(n + 1) |-> g[k]]
    OBVIOUS
  <2> HIDE DEF g
  <2>4. g = [k \in 0..(n + 1) |-> IF k = 0 THEN <<>> ELSE Kept(g[k - 1], f[k])]
    BY <2>2, <2>3
  <2> QED
    BY <2>4 DEF Keeping
<1> HIDE DEF Good
<1>3. \A n \in Nat : n \in Good
  BY <1>1, <1>2, AllNumbers
<1> QED
  BY <1>3 DEF Good

LEMMA KeepingUnique ==
  ASSUME NEW f, NEW m \in Nat, NEW n \in Nat, NEW g, NEW h,
         Keeping(g, f, m), Keeping(h, f, n)
  PROVE  \A k \in Nat : k <= m /\ k <= n => g[k] = h[k]
<1> DEFINE Same == {k \in Nat : k <= m /\ k <= n => g[k] = h[k]}
<1>1. 0 \in Same
  <2>1. 0 \in 0..m /\ 0 \in 0..n
    OBVIOUS
  <2> QED
    BY <2>1 DEF Keeping
<1>2. ASSUME NEW k \in Nat, k \in Same PROVE k + 1 \in Same
  <2> SUFFICES ASSUME k + 1 <= m, k + 1 <= n PROVE g[k + 1] = h[k + 1]
    OBVIOUS
  <2>1. k + 1 \in 0..m /\ k + 1 \in 0..n /\ k + 1 # 0 /\ k + 1 - 1 = k /\ k <= m /\ k <= n
    OBVIOUS
  <2>2. g[k] = h[k]
    BY <1>2, <2>1
  <2>3. g[k + 1] = Kept(g[k], f[k + 1]) /\ h[k + 1] = Kept(h[k], f[k + 1])
    BY <2>1 DEF Keeping
  <2> QED
    BY <2>2, <2>3
<1> HIDE DEF Same
<1>3. \A k \in Nat : k \in Same
  BY <1>1, <1>2, AllNumbers
<1> QED
  BY <1>3 DEF Same

(* The LET of WithoutBlanks. *)
LEMMA LastOfKeeping ==
  ASSUME NEW s, Len(s) \in Nat
  PROVE  \E g : Keeping(g, s, Len(s)) /\ WithoutBlanks(s) = g[Len(s)]
<1>1. \E g : g = [k \in 0..Len(s) |->
                    IF k = 0 THEN <<>>
                    ELSE IF s[k] = Blank THEN g[k - 1] ELSE Append(g[k - 1], s[k])]
  BY KeepingExists, Zenon DEF Keeping, Kept
<1>2. PICK g : g = [k \in 0..Len(s) |->
                      IF k = 0 THEN <<>>
                      ELSE IF s[k] = Blank THEN g[k - 1] ELSE Append(g[k - 1], s[k])]
               /\ WithoutBlanks(s) = g[Len(s)]
  BY <1>1, Zenon DEF WithoutBlanks
<1> QED
  BY <1>2, Zenon DEF Keeping, Kept

(* Hence it is the one inside WithoutBlanks, which takes a character at a time. *)
LEMMA KeptRuns ==
  ASSUME NEW f, NEW n \in Nat
  PROVE  \E g : Keeping(g, f, n) /\ KeptOf(f, n) = g[n]
<1> DEFINE s == [k \in 1..n |-> f[k]]
<1>1. Len(s) = n /\ \A k \in 1..n : s[k] = f[k]
  <2>1. DOMAIN s = 1..n
    OBVIOUS
  <2> QED
    BY <2>1
<1>2. KeptOf(f, n) = WithoutBlanks(s)
  BY DEF KeptOf
<1> HIDE DEF s
<1>3. PICK g : Keeping(g, s, n) /\ KeptOf(f, n) = g[n]
  BY <1>1, <1>2, LastOfKeeping
<1>4. \A k \in 0..n : k # 0 => s[k] = f[k]
  BY <1>1
<1>5. [k \in 0..n |-> IF k = 0 THEN <<>> ELSE Kept(g[k - 1], s[k])]
        = [k \in 0..n |-> IF k = 0 THEN <<>> ELSE Kept(g[k - 1], f[k])]
  BY <1>4
<1> QED
  BY <1>3, <1>5 DEF Keeping

LEMMA KeptSteps ==
  ASSUME NEW f
  PROVE  /\ KeptOf(f, 0) = <<>>
         /\ \A n \in Nat : KeptOf(f, n + 1) = Kept(KeptOf(f, n), f[n + 1])
<1>1. KeptOf(f, 0) = <<>>
  <2>1. PICK g : Keeping(g, f, 0) /\ KeptOf(f, 0) = g[0]
    BY KeptRuns
  <2> QED
    BY <2>1 DEF Keeping
<1>2. ASSUME NEW n \in Nat PROVE KeptOf(f, n + 1) = Kept(KeptOf(f, n), f[n + 1])
  <2>1. PICK g : Keeping(g, f, n) /\ KeptOf(f, n) = g[n]
    BY KeptRuns
  <2>2. n + 1 \in Nat
    OBVIOUS
  <2>3. PICK h : Keeping(h, f, n + 1) /\ KeptOf(f, n + 1) = h[n + 1]
    BY <2>2, KeptRuns
  <2>4. n <= n /\ n <= n + 1 /\ n + 1 \in 0..(n + 1) /\ n + 1 # 0 /\ n + 1 - 1 = n
    OBVIOUS
  <2>5. g[n] = h[n]
    BY <2>1, <2>2, <2>3, <2>4, KeepingUnique
  <2>6. h[n + 1] = Kept(h[n], f[n + 1])
    BY <2>3, <2>4 DEF Keeping
  <2> QED
    BY <2>1, <2>3, <2>5, <2>6
<1> QED
  BY <1>1, <1>2

(* Blanks behind add nothing. *)
LEMMA KeptBlanks ==
  ASSUME NEW f, NEW a \in Nat, NEW m \in Nat, \A k \in 1..m : f[a + k] = Blank
  PROVE  KeptOf(f, a + m) = KeptOf(f, a)
<1> DEFINE Good == {n \in Nat : n <= m => KeptOf(f, a + n) = KeptOf(f, a)}
<1>1. 0 \in Good
  <2>1. a + 0 = a
    OBVIOUS
  <2> QED
    BY <2>1
<1>2. ASSUME NEW n \in Nat, n \in Good PROVE n + 1 \in Good
  <2> SUFFICES ASSUME n + 1 <= m PROVE KeptOf(f, a + (n + 1)) = KeptOf(f, a)
    OBVIOUS
  <2>1. KeptOf(f, a + n) = KeptOf(f, a) /\ n + 1 \in 1..m
    BY <1>2
  <2>2. a + (n + 1) = (a + n) + 1 /\ a + n \in Nat
    OBVIOUS
  <2>3. f[(a + n) + 1] = Blank
    BY <2>1, <2>2
  <2>4. KeptOf(f, (a + n) + 1) = Kept(KeptOf(f, a + n), f[(a + n) + 1])
    BY <2>2, KeptSteps
  <2> QED
    BY <2>1, <2>2, <2>3, <2>4 DEF Kept
<1> HIDE DEF Good
<1>3. \A n \in Nat : n \in Good
  BY <1>1, <1>2, AllNumbers
<1>4. m \in Good /\ m <= m
  BY <1>3
<1> QED
  BY <1>4 DEF Good

(* When nothing is kept of the beginning, the rest decides. *)
LEMMA KeptBehind ==
  ASSUME NEW f, NEW g, NEW a \in Nat, NEW m \in Nat,
         \A k \in 1..m : g[k] = f[a + k], KeptOf(f, a) = KeptOf(g, 0)
  PROVE  KeptOf(f, a + m) = KeptOf(g, m)
<1> DEFINE Good == {n \in Nat : n <= m => KeptOf(f, a + n) = KeptOf(g, n)}
<1>1. 0 \in Good
  <2>1. a + 0 = a
    OBVIOUS
  <2> QED
    BY <2>1
<1>2. ASSUME NEW n \in Nat, n \in Good PROVE n + 1 \in Good
  <2> SUFFICES ASSUME n + 1 <= m PROVE KeptOf(f, a + (n + 1)) = KeptOf(g, n + 1)
    OBVIOUS
  <2>1. KeptOf(f, a + n) = KeptOf(g, n) /\ n + 1 \in 1..m
    BY <1>2
  <2>2. a + (n + 1) = (a + n) + 1 /\ a + n \in Nat
    OBVIOUS
  <2>3. g[n + 1] = f[a + (n + 1)]
    BY <2>1
  <2>4. KeptOf(f, (a + n) + 1) = Kept(KeptOf(f, a + n), f[(a + n) + 1])
    BY <2>2, KeptSteps
  <2>5. KeptOf(g, n + 1) = Kept(KeptOf(g, n), g[n + 1])
    BY KeptSteps
  <2> QED
    BY <2>1, <2>2, <2>3, <2>4, <2>5
<1> HIDE DEF Good
<1>3. \A n \in Nat : n \in Good
  BY <1>1, <1>2, AllNumbers
<1>4. m \in Good /\ m <= m
  BY <1>3
<1> QED
  BY <1>4 DEF Good

(* More characters only add to what is kept. *)
LEMMA KeptGrows ==
  ASSUME NEW S, NEW f, NEW a \in Nat, NEW m \in Nat,
         \A k \in 1..(a + m) : f[k] = Blank \/ f[k] \in S
  PROVE  /\ KeptOf(f, a) \in Seq(S) /\ KeptOf(f, a + m) \in Seq(S)
         /\ IsPrefix(KeptOf(f, a), KeptOf(f, a + m))
<1>1. ASSUME NEW n \in Nat, n < a + m, KeptOf(f, n) \in Seq(S)
      PROVE  /\ KeptOf(f, n + 1) \in Seq(S)
             /\ \/ KeptOf(f, n + 1) = KeptOf(f, n)
                \/ \E u \in Seq(S) : KeptOf(f, n + 1) = KeptOf(f, n) \o u
  <2>1. n + 1 \in 1..(a + m)
    BY <1>1
  <2>2. f[n + 1] = Blank \/ f[n + 1] \in S
    BY <2>1
  <2>3. KeptOf(f, n + 1) = Kept(KeptOf(f, n), f[n + 1])
    BY KeptSteps
  <2>4. CASE f[n + 1] = Blank
    BY <1>1, <2>3, <2>4 DEF Kept
  <2>5. CASE f[n + 1] # Blank
    <3>1. KeptOf(f, n + 1) = Append(KeptOf(f, n), f[n + 1])
      BY <2>3, <2>5 DEF Kept
    <3>2. KeptOf(f, n + 1) \in Seq(S)
      BY <1>1, <2>2, <2>5, <3>1, AppendProperties
    <3>3. PICK u : u = <<f[n + 1]>>
      OBVIOUS
    <3>4. u \in Seq(S)
      BY <2>2, <2>5, <3>3
    <3>5. KeptOf(f, n + 1) = KeptOf(f, n) \o u
      BY <1>1, <2>2, <2>5, <3>1, <3>3, AppendIsConcat
    <3> QED
      BY <3>2, <3>4, <3>5
  <2> QED
    BY <2>4, <2>5
<1> DEFINE Good == {n \in Nat : n <= a + m => KeptOf(f, n) \in Seq(S)}
           Fine == {n \in Nat : n <= m => IsPrefix(KeptOf(f, a), KeptOf(f, a + n))}
<1>2. \A n \in Nat : n \in Good
  <2>1. 0 \in Good
    BY KeptSteps, EmptySeq
  <2>2. ASSUME NEW n \in Nat, n \in Good PROVE n + 1 \in Good
    BY <1>1, <2>2
  <2> HIDE DEF Good
  <2> QED
    BY <2>1, <2>2, AllNumbers
<1>3. \A n \in Nat : n \in Fine
  <2>1. a \in Good /\ a <= a + m /\ a + 0 = a
    BY <1>2
  <2>2. KeptOf(f, a) \in Seq(S)
    BY <2>1
  <2>3. IsPrefix(KeptOf(f, a), KeptOf(f, a))
    BY <2>2, LenProperties, PrefixElements
  <2>4. 0 \in Fine
    BY <2>1, <2>3
  <2>5. ASSUME NEW n \in Nat, n \in Fine PROVE n + 1 \in Fine
    <3> SUFFICES ASSUME n + 1 <= m PROVE IsPrefix(KeptOf(f, a), KeptOf(f, a + (n + 1)))
      OBVIOUS
    <3>1. a + n \in Nat /\ a + n < a + m /\ a + n <= a + m /\ a + (n + 1) = (a + n) + 1
      OBVIOUS
    <3>2. IsPrefix(KeptOf(f, a), KeptOf(f, a + n))
      BY <2>5
    <3>3. a + n \in Good
      BY <1>2, <3>1
    <3>4. KeptOf(f, a + n) \in Seq(S)
      BY <3>1, <3>3
    <3>5. \/ KeptOf(f, (a + n) + 1) = KeptOf(f, a + n)
          \/ \E u \in Seq(S) : KeptOf(f, (a + n) + 1) = KeptOf(f, a + n) \o u
      BY <1>1, <3>1, <3>4
    <3>6. IsPrefix(KeptOf(f, a), KeptOf(f, (a + n) + 1))
      BY <2>2, <3>2, <3>4, <3>5, PrefixOfConcat
    <3> QED
      BY <3>1, <3>6
  <2> HIDE DEF Fine
  <2> QED
    BY <2>4, <2>5, AllNumbers
<1>4. a + m \in Nat /\ a <= a + m /\ a + m <= a + m /\ m <= m
  OBVIOUS
<1>5. KeptOf(f, a) \in Seq(S)
  BY <1>2, <1>4
<1>6. KeptOf(f, a + m) \in Seq(S)
  BY <1>2, <1>4
<1>7. IsPrefix(KeptOf(f, a), KeptOf(f, a + m))
  BY <1>3, <1>4
<1> QED
  BY <1>5, <1>6, <1>7

(* deleRhtSpace keeps what comes before the blanks at the end. *)
LEMMA RightEnd ==
  ASSUME NEW s \in Seq(Int)
  PROVE  \E n \in Nat :
           /\ n <= Len(s) /\ deleRhtSpace(s) = SubSeq(s, 1, n)
           /\ n # 0 => s[n] # Blank
           /\ \A k \in 1..Len(s) : k > n => s[k] = Blank
<1>1. Len(s) \in Nat /\ DOMAIN s = 1..Len(s)
  BY LenProperties
<1> DEFINE S == {0} \cup NonBlanks(s)
<1>2. S \in SUBSET (0..Len(s)) /\ S # {}
  BY <1>1 DEF NonBlanks
<1>3. Max(S) \in S /\ \A y \in S : y <= Max(S)
  BY <1>1, <1>2, MaxIsGreatest
<1>4. PICK n \in S : n = Max(S) /\ \A y \in S : y <= n
  BY <1>3
<1>5. deleRhtSpace(s) = SubSeq(s, 1, n)
  BY <1>4 DEF deleRhtSpace
<1>6. n \in Nat /\ n <= Len(s)
  BY <1>1, <1>2
<1>7. n # 0 => s[n] # Blank
  BY DEF NonBlanks
<1>8. ASSUME NEW k \in 1..Len(s), k > n PROVE s[k] = Blank
  <2>1. s[k] # Blank => k \in S
    BY <1>1 DEF NonBlanks
  <2>2. k \in S => k <= n
    BY <1>4
  <2> QED
    BY <1>6, <1>8, <2>1, <2>2
<1> QED
  BY <1>5, <1>6, <1>7, <1>8

(* deleLftSpace keeps what comes behind the blanks in front.                 *)
LEMMA LeftEnd ==
  ASSUME NEW s \in Seq(Int)
  PROVE  \E n \in Nat :
           /\ n # 0 /\ n <= Len(s) + 1 /\ deleLftSpace(s) = Cut(SubSeq(s, n, Len(s)))
           /\ n <= Len(s) => s[n] # Blank
           /\ \A k \in 1..Len(s) : k < n => s[k] = Blank
<1>1. Len(s) \in Nat /\ DOMAIN s = 1..Len(s)
  BY LenProperties
<1> DEFINE S == {Len(s) + 1} \cup NonBlanks(s)
<1>2. S \in SUBSET Nat /\ S # {} /\ \A k \in S : k \in 1..(Len(s) + 1)
  BY <1>1 DEF NonBlanks
<1>3. Min(S) \in S /\ \A y \in S : Min(S) <= y
  BY <1>2, MinIsLeast
<1>4. PICK n \in S : n = Min(S) /\ \A y \in S : n <= y
  BY <1>3
<1>5. deleLftSpace(s) = Cut(SubSeq(s, n, Len(s)))
  BY <1>4 DEF deleLftSpace
<1>6. n \in Nat /\ n # 0 /\ n <= Len(s) + 1
  BY <1>1, <1>2
<1>7. n <= Len(s) => s[n] # Blank
  <2>1. n <= Len(s) => n # Len(s) + 1
    BY <1>1
  <2> QED
    BY <2>1 DEF NonBlanks
<1>8. ASSUME NEW k \in 1..Len(s), k < n PROVE s[k] = Blank
  <2>1. s[k] # Blank => k \in S
    BY <1>1 DEF NonBlanks
  <2>2. k \in S => n <= k
    BY <1>4
  <2> QED
    BY <1>6, <1>8, <2>1, <2>2
<1> QED
  BY <1>5, <1>6, <1>7, <1>8

(* What a local buffer takes of a text. *)
LEMMA CutText ==
  ASSUME NEW s \in Seq(Int)
  PROVE  \E n \in Nat :
           /\ n <= Len(s) /\ n < StrSize /\ Cut(s) = SubSeq(s, 1, n)
           /\ n = StrSize - 1 \/ Cut(s) = s
           /\ Len(s) < StrSize => Cut(s) = s
           /\ Len(s) >= StrSize => n = StrSize - 1
<1>1. Len(s) \in Nat /\ StrSize \in Nat /\ StrSize - 1 \in Nat
  BY LenProperties, TextToolsAssumption
<1>2. PICK n : n = Min({StrSize - 1, Len(s)})
  OBVIOUS
<1>3. {StrSize - 1, Len(s)} \in SUBSET Nat /\ {StrSize - 1, Len(s)} # {}
  BY <1>1
<1>4. n \in {StrSize - 1, Len(s)} /\ \A y \in {StrSize - 1, Len(s)} : n <= y
  BY <1>2, <1>3, MinIsLeast
<1>5. /\ n \in Nat /\ n <= Len(s) /\ n < StrSize /\ (Len(s) < StrSize => n = Len(s))
      /\ n = StrSize - 1 \/ n = Len(s)
      /\ Len(s) >= StrSize => n = StrSize - 1
  BY <1>1, <1>4
<1>6. Cut(s) = SubSeq(s, 1, n)
  BY <1>2 DEF Cut
<1>7. n = Len(s) => Cut(s) = s
  BY <1>5, <1>6, SubSeqFull
<1> QED
  BY <1>5, <1>6, <1>7

(* A text as a function of its positions. *)
LEMMA KeptOfText ==
  ASSUME NEW s \in Seq(Int)
  PROVE  WithoutBlanks(s) = KeptOf(s, Len(s))
<1>1. [k \in 1..Len(s) |-> s[k]] = s
  BY LenProperties
<1> QED
  BY <1>1 DEF KeptOf

(* The first n characters of a text. *)
LEMMA FirstPart ==
  ASSUME NEW s \in Seq(Int), NEW n \in Nat, n <= Len(s)
  PROVE  /\ SubSeq(s, 1, n) \in Seq(Int) /\ Len(SubSeq(s, 1, n)) = n
         /\ \A k \in 1..n : SubSeq(s, 1, n)[k] = s[k]
         /\ IsPrefix(SubSeq(s, 1, n), s)
<1>1. 1 \in Nat /\ 1 <= n + 1 /\ 1 # 0 /\ n - 1 + 1 = n /\ \A k \in 1..n : 1 + k - 1 = k
  OBVIOUS
<1>2. /\ SubSeq(s, 1, n) \in Seq(Int) /\ Len(SubSeq(s, 1, n)) = n - 1 + 1
      /\ \A k \in 1..(n - 1 + 1) : SubSeq(s, 1, n)[k] = s[1 + k - 1]
  BY <1>1, PartOfText
<1>3. PICK t : t = SubSeq(s, 1, n)
  OBVIOUS
<1>4. t \in Seq(Int) /\ Len(t) = n /\ \A k \in 1..n : t[k] = s[k]
  BY <1>1, <1>2, <1>3
<1>5. IsPrefix(t, s)
  BY <1>4, PrefixElements
<1> QED
  BY <1>3, <1>4, <1>5

LEMMA RightOfText == ASSUME NEW s \in Seq(Int) PROVE TrimmedRight(s, deleRhtSpace(s))
<1>1. PICK r \in Nat :
        /\ r <= Len(s) /\ deleRhtSpace(s) = SubSeq(s, 1, r)
        /\ r # 0 => s[r] # Blank
        /\ \A k \in 1..Len(s) : k > r => s[k] = Blank
  BY RightEnd
<1>2. PICK t : t = SubSeq(s, 1, r)
  OBVIOUS
<1>3. t \in Seq(Int) /\ Len(t) = r /\ IsPrefix(t, s) /\ \A k \in 1..r : t[k] = s[k]
  BY <1>1, <1>2, FirstPart
<1>4. \A k \in DOMAIN s : k > Len(t) => s[k] = Blank
  BY <1>1, <1>3, LenProperties
<1>5. t # <<>> => Last(t) # Blank
  <2>1. t # <<>> => r # 0
    BY <1>3, EmptySeq
  <2>2. r # 0 => r \in 1..r
    OBVIOUS
  <2> QED
    BY <1>1, <1>3, <2>1, <2>2 DEF Last
<1> QED
  BY <1>1, <1>2, <1>3, <1>4, <1>5, Zenon DEF TrimmedRight

LEMMA LeftOfText == ASSUME NEW s \in Seq(Int) PROVE TrimmedLeft(s, deleLftSpace(s))
<1>0. Len(s) \in Nat /\ Len(s) <= Len(s)
  BY LenProperties
<1>1. PICK l \in Nat :
        /\ l # 0 /\ l <= Len(s) + 1 /\ deleLftSpace(s) = Cut(SubSeq(s, l, Len(s)))
        /\ l <= Len(s) => s[l] # Blank
        /\ \A k \in 1..Len(s) : k < l => s[k] = Blank
  BY LeftEnd
<1>2. PICK rest : rest = SubSeq(s, l, Len(s))
  OBVIOUS
<1>3. /\ rest \in Seq(Int) /\ Len(rest) = Len(s) - l + 1
      /\ \A k \in 1..(Len(s) - l + 1) : rest[k] = s[l + k - 1]
  BY <1>0, <1>1, <1>2, PartOfText
<1>4. PICK t : t = Cut(rest)
  OBVIOUS
<1>5. PICK c \in Nat :
        /\ c <= Len(rest) /\ c < StrSize /\ t = SubSeq(rest, 1, c)
        /\ c = StrSize - 1 \/ t = rest
  BY <1>3, <1>4, CutText
<1>6. t \in Seq(Int) /\ Len(t) = c /\ IsPrefix(t, rest) /\ \A k \in 1..c : t[k] = rest[k]
  BY <1>3, <1>5, FirstPart
<1>7. t # <<>> => Head(t) # Blank
  <2> SUFFICES ASSUME t # <<>> PROVE Head(t) # Blank
    OBVIOUS
  <2>1. c # 0
    BY <1>6, EmptySeq
  <2>2. 1 \in 1..c /\ 1 \in 1..(Len(s) - l + 1) /\ l + 1 - 1 = l /\ l <= Len(s)
    BY <1>0, <1>1, <1>3, <1>5, <2>1
  <2>3. Head(t) = t[1]
    BY <1>6, TailElements
  <2>4. t[1] = rest[1] /\ rest[1] = s[l]
    BY <1>3, <1>6, <2>2
  <2> QED
    BY <1>1, <2>2, <2>3, <2>4
<1>8. PICK n \in Nat : n = l - 1 /\ n + 1 = l /\ n \in 0..Len(s)
  <2>1. l - 1 \in Nat /\ (l - 1) + 1 = l /\ l - 1 \in 0..Len(s)
    BY <1>0, <1>1
  <2> QED
    BY <2>1
<1>9. \A k \in 1..n : s[k] = Blank
  <2>1. \A k \in 1..n : k \in 1..Len(s) /\ k < l
    BY <1>0, <1>8
  <2> QED
    BY <1>1, <2>1
<1>10. deleLftSpace(s) = t /\ SubSeq(s, n + 1, Len(s)) = rest
  BY <1>1, <1>2, <1>4, <1>8
<1>11. Len(t) < StrSize /\ (t = rest \/ Len(t) = StrSize - 1)
  BY <1>5, <1>6
<1> QED
  BY <1>6, <1>7, <1>8, <1>9, <1>10, <1>11, Zenon DEF TrimmedLeft

(* What deleAllSpace leaves has no blank, and is what WithoutBlanks gives of *)
(* the text, or of as much of it as the local buffer holds.                  *)
LEMMA AllOfText ==
  ASSUME NEW s \in Seq(Int)
  PROVE  /\ Blank \notin Range(deleAllSpace(s))
         /\ Len(s) < StrSize => deleAllSpace(s) = WithoutBlanks(s)
         /\ Len(s) >= StrSize =>
              deleAllSpace(s) = WithoutBlanks(SubSeq(s, 1, StrSize - 1))
<1>1. PICK n \in Nat : /\ n <= Len(s) /\ Cut(s) = SubSeq(s, 1, n)
                       /\ Len(s) < StrSize => Cut(s) = s
                       /\ Len(s) >= StrSize => n = StrSize - 1
  BY CutText
<1>2. PICK cut : cut = Cut(s)
  OBVIOUS
<1>3. cut \in Seq(Int) /\ Len(cut) = n
  BY <1>1, <1>2, FirstPart
<1>4. deleAllSpace(s) = WithoutBlanks(cut)
  BY <1>2 DEF deleAllSpace
<1>5. WithoutBlanks(cut) = KeptOf(cut, n)
  BY <1>3, KeptOfText
<1>6. KeptOf(cut, n) \in Seq(Int \ {Blank})
  <2>1. PICK zero \in Nat : zero = 0 /\ n + zero = n
    OBVIOUS
  <2>2. \A k \in 1..(n + zero) : cut[k] = Blank \/ cut[k] \in Int \ {Blank}
    BY <1>3, <2>1, ElementOfSeq
  <2> QED
    BY <2>2, KeptGrows
<1>7. PICK all : all = KeptOf(cut, n)
  OBVIOUS
<1>8. Blank \notin Range(all)
  <2>1. all \in Seq(Int \ {Blank})
    BY <1>6, <1>7
  <2>2. \A k \in DOMAIN all : all[k] # Blank
    BY <2>1, ElementOfSeq, LenProperties
  <2> QED
    BY <2>2 DEF Range
<1> QED
  BY <1>1, <1>2, <1>4, <1>5, <1>7, <1>8

(* On a text that fits the trims commute and take what deleAllSpace takes;   *)
(* of a longer one deleAllSpace keeps the beginning.                         *)
LEMMA TrimmedText ==
  ASSUME NEW s \in Seq(Int)
  PROVE  LET both == deleLftSpace(deleRhtSpace(s))
         IN  /\ Len(s) < StrSize =>
                  both = deleRhtSpace(deleLftSpace(s)) /\ deleAllSpace(both) = deleAllSpace(s)
             /\ Len(s) >= StrSize => IsPrefix(deleAllSpace(s), WithoutBlanks(s))
<1>0. Len(s) \in Nat /\ 1 \in Nat /\ StrSize \in Nat
  BY LenProperties, TextToolsAssumption
<1>1. PICK r \in Nat :
        /\ r <= Len(s) /\ deleRhtSpace(s) = SubSeq(s, 1, r)
        /\ r # 0 => s[r] # Blank
        /\ \A k \in 1..Len(s) : k > r => s[k] = Blank
  BY RightEnd
<1>2. PICK right : right = deleRhtSpace(s)
  OBVIOUS
<1>3. /\ right \in Seq(Int) /\ Len(right) = r
      /\ \A k \in 1..r : right[k] = s[k]
  <2>1. 1 <= r + 1 /\ 1 # 0 /\ r - 1 + 1 = r /\ \A k \in 1..r : 1 + k - 1 = k
    OBVIOUS
  <2>2. /\ SubSeq(s, 1, r) \in Seq(Int) /\ Len(SubSeq(s, 1, r)) = r - 1 + 1
        /\ \A k \in 1..(r - 1 + 1) : SubSeq(s, 1, r)[k] = s[1 + k - 1]
    BY <1>0, <1>1, <2>1, PartOfText
  <2> QED
    BY <1>1, <1>2, <2>1, <2>2
<1>5. PICK l \in Nat :
        /\ l # 0 /\ l <= r + 1 /\ deleLftSpace(right) = Cut(SubSeq(right, l, r))
        /\ l <= r => right[l] # Blank
        /\ \A k \in 1..r : k < l => right[k] = Blank
  BY <1>3, LeftEnd
<1>6. PICK rest : rest = SubSeq(right, l, r)
  OBVIOUS
<1>7. /\ rest \in Seq(Int) /\ Len(rest) = r - l + 1
      /\ \A k \in 1..(r - l + 1) : rest[k] = right[l + k - 1]
  <2>1. r <= Len(right)
    BY <1>3
  <2> QED
    BY <1>3, <1>5, <1>6, <2>1, PartOfText
<1>8. PICK both : both = deleLftSpace(right)
  OBVIOUS
<1>9. PICK c \in Nat : /\ c <= r - l + 1 /\ both = SubSeq(rest, 1, c)
                       /\ r - l + 1 < StrSize => both = rest
  BY <1>5, <1>6, <1>7, <1>8, CutText
<1>11. ASSUME Len(s) < StrSize
       PROVE  both = deleRhtSpace(deleLftSpace(s)) /\ deleAllSpace(both) = deleAllSpace(s)
  <2>0. both = rest /\ Len(rest) < StrSize
    BY <1>0, <1>1, <1>5, <1>7, <1>9, <1>11
  <2>1. PICK m \in Nat :
          /\ m # 0 /\ m <= Len(s) + 1 /\ deleLftSpace(s) = Cut(SubSeq(s, m, Len(s)))
          /\ m <= Len(s) => s[m] # Blank
          /\ \A k \in 1..Len(s) : k < m => s[k] = Blank
    BY LeftEnd
  <2>2. PICK left : left = SubSeq(s, m, Len(s))
    OBVIOUS
  <2>3. /\ left \in Seq(Int) /\ Len(left) = Len(s) - m + 1
        /\ \A k \in 1..(Len(s) - m + 1) : left[k] = s[m + k - 1]
    <3>1. Len(s) <= Len(s)
      BY <1>0
    <3> QED
      BY <1>0, <2>1, <2>2, <3>1, PartOfText
  <2>4. deleLftSpace(s) = left
    <3>1. Len(left) < StrSize
      BY <1>0, <1>11, <2>1, <2>3
    <3> QED
      BY <2>1, <2>2, <2>3, <3>1, CutText
  <2>5. PICK e \in Nat :
          /\ e <= Len(left) /\ deleRhtSpace(left) = SubSeq(left, 1, e)
          /\ e # 0 => left[e] # Blank
          /\ \A k \in 1..Len(left) : k > e => left[k] = Blank
    BY <2>3, RightEnd
  <2>6. PICK other : other = SubSeq(left, 1, e)
    OBVIOUS
  <2>7. /\ other \in Seq(Int) /\ Len(other) = e - 1 + 1
        /\ \A k \in 1..(e - 1 + 1) : other[k] = left[1 + k - 1]
    <3>1. 1 <= e + 1 /\ 1 # 0
      OBVIOUS
    <3> QED
      BY <1>0, <2>3, <2>5, <2>6, <3>1, PartOfText
  <2>8. e = r - l + 1 /\ (e # 0 => l = m)
    <3>1. CASE r = 0
      <4>1. l = 1
        BY <1>5, <3>1
      <4>2. ~ m <= Len(s)
        BY <1>0, <1>1, <2>1, <3>1
      <4>3. Len(left) = 0
        BY <1>0, <2>1, <2>3, <4>2
      <4> QED
        BY <2>5, <3>1, <4>1, <4>3
    <3>2. CASE r # 0
      <4>1. l <= r
        <5> SUFFICES ASSUME l > r PROVE FALSE
          OBVIOUS
        <5>1. r \in 1..r
          BY <3>2
        <5>2. right[r] = Blank /\ right[r] = s[r]
          BY <1>3, <1>5, <5>1
        <5> QED
          BY <1>1, <3>2, <5>2
      <4>2. l \in 1..r /\ l \in 1..Len(s)
        BY <1>0, <1>1, <1>5, <4>1
      <4>3. s[l] # Blank
        BY <1>3, <1>5, <4>1, <4>2
      <4>4. m <= l
        BY <2>1, <4>2, <4>3
      <4>5. m \in 1..r /\ m <= Len(s)
        BY <1>0, <1>1, <2>1, <4>1, <4>4
      <4>6. ~ m < l
        BY <1>3, <1>5, <2>1, <4>5
      <4>7. m = l
        BY <4>4, <4>6
      <4>8. PICK x \in Nat :
              x = r - l + 1 /\ x # 0 /\ x \in 1..(Len(s) - m + 1) /\ l + x - 1 = r
        <5>1. r - l + 1 \in Nat /\ r - l + 1 # 0 /\ r - l + 1 \in 1..(Len(s) - m + 1)
              /\ l + (r - l + 1) - 1 = r
          BY <1>0, <1>1, <4>1, <4>7
        <5> QED
          BY <5>1
      <4>9. left[x] = s[r]
        BY <2>3, <4>7, <4>8
      <4>10. x \in 1..Len(left)
        BY <2>3, <4>8
      <4>11. ~ x > e
        BY <1>1, <2>5, <3>2, <4>9, <4>10
      <4>12. ~ e > x
        <5> SUFFICES ASSUME e > x PROVE FALSE
          OBVIOUS
        <5>1. e # 0 /\ e \in 1..(Len(s) - m + 1) /\ m + e - 1 \in 1..Len(s) /\ m + e - 1 > r
          BY <1>0, <2>1, <2>3, <2>5, <4>7, <4>8
        <5>2. left[e] = s[m + e - 1] /\ s[m + e - 1] = Blank
          BY <1>1, <2>3, <5>1
        <5> QED
          BY <2>5, <5>1, <5>2
      <4> QED
        BY <4>7, <4>8, <4>11, <4>12
    <3> QED
      BY <3>1, <3>2
  <2>9. Len(rest) = e /\ Len(other) = e
    BY <1>7, <2>7, <2>8
  <2>10. ASSUME NEW k \in 1..e PROVE rest[k] = other[k]
    <3>1. e # 0 /\ l = m /\ k \in 1..(r - l + 1) /\ k \in 1..(e - 1 + 1) /\ 1 + k - 1 = k
      BY <2>8
    <3>2. l + k - 1 \in 1..r /\ k \in 1..(Len(s) - m + 1)
      BY <1>0, <1>1, <1>5, <3>1
    <3>3. rest[k] = right[l + k - 1] /\ right[l + k - 1] = s[l + k - 1]
      BY <1>3, <1>7, <3>1, <3>2
    <3>4. other[k] = left[k] /\ left[k] = s[m + k - 1]
      BY <2>3, <2>7, <3>1, <3>2
    <3> QED
      BY <3>1, <3>3, <3>4
  <2>11. rest = other
    BY <1>7, <2>7, <2>9, <2>10, SeqEqual
  <2>12. deleAllSpace(both) = KeptOf(rest, r - l + 1)
    <3>1. Cut(rest) = rest
      BY <1>7, <2>0, CutText
    <3> QED
      BY <1>7, <2>0, <3>1, KeptOfText DEF deleAllSpace
  <2>13. deleAllSpace(s) = KeptOf(s, Len(s))
    <3>1. Cut(s) = s
      BY <1>11, CutText
    <3> QED
      BY <3>1, KeptOfText DEF deleAllSpace
  <2>14. PICK a \in Nat, x \in Nat, b \in Nat :
           /\ a = l - 1 /\ x = r - l + 1 /\ b = Len(s) - r
           /\ a + x = r /\ r + b = Len(s) /\ 0 + a = a
    <3>1. /\ l - 1 \in Nat /\ r - l + 1 \in Nat /\ Len(s) - r \in Nat
          /\ (l - 1) + (r - l + 1) = r /\ r + (Len(s) - r) = Len(s) /\ 0 + (l - 1) = l - 1
      BY <1>0, <1>1, <1>5
    <3> QED
      BY <3>1
  <2>15. KeptOf(s, r + b) = KeptOf(s, r)
    <3>1. \A k \in 1..b : s[r + k] = Blank
      <4>1. \A k \in 1..b : r + k \in 1..Len(s) /\ r + k > r
        BY <1>0, <2>14
      <4> QED
        BY <1>1, <4>1
    <3> QED
      BY <3>1, KeptBlanks
  <2>16. KeptOf(s, a) = KeptOf(rest, 0)
    <3>1. \A k \in 1..a : s[0 + k] = Blank
      <4>1. \A k \in 1..a : k \in 1..r /\ k < l /\ 0 + k = k
        BY <1>5, <2>14
      <4> QED
        BY <1>3, <1>5, <4>1
    <3>2. KeptOf(s, 0 + a) = KeptOf(s, 0)
      BY <3>1, KeptBlanks
    <3> QED
      BY <2>14, <3>2, KeptSteps
  <2>17. KeptOf(s, a + x) = KeptOf(rest, x)
    <3>1. \A k \in 1..x : rest[k] = s[a + k]
      <4> SUFFICES ASSUME NEW k \in 1..x PROVE rest[k] = s[a + k]
        OBVIOUS
      <4>1. k \in 1..(r - l + 1) /\ l + k - 1 \in 1..r /\ l + k - 1 = a + k
        BY <1>5, <2>14
      <4>2. rest[k] = right[l + k - 1]
        BY <1>7, <4>1
      <4>3. right[l + k - 1] = s[l + k - 1]
        BY <1>3, <4>1
      <4> QED
        BY <4>1, <4>2, <4>3
    <3> QED
      BY <2>16, <3>1, KeptBehind
  <2>18. deleAllSpace(both) = deleAllSpace(s)
    BY <2>12, <2>13, <2>14, <2>15, <2>17
  <2> QED
    BY <2>0, <2>4, <2>5, <2>6, <2>11, <2>18
<1>12. IsPrefix(deleAllSpace(s), WithoutBlanks(s))
  <2>1. PICK n \in Nat : n <= Len(s) /\ Cut(s) = SubSeq(s, 1, n)
    BY CutText
  <2>2. PICK cut : cut = Cut(s)
    OBVIOUS
  <2>3. /\ cut \in Seq(Int) /\ Len(cut) = n
        /\ \A k \in 1..n : cut[k] = s[k]
    <3>1. 1 <= n + 1 /\ 1 # 0 /\ n - 1 + 1 = n /\ \A k \in 1..n : 1 + k - 1 = k
      OBVIOUS
    <3>2. /\ SubSeq(s, 1, n) \in Seq(Int) /\ Len(SubSeq(s, 1, n)) = n - 1 + 1
          /\ \A k \in 1..(n - 1 + 1) : SubSeq(s, 1, n)[k] = s[1 + k - 1]
      BY <1>0, <2>1, <3>1, PartOfText
    <3> QED
      BY <2>1, <2>2, <3>1, <3>2
  <2>4. deleAllSpace(s) = KeptOf(cut, n)
    BY <2>2, <2>3, KeptOfText DEF deleAllSpace
  <2>5. KeptOf(cut, n) = KeptOf(s, n)
    <3>1. [k \in 1..n |-> cut[k]] = [k \in 1..n |-> s[k]]
      BY <2>3
    <3> QED
      BY <3>1 DEF KeptOf
  <2>6. PICK m \in Nat : n + m = Len(s)
    <3>1. Len(s) - n \in Nat /\ n + (Len(s) - n) = Len(s)
      BY <1>0, <2>1
    <3> QED
      BY <3>1
  <2>7. \A k \in 1..(n + m) : s[k] \in Int
    BY <2>6, ElementOfSeq
  <2>8. IsPrefix(KeptOf(s, n), KeptOf(s, n + m))
    BY <2>7, KeptGrows
  <2> QED
    BY <2>4, <2>5, <2>6, <2>8, KeptOfText
<1> QED
  BY <1>2, <1>8, <1>11, <1>12

-----------------------------------------------------------------------------
(* Classes of characters *)

(* Whether the characters of a text are of a class depends on each alone. *)
LEMMA SameClass ==
  ASSUME NEW s, NEW t, NEW class, DOMAIN s = DOMAIN t,
         \A k \in DOMAIN s : t[k] \in class <=> s[k] \in class
  PROVE  AllIn(t, class) = AllIn(s, class)
<1>1. AllIn(t, class) <=> \A k \in DOMAIN t : t[k] \in class
  BY DEF AllIn, Range
<1>2. AllIn(s, class) <=> \A k \in DOMAIN s : s[k] \in class
  BY DEF AllIn, Range
<1>3. AllIn(s, class) \in BOOLEAN /\ AllIn(t, class) \in BOOLEAN
  BY DEF AllIn
<1> QED
  BY <1>1, <1>2, <1>3

(* A letter for a letter, a hexadecimal one for a hexadecimal one. *)
SameKind(c, d) ==
  /\ d \in Digits <=> c \in Digits
  /\ d \in ChrA..(ChrA + 5) \cup Chra..(Chra + 5)
       <=> c \in ChrA..(ChrA + 5) \cup Chra..(Chra + 5)
  /\ d \in Uppers \cup Lowers <=> c \in Uppers \cup Lowers
  /\ d \in 0..127 <=> c \in 0..127
  /\ d \in 32..126 <=> c \in 32..126

(* The classes of a text after a change of case.                             *)
LEMMA SameClasses ==
  ASSUME NEW s, NEW t, DOMAIN s = DOMAIN t,
         \A k \in DOMAIN s : SameKind(s[k], t[k])
  PROVE  <<isDigit(t), isHex(t), isAlpha(t), isAlnum(t), isAscii(t), isPrint(t)>>
           = <<isDigit(s), isHex(s), isAlpha(s), isAlnum(s), isAscii(s), isPrint(s)>>
<1>1. isDigit(t) = isDigit(s)
  BY SameClass DEF isDigit, SameKind
<1>2. isHex(t) = isHex(s)
  <2>1. \A k \in DOMAIN s :
          t[k] \in Digits \cup ChrA..(ChrA + 5) \cup Chra..(Chra + 5)
            <=> s[k] \in Digits \cup ChrA..(ChrA + 5) \cup Chra..(Chra + 5)
    BY Zenon DEF SameKind
  <2>2. PICK class : class = Digits \cup ChrA..(ChrA + 5) \cup Chra..(Chra + 5)
    OBVIOUS
  <2>3. AllIn(t, class) = AllIn(s, class)
    BY <2>1, <2>2, SameClass
  <2> QED
    BY <2>2, <2>3 DEF isHex
<1>3. isAlpha(t) = isAlpha(s)
  <2>1. \A k \in DOMAIN s : t[k] \in Uppers \cup Lowers <=> s[k] \in Uppers \cup Lowers
    BY Zenon DEF SameKind
  <2>2. PICK class : class = Uppers \cup Lowers
    OBVIOUS
  <2>3. AllIn(t, class) = AllIn(s, class)
    BY <2>1, <2>2, SameClass
  <2> QED
    BY <2>2, <2>3 DEF isAlpha
<1>4. isAlnum(t) = isAlnum(s)
  <2>1. \A k \in DOMAIN s :
          t[k] \in Digits \cup Uppers \cup Lowers <=> s[k] \in Digits \cup Uppers \cup Lowers
    BY Zenon DEF SameKind
  <2>2. PICK class : class = Digits \cup Uppers \cup Lowers
    OBVIOUS
  <2>3. AllIn(t, class) = AllIn(s, class)
    BY <2>1, <2>2, SameClass
  <2> QED
    BY <2>2, <2>3 DEF isAlnum
<1>5. isAscii(t) = isAscii(s)
  <2>1. \A k \in DOMAIN s : t[k] \in 0..127 <=> s[k] \in 0..127
    BY Zenon DEF SameKind
  <2>2. PICK class : class = 0..127
    OBVIOUS
  <2>3. AllIn(t, class) = AllIn(s, class)
    BY <2>1, <2>2, SameClass
  <2> QED
    BY <2>2, <2>3 DEF isAscii
<1>6. isPrint(t) = isPrint(s)
  <2>1. \A k \in DOMAIN s : t[k] \in 32..126 <=> s[k] \in 32..126
    BY Zenon DEF SameKind
  <2>2. PICK class : class = 32..126
    OBVIOUS
  <2>3. AllIn(t, class) = AllIn(s, class)
    BY <2>1, <2>2, SameClass
  <2> QED
    BY <2>2, <2>3 DEF isPrint
<1> QED
  BY <1>1, <1>2, <1>3, <1>4, <1>5, <1>6

LEMMA CaseOfText ==
  ASSUME NEW s \in Seq(Int)
  PROVE  /\ Len(str2upper(s)) = Len(s) /\ Len(str2lower(s)) = Len(s)
         /\ \A k \in DOMAIN s :
              /\ s[k] \notin Lowers => str2upper(s)[k] = s[k]
              /\ s[k] \notin Uppers => str2lower(s)[k] = s[k]
              /\ str2upper(s)[k] \notin Lowers /\ str2lower(s)[k] \notin Uppers
         /\ <<isDigit(str2upper(s)), isHex(str2upper(s)), isAlpha(str2upper(s)),
              isAlnum(str2upper(s)), isAscii(str2upper(s)), isPrint(str2upper(s))>>
              = <<isDigit(s), isHex(s), isAlpha(s), isAlnum(s), isAscii(s), isPrint(s)>>
         /\ <<isDigit(str2lower(s)), isHex(str2lower(s)), isAlpha(str2lower(s)),
              isAlnum(str2lower(s)), isAscii(str2lower(s)), isPrint(str2lower(s))>>
              = <<isDigit(s), isHex(s), isAlpha(s), isAlnum(s), isAscii(s), isPrint(s)>>
         /\ str2upper(str2lower(s)) = str2upper(s)
         /\ str2lower(str2upper(s)) = str2lower(s)
<1> DEFINE up(c) == c - IF c \in Lowers THEN Chra - ChrA ELSE 0
           low(c) == c + IF c \in Uppers THEN Chra - ChrA ELSE 0
<1>0. Len(s) \in Nat /\ DOMAIN s = 1..Len(s)
  BY LenProperties
<1>1. \A k \in DOMAIN s : s[k] \in Int
  BY ElementOfSeq, LenProperties
<1>2. \A c \in Int : SameKind(c, up(c))
  BY DEF SameKind, Digits, Uppers, Lowers, Chr0, ChrA, Chra
<1>3. \A c \in Int : SameKind(c, low(c))
  BY DEF SameKind, Digits, Uppers, Lowers, Chr0, ChrA, Chra
<1>4. \A c \in Int : up(low(c)) = up(c) /\ low(up(c)) = low(c)
  BY DEF Uppers, Lowers, ChrA, Chra
<1>5. \A c \in Int : /\ c \notin Lowers => up(c) = c
                     /\ c \notin Uppers => low(c) = c
                     /\ up(c) \notin Lowers /\ low(c) \notin Uppers
  BY DEF Uppers, Lowers, ChrA, Chra
<1>6. str2upper(s) = [k \in DOMAIN s |-> up(s[k])]
  BY DEF str2upper
<1>7. str2lower(s) = [k \in DOMAIN s |-> low(s[k])]
  BY DEF str2lower
<1>8. /\ str2upper(str2lower(s)) = [k \in DOMAIN s |-> up(str2lower(s)[k])]
      /\ str2lower(str2upper(s)) = [k \in DOMAIN s |-> low(str2upper(s)[k])]
  BY <1>6, <1>7 DEF str2upper, str2lower
<1> HIDE DEF up, low
<1>9. DOMAIN s = DOMAIN str2upper(s) /\ \A k \in DOMAIN s : SameKind(s[k], str2upper(s)[k])
  BY <1>1, <1>2, <1>6
<1>10. DOMAIN s = DOMAIN str2lower(s) /\ \A k \in DOMAIN s : SameKind(s[k], str2lower(s)[k])
  BY <1>1, <1>3, <1>7
<1>11. \A k \in DOMAIN s : /\ up(str2lower(s)[k]) = up(s[k])
                           /\ low(str2upper(s)[k]) = low(s[k])
  BY <1>1, <1>4, <1>6, <1>7
<1>12. str2upper(str2lower(s)) = str2upper(s) /\ str2lower(str2upper(s)) = str2lower(s)
  BY <1>6, <1>7, <1>8, <1>11
<1>13. \A k \in DOMAIN s :
         /\ s[k] \notin Lowers => str2upper(s)[k] = s[k]
         /\ s[k] \notin Uppers => str2lower(s)[k] = s[k]
         /\ str2upper(s)[k] \notin Lowers /\ str2lower(s)[k] \notin Uppers
  BY <1>1, <1>5, <1>6, <1>7
<1>14. <<isDigit(str2upper(s)), isHex(str2upper(s)), isAlpha(str2upper(s)),
         isAlnum(str2upper(s)), isAscii(str2upper(s)), isPrint(str2upper(s))>>
         = <<isDigit(s), isHex(s), isAlpha(s), isAlnum(s), isAscii(s), isPrint(s)>>
  BY <1>9, SameClasses, Zenon
<1>15. <<isDigit(str2lower(s)), isHex(str2lower(s)), isAlpha(str2lower(s)),
         isAlnum(str2lower(s)), isAscii(str2lower(s)), isPrint(str2lower(s))>>
         = <<isDigit(s), isHex(s), isAlpha(s), isAlnum(s), isAscii(s), isPrint(s)>>
  BY <1>10, SameClasses, Zenon
<1>16. Len(str2upper(s)) = Len(s) /\ Len(str2lower(s)) = Len(s)
  BY <1>0, <1>6, <1>7
<1> QED
  BY <1>12, <1>13, <1>14, <1>15, <1>16

LEMMA TextInvAgrees == TextInv => TextToolsAgree
<1> SUFFICES ASSUME TextInv PROVE TextToolsAgree
  OBVIOUS
<1>1. PICK s : s = text
  OBVIOUS
<1>2. s \in Seq(Int)
  BY <1>1 DEF TextInv
<1>3. CaseKeepsTheRest
  BY <1>1, <1>2, CaseOfText, Zenon DEF CaseKeepsTheRest
<1>4. TrimsAgree
  BY <1>1, <1>2, RightOfText, LeftOfText, AllOfText, TrimmedText, Zenon DEF TrimsAgree
<1> QED
  BY <1>3, <1>4 DEF TextToolsAgree

(* The blanks and the case, for texts of any length and buffers of any size: *)
(* the trims take blanks off the ends and leave the rest as it is, the local  *)
(* buffers cut nothing but the end, and a conversion of the case changes no   *)
(* other character than a letter of the other case.                           *)
THEOREM TextToolsRight == TextSpec => []TextToolsAgree
BY TextInvAgrees, TextInvariant, PTL

-----------------------------------------------------------------------------
(* Check bytes *)

(* What lrcBuf has after n bytes of the function f. *)
Running(c, f, n) == c = [k \in 0..n |-> IF k = 0 THEN 0 ELSE BitXor(c[k - 1], f[k])]

CheckOf(f, n) == lrcBuf([k \in 1..n |-> f[k]])

(* There is such a function, for every length; and only one.                 *)
LEMMA RunningExists == \A f : \A n \in Nat : \E c : Running(c, f, n)
<1> SUFFICES ASSUME NEW f PROVE \A n \in Nat : \E c : Running(c, f, n)
  OBVIOUS
<1> DEFINE Good == {n \in Nat : \E c : Running(c, f, n)}
<1>1. 0 \in Good
  <2>1. Running([k \in 0..0 |-> 0], f, 0)
    BY DEF Running
  <2> QED
    BY <2>1
<1>2. ASSUME NEW n \in Nat, n \in Good PROVE n + 1 \in Good
  <2>1. PICK h : Running(h, f, n)
    BY <1>2
  <2> DEFINE c == [k \in 0..(n + 1) |-> IF k = n + 1 THEN BitXor(h[n], f[n + 1]) ELSE h[k]]
  <2>2. ASSUME NEW k \in 0..(n + 1)
        PROVE  c[k] = IF k = 0 THEN 0 ELSE BitXor(c[k - 1], f[k])
    <3>1. CASE k = n + 1
      <4>1. k - 1 = n /\ n \in 0..(n + 1) /\ n # n + 1 /\ k # 0
        BY <3>1
      <4>2. c[n] = h[n] /\ c[k] = BitXor(h[n], f[n + 1])
        BY <3>1, <4>1
      <4> QED
        BY <3>1, <4>1, <4>2
    <3>2. CASE k # n + 1
      <4>1. k \in 0..n /\ (k # 0 => k - 1 \in 0..(n + 1) /\ k - 1 # n + 1)
        BY <3>2
      <4>2. h[k] = IF k = 0 THEN 0 ELSE BitXor(h[k - 1], f[k])
        BY <2>1, <4>1 DEF Running
      <4>3. c[k] = h[k] /\ (k # 0 => c[k - 1] = h[k - 1])
        BY <3>2, <4>1
      <4> HIDE DEF c
      <4> QED
        BY <4>2, <4>3
    <3> QED
      BY <3>1, <3>2
  <2>3. c = [k \in 0..(n + 1) |-> c[k]]
    OBVIOUS
  <2> HIDE DEF c
  <2>4. c = [k \in 0..(n + 1) |-> IF k = 0 THEN 0 ELSE BitXor(c[k - 1], f[k])]
    BY <2>2, <2>3
  <2> QED
    BY <2>4 DEF Running
<1> HIDE DEF Good
<1>3. \A n \in Nat : n \in Good
  BY <1>1, <1>2, AllNumbers
<1> QED
  BY <1>3 DEF Good

LEMMA RunningUnique ==
  ASSUME NEW f, NEW m \in Nat, NEW n \in Nat, NEW c, NEW d,
         Running(c, f, m), Running(d, f, n)
  PROVE  \A k \in Nat : k <= m /\ k <= n => c[k] = d[k]
<1> DEFINE Same == {k \in Nat : k <= m /\ k <= n => c[k] = d[k]}
<1>1. 0 \in Same
  <2>1. 0 \in 0..m /\ 0 \in 0..n
    OBVIOUS
  <2> QED
    BY <2>1 DEF Running
<1>2. ASSUME NEW k \in Nat, k \in Same PROVE k + 1 \in Same
  <2> SUFFICES ASSUME k + 1 <= m, k + 1 <= n PROVE c[k + 1] = d[k + 1]
    OBVIOUS
  <2>1. k + 1 \in 0..m /\ k + 1 \in 0..n /\ k + 1 # 0 /\ k + 1 - 1 = k /\ k <= m /\ k <= n
    OBVIOUS
  <2>2. c[k] = d[k]
    BY <1>2, <2>1
  <2>3. c[k + 1] = BitXor(c[k], f[k + 1]) /\ d[k + 1] = BitXor(d[k], f[k + 1])
    BY <2>1 DEF Running
  <2> QED
    BY <2>2, <2>3
<1> HIDE DEF Same
<1>3. \A k \in Nat : k \in Same
  BY <1>1, <1>2, AllNumbers
<1> QED
  BY <1>3 DEF Same

(* The LET of lrcBuf. *)
LEMMA LastOfRunning ==
  ASSUME NEW s, Len(s) \in Nat
  PROVE  \E c : Running(c, s, Len(s)) /\ lrcBuf(s) = c[Len(s)]
<1> DEFINE n == Len(s)
<1>1. \E c : c = [k \in 0..Len(s) |-> IF k = 0 THEN 0 ELSE BitXor(c[k - 1], s[k])]
  BY RunningExists, Zenon DEF Running
<1>2. PICK d : d = [k \in 0..Len(s) |-> IF k = 0 THEN 0 ELSE BitXor(d[k - 1], s[k])]
               /\ lrcBuf(s) = d[Len(s)]
  BY <1>1, Zenon DEF lrcBuf
<1> QED
  BY <1>2, Zenon DEF Running

(* Hence it is the one inside lrcBuf, which takes a byte at a time.          *)
LEMMA CheckRuns ==
  ASSUME NEW f, NEW n \in Nat
  PROVE  \E c : Running(c, f, n) /\ CheckOf(f, n) = c[n]
<1> DEFINE s == [k \in 1..n |-> f[k]]
<1>1. Len(s) = n /\ \A k \in 1..n : s[k] = f[k]
  <2>1. DOMAIN s = 1..n
    OBVIOUS
  <2> QED
    BY <2>1
<1>2. CheckOf(f, n) = lrcBuf(s)
  BY DEF CheckOf
<1> HIDE DEF s
<1>3. PICK c : Running(c, s, n) /\ CheckOf(f, n) = c[n]
  BY <1>1, <1>2, LastOfRunning
<1>4. \A k \in 0..n : k # 0 => s[k] = f[k]
  BY <1>1
<1>5. [k \in 0..n |-> IF k = 0 THEN 0 ELSE BitXor(c[k - 1], s[k])]
        = [k \in 0..n |-> IF k = 0 THEN 0 ELSE BitXor(c[k - 1], f[k])]
  BY <1>4
<1> QED
  BY <1>3, <1>5 DEF Running

LEMMA CheckSteps ==
  ASSUME NEW f
  PROVE  /\ CheckOf(f, 0) = 0
         /\ \A n \in Nat : CheckOf(f, n + 1) = BitXor(CheckOf(f, n), f[n + 1])
<1>1. CheckOf(f, 0) = 0
  <2>1. PICK c : Running(c, f, 0) /\ CheckOf(f, 0) = c[0]
    BY CheckRuns
  <2> QED
    BY <2>1 DEF Running
<1>2. ASSUME NEW n \in Nat PROVE CheckOf(f, n + 1) = BitXor(CheckOf(f, n), f[n + 1])
  <2>1. PICK c : Running(c, f, n) /\ CheckOf(f, n) = c[n]
    BY CheckRuns
  <2>2. n + 1 \in Nat
    OBVIOUS
  <2>3. PICK d : Running(d, f, n + 1) /\ CheckOf(f, n + 1) = d[n + 1]
    BY <2>2, CheckRuns
  <2>4. n <= n /\ n <= n + 1 /\ n + 1 \in 0..(n + 1) /\ n + 1 # 0 /\ n + 1 - 1 = n
    OBVIOUS
  <2>5. c[n] = d[n]
    BY <2>1, <2>2, <2>3, <2>4, RunningUnique
  <2>6. d[n + 1] = BitXor(d[n], f[n + 1])
    BY <2>3, <2>4 DEF Running
  <2> QED
    BY <2>1, <2>3, <2>5, <2>6
<1> QED
  BY <1>1, <1>2

(* Bytes *)

Bit(v, bits) == IF v \in bits THEN 1 ELSE 0

(* A byte is known by its bits. *)
LEMMA ByteHasItsBits ==
  ASSUME NEW bits \in SUBSET BitValues
  PROVE  BitsOf(ByteOf(bits)) = bits /\ ByteOf(bits) \in 0..255
<1>1. \A v : Bit(v, bits) \in {0, 1} /\ (Bit(v, bits) = 1 <=> v \in bits)
  BY DEF Bit
<1>2. PICK n : n = ByteOf(bits)
  OBVIOUS
<1>b1. PICK b1 \in {0, 1} : b1 = Bit(1, bits)
  BY <1>1
<1>b2. PICK b2 \in {0, 1} : b2 = Bit(2, bits)
  BY <1>1
<1>b4. PICK b4 \in {0, 1} : b4 = Bit(4, bits)
  BY <1>1
<1>b8. PICK b8 \in {0, 1} : b8 = Bit(8, bits)
  BY <1>1
<1>b16. PICK b16 \in {0, 1} : b16 = Bit(16, bits)
  BY <1>1
<1>b32. PICK b32 \in {0, 1} : b32 = Bit(32, bits)
  BY <1>1
<1>b64. PICK b64 \in {0, 1} : b64 = Bit(64, bits)
  BY <1>1
<1>b128. PICK b128 \in {0, 1} : b128 = Bit(128, bits)
  BY <1>1
<1>4. n = b1 + 2*b2 + 4*b4 + 8*b8 + 16*b16 + 32*b32 + 64*b64 + 128*b128
  BY <1>2, <1>b1, <1>b2, <1>b4, <1>b8, <1>b16, <1>b32, <1>b64, <1>b128
  DEF ByteOf, Bit
<1>5. n \in 0..255
  BY <1>4
<1>6. (n \div 1) % 2 = b1
  BY <1>4
<1>7. (n \div 2) % 2 = b2
  BY <1>4
<1>8. (n \div 4) % 2 = b4
  BY <1>4
<1>9. (n \div 8) % 2 = b8
  BY <1>4
<1>10. (n \div 16) % 2 = b16
  BY <1>4
<1>11. (n \div 32) % 2 = b32
  BY <1>4
<1>12. (n \div 64) % 2 = b64
  BY <1>4
<1>13. (n \div 128) % 2 = b128
  BY <1>4
<1>14. ASSUME NEW v \in BitValues PROVE (n \div v) % 2 = 1 <=> v \in bits
  <2>1. (n \div v) % 2 = Bit(v, bits)
    BY <1>6, <1>7, <1>8, <1>9, <1>10, <1>11, <1>12, <1>13,
       <1>b1, <1>b2, <1>b4, <1>b8, <1>b16, <1>b32, <1>b64, <1>b128 DEF BitValues
  <2> QED
    BY <1>1, <2>1
<1>15. BitsOf(n) = bits
  BY <1>14 DEF BitsOf
<1> QED
  BY <1>2, <1>5, <1>15

(* What BitXor and lrcBuf can give. *)
CheckBytes == {ByteOf(bits) : bits \in SUBSET BitValues}

(* Exclusive or is the symmetric difference of the bits.                     *)
LEMMA XorBits ==
  ASSUME NEW a, NEW b
  PROVE  /\ BitXor(a, b) \in CheckBytes
         /\ BitsOf(BitXor(a, b)) = (BitsOf(a) \ BitsOf(b)) \cup (BitsOf(b) \ BitsOf(a))
<1>1. (BitsOf(a) \ BitsOf(b)) \cup (BitsOf(b) \ BitsOf(a)) \in SUBSET BitValues
  BY DEF BitsOf
<1>2. PICK bits \in SUBSET BitValues :
        bits = (BitsOf(a) \ BitsOf(b)) \cup (BitsOf(b) \ BitsOf(a))
  BY <1>1
<1>3. BitXor(a, b) = ByteOf(bits)
  BY <1>2, Zenon DEF BitXor
<1>4. BitsOf(ByteOf(bits)) = bits
  BY ByteHasItsBits
<1>5. BitXor(a, b) \in CheckBytes
  BY <1>3 DEF CheckBytes
<1> QED
  BY <1>2, <1>3, <1>4, <1>5

LEMMA SameBits ==
  ASSUME NEW a \in CheckBytes, NEW b \in CheckBytes, BitsOf(a) = BitsOf(b)
  PROVE  a = b
<1>1. PICK s \in SUBSET BitValues : a = ByteOf(s)
  BY DEF CheckBytes
<1>2. PICK t \in SUBSET BitValues : b = ByteOf(t)
  BY DEF CheckBytes
<1>3. BitsOf(a) = s
  BY <1>1, ByteHasItsBits
<1>4. BitsOf(b) = t
  BY <1>2, ByteHasItsBits
<1> QED
  BY <1>1, <1>2, <1>3, <1>4

LEMMA ZeroBits == 0 \in CheckBytes /\ BitsOf(0) = {}
<1>1. ByteOf({}) = 0
  BY DEF ByteOf
<1>2. {} \in SUBSET BitValues
  OBVIOUS
<1> QED
  BY <1>1, <1>2, ByteHasItsBits DEF CheckBytes

(* Every check byte is a byte.                                               *)
LEMMA CheckIsByte ==
  ASSUME NEW f
  PROVE  \A n \in Nat : CheckOf(f, n) \in CheckBytes
<1> DEFINE Good == {n \in Nat : CheckOf(f, n) \in CheckBytes}
<1>1. 0 \in Good
  BY CheckSteps, ZeroBits
<1>2. ASSUME NEW n \in Nat, n \in Good PROVE n + 1 \in Good
  <2>1. CheckOf(f, n + 1) = BitXor(CheckOf(f, n), f[n + 1])
    BY CheckSteps
  <2>2. CheckOf(f, n + 1) \in CheckBytes
    BY <2>1, XorBits
  <2> QED
    BY <2>2
<1> HIDE DEF Good
<1>3. \A n \in Nat : n \in Good
  BY <1>1, <1>2, AllNumbers
<1> QED
  BY <1>3 DEF Good

(* Check bytes of functions *)

(* Zeros do not change it. *)
LEMMA CheckOfZeros ==
  ASSUME NEW f, NEW m \in Nat, \A k \in 1..m : f[k] = 0
  PROVE  CheckOf(f, m) = 0
<1> DEFINE Good == {n \in Nat : n <= m => CheckOf(f, n) = 0}
<1>1. 0 \in Good
  BY CheckSteps
<1>2. ASSUME NEW n \in Nat, n \in Good PROVE n + 1 \in Good
  <2> SUFFICES ASSUME n + 1 <= m PROVE CheckOf(f, n + 1) = 0
    OBVIOUS
  <2>1. CheckOf(f, n) = 0 /\ f[n + 1] = 0
    BY <1>2
  <2>2. CheckOf(f, n + 1) = BitXor(0, 0)
    BY <2>1, CheckSteps
  <2>3. BitXor(0, 0) = 0
    BY XorBits, ZeroBits, SameBits
  <2> QED
    BY <2>2, <2>3
<1> HIDE DEF Good
<1>3. \A n \in Nat : n \in Good
  BY <1>1, <1>2, AllNumbers
<1>4. m \in Good /\ m <= m
  BY <1>3
<1> QED
  BY <1>4 DEF Good

(* Symmetric differences in another order.                                   *)
LEMMA FourBytes ==
  ASSUME NEW a, NEW b, NEW c, NEW d
  PROVE  BitXor(BitXor(a, b), BitXor(c, d)) = BitXor(BitXor(a, c), BitXor(b, d))
<1> DEFINE x == BitXor(a, b)  y == BitXor(c, d)  u == BitXor(a, c)  w == BitXor(b, d)
<1>1. /\ BitsOf(x) = (BitsOf(a) \ BitsOf(b)) \cup (BitsOf(b) \ BitsOf(a))
      /\ BitsOf(y) = (BitsOf(c) \ BitsOf(d)) \cup (BitsOf(d) \ BitsOf(c))
      /\ BitsOf(u) = (BitsOf(a) \ BitsOf(c)) \cup (BitsOf(c) \ BitsOf(a))
      /\ BitsOf(w) = (BitsOf(b) \ BitsOf(d)) \cup (BitsOf(d) \ BitsOf(b))
  BY XorBits
<1> HIDE DEF x, y, u, w
<1>2. BitsOf(BitXor(x, y)) = (BitsOf(x) \ BitsOf(y)) \cup (BitsOf(y) \ BitsOf(x))
  BY XorBits
<1>3. BitsOf(BitXor(u, w)) = (BitsOf(u) \ BitsOf(w)) \cup (BitsOf(w) \ BitsOf(u))
  BY XorBits
<1>4. BitsOf(BitXor(x, y)) = BitsOf(BitXor(u, w))
  BY <1>1, <1>2, <1>3
<1>5. BitXor(x, y) \in CheckBytes /\ BitXor(u, w) \in CheckBytes
  BY XorBits
<1>6. BitXor(x, y) = BitXor(u, w)
  BY <1>4, <1>5, SameBits
<1> QED
  BY <1>6 DEF x, y, u, w

(* The check byte of a function that is the sum of two others. *)
LEMMA CheckOfSum ==
  ASSUME NEW f, NEW g, NEW h, NEW m \in Nat,
         \A k \in 1..m : h[k] = BitXor(f[k], g[k])
  PROVE  CheckOf(h, m) = BitXor(CheckOf(f, m), CheckOf(g, m))
<1> DEFINE Good == {n \in Nat : n <= m => CheckOf(h, n) = BitXor(CheckOf(f, n), CheckOf(g, n))}
<1>1. 0 \in Good
  <2>1. BitXor(0, 0) = 0
    BY XorBits, ZeroBits, SameBits
  <2> QED
    BY <2>1, CheckSteps
<1>2. ASSUME NEW n \in Nat, n \in Good PROVE n + 1 \in Good
  <2> SUFFICES ASSUME n + 1 <= m
               PROVE  CheckOf(h, n + 1) = BitXor(CheckOf(f, n + 1), CheckOf(g, n + 1))
    OBVIOUS
  <2>1. CheckOf(h, n) = BitXor(CheckOf(f, n), CheckOf(g, n)) /\ n + 1 \in 1..m
    BY <1>2
  <2>2. h[n + 1] = BitXor(f[n + 1], g[n + 1])
    BY <2>1
  <2>3. CheckOf(h, n + 1) = BitXor(CheckOf(h, n), h[n + 1])
    BY CheckSteps
  <2>4. CheckOf(f, n + 1) = BitXor(CheckOf(f, n), f[n + 1])
    BY CheckSteps
  <2>5. CheckOf(g, n + 1) = BitXor(CheckOf(g, n), g[n + 1])
    BY CheckSteps
  <2> QED
    BY <2>1, <2>2, <2>3, <2>4, <2>5, FourBytes
<1> HIDE DEF Good
<1>3. \A n \in Nat : n \in Good
  BY <1>1, <1>2, AllNumbers
<1>4. m \in Good /\ m <= m
  BY <1>3
<1> QED
  BY <1>4 DEF Good

LEMMA ThreeBytes ==
  ASSUME NEW a, NEW b, NEW c
  PROVE  BitXor(BitXor(a, b), c) = BitXor(a, BitXor(b, c))
<1> DEFINE x == BitXor(a, b)  y == BitXor(b, c)
<1>1. /\ BitsOf(x) = (BitsOf(a) \ BitsOf(b)) \cup (BitsOf(b) \ BitsOf(a))
      /\ BitsOf(y) = (BitsOf(b) \ BitsOf(c)) \cup (BitsOf(c) \ BitsOf(b))
  BY XorBits
<1> HIDE DEF x, y
<1>2. BitsOf(BitXor(x, c)) = (BitsOf(x) \ BitsOf(c)) \cup (BitsOf(c) \ BitsOf(x))
  BY XorBits
<1>3. BitsOf(BitXor(a, y)) = (BitsOf(a) \ BitsOf(y)) \cup (BitsOf(y) \ BitsOf(a))
  BY XorBits
<1>4. BitsOf(BitXor(x, c)) = BitsOf(BitXor(a, y))
  BY <1>1, <1>2, <1>3
<1>5. BitXor(x, c) \in CheckBytes /\ BitXor(a, y) \in CheckBytes
  BY XorBits
<1>6. BitXor(x, c) = BitXor(a, y)
  BY <1>4, <1>5, SameBits
<1> QED
  BY <1>6 DEF x, y

LEMMA XorZero == ASSUME NEW a \in CheckBytes PROVE BitXor(a, 0) = a
<1>1. BitsOf(BitXor(a, 0)) = BitsOf(a)
  BY XorBits, ZeroBits
<1> QED
  BY <1>1, XorBits, SameBits

(* The check byte of two parts, the second given by the function g. *)
LEMMA CheckOfParts ==
  ASSUME NEW f, NEW g, NEW a \in Nat, NEW m \in Nat, \A k \in 1..m : g[k] = f[a + k]
  PROVE  CheckOf(f, a + m) = BitXor(CheckOf(f, a), CheckOf(g, m))
<1> DEFINE Good ==
             {n \in Nat : n <= m => CheckOf(f, a + n) = BitXor(CheckOf(f, a), CheckOf(g, n))}
<1>1. 0 \in Good
  <2>1. CheckOf(g, 0) = 0 /\ a + 0 = a /\ CheckOf(f, a) \in CheckBytes
    BY CheckSteps, CheckIsByte
  <2> QED
    BY <2>1, XorZero
<1>2. ASSUME NEW n \in Nat, n \in Good PROVE n + 1 \in Good
  <2> SUFFICES ASSUME n + 1 <= m
               PROVE  CheckOf(f, a + (n + 1)) = BitXor(CheckOf(f, a), CheckOf(g, n + 1))
    OBVIOUS
  <2>1. CheckOf(f, a + n) = BitXor(CheckOf(f, a), CheckOf(g, n)) /\ n + 1 \in 1..m
    BY <1>2
  <2>2. g[n + 1] = f[a + (n + 1)]
    BY <2>1
  <2>3. a + (n + 1) = (a + n) + 1 /\ a + n \in Nat
    OBVIOUS
  <2>4. CheckOf(f, (a + n) + 1) = BitXor(CheckOf(f, a + n), f[(a + n) + 1])
    BY <2>3, CheckSteps
  <2>5. CheckOf(g, n + 1) = BitXor(CheckOf(g, n), g[n + 1])
    BY CheckSteps
  <2> QED
    BY <2>1, <2>2, <2>3, <2>4, <2>5, ThreeBytes
<1> HIDE DEF Good
<1>3. \A n \in Nat : n \in Good
  BY <1>1, <1>2, AllNumbers
<1>4. m \in Good /\ m <= m
  BY <1>3
<1> QED
  BY <1>4 DEF Good

Padded(s) == [k \in Int |-> IF k \in 1..Len(s) THEN s[k] ELSE 0]

(* Byte j of every group, the bytes of group m + 1, and what XOR has after m groups. *)
Column(s, j) == [pos \in Int |-> Padded(s)[(pos - 1) * BlockLen + j]]
Group(s, m)  == [j \in Int |-> Padded(s)[m * BlockLen + j]]
Folded(s, m) == [j \in Int |-> CheckOf(Column(s, j), m)]

Groups(s) == (Len(s) + BlockLen - 1) \div BlockLen

LEMMA Products == \A x, y \in Nat : x * y \in Nat
OBVIOUS

(* The groups take in all of the text.                                       *)
LEMMA GroupsCover ==
  ASSUME NEW n \in Nat, NEW b \in Nat \ {0}
  PROVE  /\ (n + b - 1) \div b \in Nat
         /\ ((n + b - 1) \div b) * b >= n
<1> DEFINE q == (n + b - 1) \div b
           r == (n + b - 1) % b
<1>1. n + b - 1 \in Nat
  OBVIOUS
<1>2. q \in Int /\ r \in 0..(b - 1) /\ n + b - 1 = b * q + r
  BY <1>1
<1>3. b * q \in Int /\ b * q = q * b
  BY <1>2
<1> HIDE DEF q, r
<1>4. q * b >= n
  BY <1>2, <1>3
<1>5. q >= 0
  BY <1>2, <1>4
<1> QED
  BY <1>2, <1>4, <1>5 DEF q

(* The check byte of what m groups are folded into. *)
LEMMA FoldedCheck ==
  ASSUME NEW s \in Seq(Int)
  PROVE  \A m \in Nat : CheckOf(Folded(s, m), BlockLen) = CheckOf(Padded(s), m * BlockLen)
<1>0. BlockLen \in Nat
  BY TextToolsAssumption
<1> DEFINE Good ==
             {m \in Nat : CheckOf(Folded(s, m), BlockLen) = CheckOf(Padded(s), m * BlockLen)}
<1>1. 0 \in Good
  <2>1. \A k \in 1..BlockLen : Folded(s, 0)[k] = 0
    BY CheckSteps DEF Folded
  <2>2. CheckOf(Folded(s, 0), BlockLen) = 0
    BY <1>0, <2>1, CheckOfZeros
  <2>3. 0 * BlockLen = 0
    BY <1>0
  <2>4. CheckOf(Padded(s), 0 * BlockLen) = 0
    BY <2>3, CheckSteps
  <2> QED
    BY <2>2, <2>4
<1>2. ASSUME NEW m \in Nat, m \in Good PROVE m + 1 \in Good
  <2>1. m * BlockLen \in Nat /\ (m + 1) * BlockLen = m * BlockLen + BlockLen
    BY <1>0
  <2>2. CheckOf(Folded(s, m), BlockLen) = CheckOf(Padded(s), m * BlockLen)
    BY <1>2
  <2>3. ASSUME NEW j \in 1..BlockLen
        PROVE  Folded(s, m + 1)[j] = BitXor(Folded(s, m)[j], Group(s, m)[j])
    <3>1. j \in Int /\ m + 1 \in Int /\ m + 1 - 1 = m
      OBVIOUS
    <3>2. CheckOf(Column(s, j), m + 1) = BitXor(CheckOf(Column(s, j), m), Column(s, j)[m + 1])
      BY CheckSteps
    <3>3. Column(s, j)[m + 1] = Group(s, m)[j]
      BY <3>1 DEF Column, Group
    <3> QED
      BY <3>1, <3>2, <3>3 DEF Folded
  <2>4. CheckOf(Folded(s, m + 1), BlockLen)
          = BitXor(CheckOf(Folded(s, m), BlockLen), CheckOf(Group(s, m), BlockLen))
    BY <1>0, <2>3, CheckOfSum
  <2>5. \A k \in 1..BlockLen : Group(s, m)[k] = Padded(s)[m * BlockLen + k]
    BY DEF Group
  <2>6. CheckOf(Padded(s), m * BlockLen + BlockLen)
          = BitXor(CheckOf(Padded(s), m * BlockLen), CheckOf(Group(s, m), BlockLen))
    BY <1>0, <2>1, <2>5, CheckOfParts
  <2> QED
    BY <2>1, <2>2, <2>4, <2>6
<1> HIDE DEF Good
<1>3. \A m \in Nat : m \in Good
  BY <1>1, <1>2, AllNumbers
<1> QED
  BY <1>3 DEF Good

(* From the last group to the padding, and from there to the text.           *)
LEMMA CheckOfText ==
  ASSUME NEW s \in Seq(Int)
  PROVE  lrcBuf(XOR(s)) = lrcBuf(s)
<1>0. BlockLen \in Nat \ {0} /\ Len(s) \in Nat
  BY TextToolsAssumption, LenProperties
<1>1. Groups(s) \in Nat /\ Groups(s) * BlockLen >= Len(s)
  BY <1>0, GroupsCover DEF Groups
<1>2. lrcBuf(XOR(s)) = CheckOf(Folded(s, Groups(s)), BlockLen)
  <2>1. ASSUME NEW j \in 1..BlockLen
        PROVE  Folded(s, Groups(s))[j]
                 = lrcBuf([pos \in 1..Groups(s) |->
                     IF (pos - 1) * BlockLen + j > Len(s) THEN 0 ELSE s[(pos - 1) * BlockLen + j]])
    <3>1. ASSUME NEW pos \in 1..Groups(s)
          PROVE  Column(s, j)[pos]
                   = IF (pos - 1) * BlockLen + j > Len(s) THEN 0 ELSE s[(pos - 1) * BlockLen + j]
      <4>1. pos - 1 \in Nat /\ pos \in Int
        BY <1>1
      <4>2. PICK x \in Nat : x = (pos - 1) * BlockLen
        BY <1>0, <4>1, Products
      <4>3. x + j \in Int /\ (x + j > Len(s) <=> x + j \notin 1..Len(s))
        BY <1>0
      <4> QED
        BY <4>1, <4>2, <4>3 DEF Column, Padded
    <3>2. [pos \in 1..Groups(s) |-> Column(s, j)[pos]]
            = [pos \in 1..Groups(s) |->
                 IF (pos - 1) * BlockLen + j > Len(s) THEN 0 ELSE s[(pos - 1) * BlockLen + j]]
      BY <3>1
    <3>3. j \in Int
      OBVIOUS
    <3> QED
      BY <3>2, <3>3 DEF Folded, CheckOf
  <2>2. XOR(s) = [j \in 1..BlockLen |->
                    lrcBuf([pos \in 1..Groups(s) |->
                      IF (pos - 1) * BlockLen + j > Len(s) THEN 0 ELSE s[(pos - 1) * BlockLen + j]])]
    BY Zenon DEF XOR, Groups
  <2>3. XOR(s) = [j \in 1..BlockLen |-> Folded(s, Groups(s))[j]]
    BY <2>1, <2>2, Zenon
  <2> QED
    BY <2>3 DEF CheckOf
<1>3. CheckOf(Folded(s, Groups(s)), BlockLen) = CheckOf(Padded(s), Groups(s) * BlockLen)
  BY <1>1, FoldedCheck
<1>4. CheckOf(Padded(s), Groups(s) * BlockLen) = CheckOf(Padded(s), Len(s))
  <2>1. PICK g : g = [k \in Int |-> Padded(s)[Len(s) + k]]
    OBVIOUS
  <2>2. PICK m \in Nat : Groups(s) * BlockLen = Len(s) + m
    <3>1. Groups(s) * BlockLen \in Nat
      BY <1>0, <1>1, Products
    <3>2. Groups(s) * BlockLen - Len(s) \in Nat
      BY <1>0, <1>1, <3>1
    <3> QED
      BY <1>0, <3>1, <3>2
  <2>7. \A k \in 1..m : g[k] = Padded(s)[Len(s) + k]
    BY <1>0, <2>1
  <2>3. \A k \in 1..m : g[k] = 0
    BY <1>0, <2>1 DEF Padded
  <2>4. CheckOf(Padded(s), Len(s) + m) = BitXor(CheckOf(Padded(s), Len(s)), CheckOf(g, m))
    BY <1>0, <2>7, CheckOfParts
  <2>5. CheckOf(g, m) = 0
    BY <2>3, CheckOfZeros
  <2>6. CheckOf(Padded(s), Len(s)) \in CheckBytes
    BY <1>0, CheckIsByte
  <2> QED
    BY <2>2, <2>4, <2>5, <2>6, XorZero
<1>5. CheckOf(Padded(s), Len(s)) = lrcBuf(s)
  <2>1. \A k \in 1..Len(s) : Padded(s)[k] = s[k]
    BY DEF Padded
  <2>2. [k \in 1..Len(s) |-> Padded(s)[k]] = [k \in 1..Len(s) |-> s[k]]
    BY <2>1
  <2>3. [k \in 1..Len(s) |-> s[k]] = s
    BY LenProperties
  <2> QED
    BY <2>2, <2>3 DEF CheckOf
<1> QED
  BY <1>2, <1>3, <1>4, <1>5

(* lrcBuf and XOR: the check byte of a text is the check byte of the check   *)
(* bytes XOR computes for its columns, whatever the lengths of the text and  *)
(* of a group.                                                               *)
THEOREM ColumnChecksAgree == TextSpec => []ChecksAgree
<1>1. TextInv => ChecksAgree
  BY CheckOfText DEF TextInv, ChecksAgree
<1> QED
  BY <1>1, TextInvariant, PTL

-----------------------------------------------------------------------------
(* BCD *)

HexDigits == Digits \cup ChrA..(ChrA + 5) \cup Chra..(Chra + 5)

HalfBytes == 0..15

(* Both generations take the same value for a character.                     *)
LEMMA HexDigit ==
  ASSUME NEW c \in HexDigits
  PROVE  /\ AscValue(c) = ValueOf(c) /\ ValueOf(c) \in HalfBytes
         /\ HexOf(ValueOf(c)) = c - IF c \in Lowers THEN Chra - ChrA ELSE 0
         /\ ValueOf(c) = 0 <=> c = Chr0
<1> USE DEF HexDigits, HalfBytes, Digits, Lowers, Chr0, ChrA, Chra
<1>1. c \in 48..57 \/ c \in 65..70 \/ c \in 97..102
  OBVIOUS
<1>2. CASE c \in 48..57
  <2>1. ValueOf(c) = c - 48 /\ AscValue(c) = c - 48
    BY <1>2 DEF AscValue, ValueOf
  <2> QED
    BY <1>2, <2>1 DEF HexOf
<1>3. CASE c \in 65..70
  <2>1. ValueOf(c) = c - 55 /\ AscValue(c) = c - 55
    BY <1>3 DEF AscValue, ValueOf
  <2> QED
    BY <1>3, <2>1 DEF HexOf
<1>4. CASE c \in 97..102
  <2>1. ValueOf(c) = c - 87 /\ AscValue(c) = c - 87
    BY <1>4 DEF AscValue, ValueOf
  <2> QED
    BY <1>4, <2>1 DEF HexOf
<1> QED
  BY <1>1, <1>2, <1>3, <1>4

(* The high half byte has no bit in common with the low one. *)
LEMMA HalvesOfByte ==
  ASSUME NEW x \in HalfBytes, NEW y \in HalfBytes
  PROVE  /\ BitOr((x * 16) % 256, y % 256) = 16 * x + y
         /\ (16 * x + y) \div 16 = x /\ (16 * x + y) % 16 = y
         /\ (x * 16 + y) % 256 = 16 * x + y
<1> USE DEF HalfBytes
<1> DEFINE a == 16 * x
           bits == BitsOf(a) \cup BitsOf(y)
<1>1. (x * 16) % 256 = a /\ y % 256 = y
  OBVIOUS
<1>2. /\ 1 \in bits <=> y % 2 = 1
      /\ 2 \in bits <=> (y \div 2) % 2 = 1
      /\ 4 \in bits <=> (y \div 4) % 2 = 1
      /\ 8 \in bits <=> (y \div 8) % 2 = 1
  <2>1. /\ (a \div 1) % 2 = 0 /\ (a \div 2) % 2 = 0
        /\ (a \div 4) % 2 = 0 /\ (a \div 8) % 2 = 0 /\ y \div 1 = y
    OBVIOUS
  <2> QED
    BY <2>1 DEF BitsOf, BitValues
<1>3. /\ 16 \in bits <=> x % 2 = 1
      /\ 32 \in bits <=> (x \div 2) % 2 = 1
      /\ 64 \in bits <=> (x \div 4) % 2 = 1
      /\ 128 \in bits <=> (x \div 8) % 2 = 1
  <2>1. /\ y \div 16 = 0 /\ y \div 32 = 0 /\ y \div 64 = 0 /\ y \div 128 = 0
        /\ a \div 16 = x /\ a \div 32 = x \div 2 /\ a \div 64 = x \div 4 /\ a \div 128 = x \div 8
    OBVIOUS
  <2> QED
    BY <2>1 DEF BitsOf, BitValues
<1> DEFINE bit(v) == IF v \in bits THEN v ELSE 0
<1>4. /\ bit(1) = y % 2 /\ bit(2) = 2 * ((y \div 2) % 2)
      /\ bit(4) = 4 * ((y \div 4) % 2) /\ bit(8) = 8 * ((y \div 8) % 2)
  <2> HIDE DEF bits
  <2> QED
    BY <1>2
<1>5. /\ bit(16) = 16 * (x % 2) /\ bit(32) = 32 * ((x \div 2) % 2)
      /\ bit(64) = 64 * ((x \div 4) % 2) /\ bit(128) = 128 * ((x \div 8) % 2)
  <2> HIDE DEF bits
  <2> QED
    BY <1>3
<1>6. (y % 2) + 2 * ((y \div 2) % 2) + 4 * ((y \div 4) % 2) + 8 * ((y \div 8) % 2) = y
  OBVIOUS
<1>7. 16 * (x % 2) + 32 * ((x \div 2) % 2) + 64 * ((x \div 4) % 2) + 128 * ((x \div 8) % 2)
        = 16 * x
  OBVIOUS
<1>8. ByteOf(bits) = bit(1) + bit(2) + bit(4) + bit(8) + bit(16) + bit(32) + bit(64) + bit(128)
  BY Zenon DEF ByteOf
<1> HIDE DEF bit
<1>9. ByteOf(bits) = 16 * x + y
  <2>1. /\ bit(1) \in Int /\ bit(2) \in Int /\ bit(4) \in Int /\ bit(8) \in Int
        /\ bit(1) + bit(2) + bit(4) + bit(8) = y
    BY <1>4, <1>6
  <2>2. /\ bit(16) \in Int /\ bit(32) \in Int /\ bit(64) \in Int /\ bit(128) \in Int
        /\ bit(16) + bit(32) + bit(64) + bit(128) = 16 * x
    <3>1. bit(16) \in Int /\ bit(32) \in Int /\ bit(64) \in Int /\ bit(128) \in Int
      BY <1>5
    <3>2. bit(16) + bit(32) + bit(64) + bit(128)
            = 16 * (x % 2) + 32 * ((x \div 2) % 2) + 64 * ((x \div 4) % 2) + 128 * ((x \div 8) % 2)
      BY <1>5, Zenon
    <3> QED
      BY <1>7, <3>1, <3>2
  <2> QED
    BY <1>8, <2>1, <2>2
<1>10. (16 * x + y) \div 16 = x /\ (16 * x + y) % 16 = y /\ (x * 16 + y) % 256 = 16 * x + y
  OBVIOUS
<1>11. BitOr((x * 16) % 256, y % 256) = ByteOf(bits)
  <2> HIDE DEF a
  <2> QED
    BY <1>1, Zenon DEF BitOr, bits
<1> HIDE DEF bits
<1> QED
  BY <1>9, <1>10, <1>11

StartOf(s, type) == IF Odd(Len(s)) /\ type THEN 1 ELSE 0

(* The half bytes are the values of the characters, and a zero on the side   *)
(* of the padding when there is an odd number of them.                       *)
LEMMA HalvesOfText ==
  ASSUME NEW s \in Seq(HexDigits), NEW type \in BOOLEAN
  PROVE  LET h == Halves(s, type)
             size == IF Odd(Len(s)) THEN Len(s) + 1 ELSE Len(s)
         IN  /\ Len(h) = size /\ size \in Nat /\ size = 2 * (size \div 2)
             /\ \A k \in 1..size : h[k] \in HalfBytes
             /\ \A pos \in 1..Len(s) :
                  /\ StartOf(s, type) + pos \in 1..size
                  /\ h[StartOf(s, type) + pos] = ValueOf(s[pos])
             /\ Odd(Len(s)) => h[IF type THEN 1 ELSE size] = 0
<1> DEFINE n == Len(s)
           values == [pos \in 1..n |-> AscValue(s[pos])]
           h == Halves(s, type)
           size == IF Odd(n) THEN n + 1 ELSE n
<1>1. n \in Nat /\ \A pos \in 1..n : s[pos] \in HexDigits
  BY LenProperties, ElementOfSeq
<1>2. \A pos \in 1..n : values[pos] = ValueOf(s[pos]) /\ values[pos] \in HalfBytes
  BY <1>1, HexDigit
<1>3. values \in Seq(HalfBytes) /\ Len(values) = n
  BY <1>1, <1>2
<1> DEFINE zero == <<0>>
<1>4. 0 \in HalfBytes
  BY DEF HalfBytes
<1>5. size \in Nat /\ size = 2 * (size \div 2)
  <2>1. CASE n % 2 = 1
    <3>1. size = n + 1
      BY <2>1 DEF Odd
    <3>2. n + 1 = 2 * ((n + 1) \div 2)
      BY <1>1, <2>1
    <3> HIDE DEF size, n
    <3> QED
      BY <1>1, <3>1, <3>2
  <2>2. CASE n % 2 # 1
    <3>1. size = n
      BY <2>2 DEF Odd
    <3>2. n = 2 * (n \div 2)
      BY <1>1, <2>2
    <3> HIDE DEF size, n
    <3> QED
      BY <1>1, <3>1, <3>2
  <2> QED
    BY <2>1, <2>2
<1>6. h = IF ~Odd(n) THEN values
          ELSE IF type THEN zero \o values ELSE values \o zero
  BY DEF Halves
<1> HIDE DEF values, zero, h
<1>7. CASE ~Odd(n)
  <2>1. h = values /\ size = n /\ StartOf(s, type) = 0
    BY <1>6, <1>7 DEF StartOf
  <2> HIDE DEF size, n
  <2>2. \A pos \in 1..n : 0 + pos \in 1..n /\ values[0 + pos] = ValueOf(s[pos])
    BY <1>1, <1>2
  <2>3. /\ Len(h) = size
        /\ \A k \in 1..size : h[k] \in HalfBytes
        /\ \A pos \in 1..n :
          StartOf(s, type) + pos \in 1..size /\ h[StartOf(s, type) + pos] = ValueOf(s[pos])
    BY <1>1, <1>2, <1>3, <2>1, <2>2
  <2> QED
    BY <1>5, <1>7, <2>3 DEF n, size, h
<1>8. CASE Odd(n) /\ type
  <2>1. h = zero \o values /\ size = n + 1 /\ StartOf(s, type) = 1
    BY <1>6, <1>8 DEF StartOf
  <2> HIDE DEF size, n
  <2>2. /\ Len(h) = n + 1 /\ h[1] = 0
        /\ \A k \in 1..n : h[k + 1] = values[k]
    BY <1>3, <1>4, <2>1, OneMore DEF zero
  <2>3. \A pos \in 1..n : 1 + pos = pos + 1 /\ 1 + pos \in 1..(n + 1)
    BY <1>1
  <2>4. \A k \in 1..(n + 1) : k = 1 \/ (k - 1 \in 1..n /\ k - 1 + 1 = k)
    BY <1>1
  <2>5. \A k \in 1..size : h[k] \in HalfBytes
    <3> SUFFICES ASSUME NEW k \in 1..(n + 1) PROVE h[k] \in HalfBytes
      BY <2>1
    <3> QED
      BY <1>2, <1>4, <2>2, <2>4
  <2>6. \A pos \in 1..n :
          StartOf(s, type) + pos \in 1..size /\ h[StartOf(s, type) + pos] = ValueOf(s[pos])
    BY <1>2, <2>1, <2>2, <2>3
  <2> QED
    BY <1>5, <1>8, <2>1, <2>2, <2>5, <2>6 DEF n, size, h
<1>9. CASE Odd(n) /\ ~type
  <2>1. h = values \o zero /\ size = n + 1 /\ StartOf(s, type) = 0
    BY <1>6, <1>9 DEF StartOf
  <2> HIDE DEF size, n
  <2>2. /\ Len(h) = n + 1 /\ h[n + 1] = 0
        /\ \A k \in 1..n : h[k] = values[k]
    BY <1>3, <1>4, <2>1, OneMore DEF zero
  <2>3. \A pos \in 1..n : 0 + pos = pos /\ 0 + pos \in 1..(n + 1)
    BY <1>1
  <2>4. \A k \in 1..(n + 1) : k = n + 1 \/ k \in 1..n
    BY <1>1
  <2>5. \A k \in 1..size : h[k] \in HalfBytes
    <3> SUFFICES ASSUME NEW k \in 1..(n + 1) PROVE h[k] \in HalfBytes
      BY <2>1
    <3> QED
      BY <1>2, <1>4, <2>2, <2>4
  <2>6. \A pos \in 1..n :
          StartOf(s, type) + pos \in 1..size /\ h[StartOf(s, type) + pos] = ValueOf(s[pos])
    BY <1>2, <2>1, <2>2, <2>3
  <2> QED
    BY <1>5, <1>9, <2>1, <2>2, <2>5, <2>6 DEF n, size, h
<1> QED
  BY <1>7, <1>8, <1>9

(* The bytes hold two half bytes each, and both readers find them again. *)
LEMMA BytesOfText ==
  ASSUME NEW s \in Seq(HexDigits), NEW type \in BOOLEAN
  PROVE  LET h == Halves(s, type)
             bytes == asc_to_bcd(s, type)
         IN  /\ bytes = [j \in 1..(Len(h) \div 2) |-> 16 * h[2*j - 1] + h[2*j]]
             /\ \A k \in 0..(Len(h) - 1) : Nibble(bytes, k) = h[k + 1]
<1> DEFINE h == Halves(s, type)
           half == Len(h) \div 2
           bytes == asc_to_bcd(s, type)
<1>1. /\ Len(h) \in Nat /\ Len(h) = 2 * half
      /\ \A k \in 1..Len(h) : h[k] \in HalfBytes
  BY HalvesOfText
<1>2. bytes = [j \in 1..half |-> BitOr((h[2*j - 1] * 16) % 256, h[2*j] % 256)]
  BY DEF asc_to_bcd
<1> HIDE DEF h, bytes
<1>3. half \in Nat
  BY <1>1
<1> HIDE DEF half
<1>4. ASSUME NEW j \in 1..half
      PROVE  /\ h[2*j - 1] \in HalfBytes /\ h[2*j] \in HalfBytes
             /\ bytes[j] = 16 * h[2*j - 1] + h[2*j]
             /\ bytes[j] \div 16 = h[2*j - 1] /\ bytes[j] % 16 = h[2*j]
  <2>1. 2*j - 1 \in 1..Len(h) /\ 2*j \in 1..Len(h)
    BY <1>1, <1>3
  <2>2. h[2*j - 1] \in HalfBytes /\ h[2*j] \in HalfBytes
    BY <1>1, <2>1
  <2>3. bytes[j] = BitOr((h[2*j - 1] * 16) % 256, h[2*j] % 256)
    BY <1>2
  <2> QED
    BY <2>2, <2>3, HalvesOfByte
<1>5. bytes = [j \in 1..half |-> 16 * h[2*j - 1] + h[2*j]]
  BY <1>2, <1>4
<1>6. ASSUME NEW k \in 0..(Len(h) - 1) PROVE Nibble(bytes, k) = h[k + 1]
  <2>1. k \in Nat /\ k < 2 * half
    BY <1>1, <1>3
  <2>2. PICK j \in 1..half : j = k \div 2 + 1
    BY <1>3, <2>1
  <2>3. CASE Odd(k)
    <3>1. 2 * j = k + 1
      BY <2>1, <2>2, <2>3 DEF Odd
    <3>2. Nibble(bytes, k) = bytes[j] % 16
      BY <2>2, <2>3 DEF Nibble
    <3> QED
      BY <1>4, <3>1, <3>2
  <2>4. CASE ~Odd(k)
    <3>1. 2 * j - 1 = k + 1
      BY <2>1, <2>2, <2>4 DEF Odd
    <3>2. Nibble(bytes, k) = bytes[j] \div 16
      BY <2>2, <2>4 DEF Nibble
    <3> QED
      BY <1>4, <3>1, <3>2
  <2> QED
    BY <2>3, <2>4
<1> QED
  BY <1>5, <1>6 DEF h, half, bytes

(* All of RoundTrip, for any text.                                           *)
LEMMA TextRoundTrip ==
  ASSUME NEW s \in Seq(Int), isHex(s)
  PROVE  /\ asc_to_bcd(s, TRUE) = ascToBcd(s)
         /\ asc_to_bcd(s, FALSE) = ascToBcdLeft(s)
         /\ \A type \in BOOLEAN :
              LET bytes == asc_to_bcd(s, type)
              IN  /\ bcd_to_asc(bytes, Len(s), type) = str2upper(s)
                  /\ type \/ ~Odd(Len(s)) \/ s[1] # Chr0 =>
                       bcdToAsc(bytes, Len(s)) = str2upper(s)
<1>1. s \in Seq(HexDigits)
  <2>1. Len(s) \in Nat /\ s \in [1..Len(s) -> Int] /\ DOMAIN s = 1..Len(s)
    BY LenProperties
  <2>2. \A pos \in 1..Len(s) : s[pos] \in HexDigits
    BY <2>1 DEF isHex, AllIn, Range, HexDigits
  <2> QED
    BY <2>1, <2>2, SeqDef
<1>2. /\ Len(s) \in Nat /\ DOMAIN s = 1..Len(s)
      /\ \A pos \in 1..Len(s) : s[pos] \in HexDigits
  BY <1>1, LenProperties, ElementOfSeq
<1>3. \A pos \in 1..Len(s) : HexOf(ValueOf(s[pos])) = str2upper(s)[pos]
  BY <1>2, HexDigit DEF str2upper
<1>4. str2upper(s) = [pos \in 1..Len(s) |-> HexOf(ValueOf(s[pos]))]
  BY <1>2, <1>3 DEF str2upper
<1>5. ASSUME NEW type \in BOOLEAN
      PROVE  /\ bcd_to_asc(asc_to_bcd(s, type), Len(s), type) = str2upper(s)
             /\ type \/ ~Odd(Len(s)) \/ s[1] # Chr0 =>
                  bcdToAsc(asc_to_bcd(s, type), Len(s)) = str2upper(s)
  <2> DEFINE h == Halves(s, type)
             bytes == asc_to_bcd(s, type)
             start == StartOf(s, type)
             size == IF Odd(Len(s)) THEN Len(s) + 1 ELSE Len(s)
  <2>1. /\ Len(h) = size /\ size \in Nat
        /\ \A pos \in 1..Len(s) : start + pos \in 1..size /\ h[start + pos] = ValueOf(s[pos])
        /\ Odd(Len(s)) => h[IF type THEN 1 ELSE size] = 0
    BY <1>1, HalvesOfText
  <2>2. \A k \in 0..(Len(h) - 1) : Nibble(bytes, k) = h[k + 1]
    BY <1>1, BytesOfText
  <2>3. start \in 0..1
    BY DEF StartOf
  <2> HIDE DEF h, bytes, start
  <2>4. ASSUME NEW pos \in 1..Len(s)
        PROVE  HexOf(Nibble(bytes, start + pos - 1)) = HexOf(ValueOf(s[pos]))
    <3>1. start + pos - 1 \in 0..(Len(h) - 1) /\ start + pos - 1 + 1 = start + pos
      <4>1. start + pos \in 1..size
        BY <2>1
      <4> HIDE DEF size
      <4> QED
        BY <2>1, <2>3, <4>1
    <3> QED
      BY <2>1, <2>2, <3>1
  <2>5. [pos \in 1..Len(s) |-> HexOf(Nibble(bytes, start + pos - 1))] = str2upper(s)
    BY <1>4, <2>4
  <2>6. bcd_to_asc(bytes, Len(s), type) = str2upper(s)
    BY <2>5 DEF bcd_to_asc, StartOf, start
  <2>7. ASSUME type \/ ~Odd(Len(s)) \/ s[1] # Chr0
        PROVE  bcdToAsc(bytes, Len(s)) = str2upper(s)
    <3>1. (Odd(Len(s)) /\ HexOf(Nibble(bytes, 0)) = Chr0) <=> start = 1
      <4>1. CASE ~Odd(Len(s))
        BY <4>1 DEF start, StartOf
      <4>2. CASE Odd(Len(s))
        <5>1. Len(s) >= 1 /\ Len(h) >= 1 /\ 0 \in 0..(Len(h) - 1) /\ 1 \in 1..Len(s)
          <6>1. Len(s) # 0
            BY <4>2 DEF Odd
          <6> QED
            BY <1>2, <2>1, <4>2, <6>1
        <5>2. Nibble(bytes, 0) = h[1]
          BY <2>2, <5>1
        <5>3. CASE type
          <6>1. start = 1 /\ h[1] = 0
            BY <2>1, <4>2, <5>3 DEF start, StartOf
          <6> QED
            BY <4>2, <5>2, <6>1 DEF HexOf, Chr0
        <5>4. CASE ~type
          <6>1. start = 0 /\ s[1] # Chr0
            BY <2>7, <4>2, <5>4 DEF start, StartOf
          <6>2. h[1] = ValueOf(s[1])
            BY <2>1, <5>1, <6>1
          <6>3. ValueOf(s[1]) \in HalfBytes /\ ValueOf(s[1]) # 0
            BY <1>2, <5>1, <6>1, HexDigit
          <6>4. HexOf(ValueOf(s[1])) # Chr0
            BY <6>3 DEF HexOf, HalfBytes, Chr0, ChrA
          <6> QED
            BY <5>2, <6>1, <6>2, <6>4
        <5> QED
          BY <5>3, <5>4
      <4> QED
        BY <4>1, <4>2
    <3>2. start = IF Odd(Len(s)) /\ HexOf(Nibble(bytes, 0)) = Chr0 THEN 1 ELSE 0
      BY <2>3, <3>1
    <3> QED
      BY <2>5, <3>2 DEF bcdToAsc
  <2> QED
    BY <2>6, <2>7 DEF bytes
<1>6. Chr0 \in HexDigits /\ ValueOf(Chr0) = 0
  BY DEF HexDigits, Digits, ValueOf, Chr0, ChrA, Chra
(* A text of even length is packed as it is, one of odd length with a '0'. *)
<1>7. ASSUME NEW type \in BOOLEAN, NEW padded \in Seq(HexDigits),
             padded = IF ~Odd(Len(s)) THEN s
                      ELSE IF type THEN <<Chr0>> \o s ELSE s \o <<Chr0>>
      PROVE  asc_to_bcd(s, type) = Packed(padded)
  <2> DEFINE h == Halves(s, type)
             size == IF Odd(Len(s)) THEN Len(s) + 1 ELSE Len(s)
             start == StartOf(s, type)
  <2>1. /\ Len(h) = size /\ size \in Nat /\ size = 2 * (size \div 2)
        /\ \A k \in 1..size : h[k] \in HalfBytes
        /\ \A pos \in 1..Len(s) : start + pos \in 1..size /\ h[start + pos] = ValueOf(s[pos])
        /\ Odd(Len(s)) => h[IF type THEN 1 ELSE size] = 0
    BY <1>1, HalvesOfText
  <2>2. asc_to_bcd(s, type) = [j \in 1..(Len(h) \div 2) |-> 16 * h[2*j - 1] + h[2*j]]
    BY <1>1, BytesOfText
  <2> HIDE DEF h
  <2>3. Len(padded) = size /\ \A k \in 1..size : h[k] = ValueOf(padded[k])
    <3>1. CASE ~Odd(Len(s))
      <4>1. padded = s /\ size = Len(s) /\ \A k \in 1..Len(s) : start + k = k
        BY <1>2, <1>7, <3>1 DEF StartOf
      <4> QED
        BY <2>1, <4>1
    <3>2. CASE Odd(Len(s)) /\ type
      <4>1. padded = <<Chr0>> \o s /\ size = Len(s) + 1 /\ start = 1
        BY <1>7, <3>2 DEF StartOf
      <4>2. /\ Len(padded) = Len(s) + 1 /\ padded[1] = Chr0
            /\ \A k \in 1..Len(s) : padded[k + 1] = s[k]
        BY <1>1, <1>6, <4>1, OneMore
      <4>3. ASSUME NEW k \in 1..size PROVE h[k] = ValueOf(padded[k])
        <5>1. CASE k = 1
          BY <1>6, <2>1, <3>2, <4>2, <5>1
        <5>2. CASE k # 1
          <6>1. PICK j \in 1..Len(s) : k = j + 1 /\ k = 1 + j
            <7>1. k - 1 \in 1..Len(s) /\ k = k - 1 + 1 /\ k = 1 + (k - 1)
              BY <1>2, <4>1, <5>2
            <7> QED
              BY <7>1
          <6>2. h[k] = ValueOf(s[j])
            BY <2>1, <4>1, <6>1
          <6> QED
            BY <4>2, <6>1, <6>2
        <5> QED
          BY <5>1, <5>2
      <4> QED
        BY <4>1, <4>2, <4>3
    <3>3. CASE Odd(Len(s)) /\ ~type
      <4>1. padded = s \o <<Chr0>> /\ size = Len(s) + 1 /\ start = 0
        BY <1>7, <3>3 DEF StartOf
      <4>2. /\ Len(padded) = Len(s) + 1 /\ padded[Len(s) + 1] = Chr0
            /\ \A k \in 1..Len(s) : padded[k] = s[k]
        BY <1>1, <1>6, <4>1, OneMore
      <4>3. ASSUME NEW k \in 1..size PROVE h[k] = ValueOf(padded[k])
        <5>1. CASE k = size
          BY <1>6, <2>1, <3>3, <4>1, <4>2, <5>1
        <5>2. CASE k # size
          <6>1. k \in 1..Len(s) /\ 0 + k = k
            <7> HIDE DEF size
            <7> QED
              BY <1>2, <4>1, <5>2
          <6>2. h[k] = ValueOf(s[k])
            BY <2>1, <4>1, <6>1
          <6> QED
            BY <4>2, <6>1, <6>2
        <5> QED
          BY <5>1, <5>2
      <4> QED
        BY <4>1, <4>2, <4>3
    <3> QED
      BY <3>1, <3>2, <3>3
  <2> HIDE DEF size
  <2>4. ASSUME NEW j \in 1..(size \div 2)
        PROVE  toBcd(padded[2*j - 1], padded[2*j]) = 16 * h[2*j - 1] + h[2*j]
    <3>1. 2*j - 1 \in 1..size /\ 2*j \in 1..size
      BY <2>1
    <3>2. PICK x \in HalfBytes, y \in HalfBytes : x = h[2*j - 1] /\ y = h[2*j]
      BY <2>1, <3>1
    <3>3. toBcd(padded[2*j - 1], padded[2*j]) = (x * 16 + y) % 256
      BY <2>3, <3>1, <3>2 DEF toBcd
    <3>4. (x * 16 + y) % 256 = 16 * x + y
      BY HalvesOfByte
    <3> QED
      BY <3>2, <3>3, <3>4
  <2> QED
    BY <2>1, <2>2, <2>3, <2>4 DEF Packed
<1>8. asc_to_bcd(s, TRUE) = ascToBcd(s)
  <2>1. <<Chr0>> \o s \in Seq(HexDigits)
    BY <1>1, <1>6, OneMore
  <2> QED
    BY <1>1, <1>7, <2>1 DEF ascToBcd
<1>9. asc_to_bcd(s, FALSE) = ascToBcdLeft(s)
  <2>1. s \o <<Chr0>> \in Seq(HexDigits)
    BY <1>1, <1>6, OneMore
  <2> QED
    BY <1>1, <1>7, <2>1 DEF ascToBcdLeft
<1> QED
  BY <1>5, <1>8, <1>9

(* Every text of hexadecimal characters, of every length, comes back from    *)
(* both generations of converters, which pack it alike.                      *)
THEOREM BcdRoundTrip == TextSpec => []RoundTrip
<1>1. TextInv => RoundTrip
  BY TextRoundTrip DEF TextInv, RoundTrip
<1> QED
  BY <1>1, TextInvariant, PTL

-----------------------------------------------------------------------------
(* expandEnvStr *)

(* All characters that can come out. *)
Alphabet == Chars \cup UNION {Range(v) : v \in Values \cup Words}

LEMMA Texts == \A v \in Values \cup Words : v \in Seq(Alphabet)
<1> SUFFICES ASSUME NEW v \in Values \cup Words PROVE v \in Seq(Alphabet)
  OBVIOUS
<1>1. v \in Seq(Range(v)) /\ Range(v) \subseteq Alphabet
  BY ExpandEnvAssumption DEF Alphabet
<1> QED
  BY <1>1, SeqMonotonic

LEMMA ItemShape ==
  ASSUME NEW item \in Items
  PROVE  /\ item.kind \in {"char", "ref", "open"}
         /\ item.kind = "char" => item.char \in Chars
         /\ item.kind = "ref" => /\ item.name \in Names /\ item.op \in Operators
                                 /\ item.op # "plain" => item.word \in Words
BY DEF Items, Operators

(* strncpy cuts a text, unless it is short enough. *)
LEMMA CopiedText ==
  ASSUME NEW v \in Seq(Alphabet)
  PROVE  /\ Copied(v) \in Seq(Alphabet)
         /\ Len(v) <= EnvValueSize => Copied(v) = v
<1> DEFINE n == Min({EnvValueSize, Len(v)})
<1>1. Len(v) \in Nat /\ EnvValueSize \in Nat /\ \A k \in 1..Len(v) : v[k] \in Alphabet
  BY LenProperties, ElementOfSeq, ExpandEnvAssumption
<1>2. n \in {EnvValueSize, Len(v)} /\ \A y \in {EnvValueSize, Len(v)} : n <= y
  <2>1. {EnvValueSize, Len(v)} \in SUBSET Nat /\ {EnvValueSize, Len(v)} # {}
    BY <1>1
  <2> QED
    BY <2>1, MinIsLeast
<1>3. Copied(v) = SubSeq(v, 1, n)
  BY DEF Copied
<1> HIDE DEF n
<1>4. n \in Int /\ 1 \in Int /\ \A k \in 1..n : v[k] \in Alphabet
  BY <1>1, <1>2
<1>5. Copied(v) \in Seq(Alphabet)
  BY <1>3, <1>4, SubSeqProperties
<1>6. ASSUME Len(v) <= EnvValueSize PROVE Copied(v) = v
  <2>1. n = Len(v)
    BY <1>1, <1>2, <1>6
  <2> QED
    BY <1>3, <2>1, SubSeqFull
<1> QED
  BY <1>5, <1>6

EnvironmentOK == environ \in [Names -> Values \cup {Unset}]

(* What a reference means is a text, no longer than the longest value.       *)
LEMMA MeaningText ==
  ASSUME EnvironmentOK, NEW item \in Items, item.kind = "ref"
  PROVE  /\ Meaning(item) \in Seq(Alphabet)
         /\ (\A n \in Names : environ[n] # Unset => Len(environ[n]) <= EnvValueSize)
              => Len(Meaning(item)) <= EnvValueSize
<1>1. /\ item.name \in Names /\ item.op \in Operators
      /\ item.op # "plain" => item.word \in Words
  BY ItemShape
<1>2. environ[item.name] # Unset => environ[item.name] \in Values
  BY <1>1 DEF EnvironmentOK
<1>3. <<>> \in Seq(Alphabet) /\ Len(<<>>) = 0 /\ EnvValueSize >= 0
  BY EmptySeq, ExpandEnvAssumption
<1>4. \/ Meaning(item) = <<>>
      \/ environ[item.name] # Unset /\ Meaning(item) = environ[item.name]
      \/ item.word \in Words /\ Meaning(item) = item.word
  BY <1>1 DEF Meaning, IsEmpty, Value, Operators
<1>5. item.word \in Words => Len(item.word) <= EnvValueSize
  BY ExpandEnvAssumption
<1> QED
  BY <1>1, <1>2, <1>3, <1>4, <1>5, Texts

(* What getEnvVal copies is what the reference means, short of the empty    *)
(* variable with a ":-".                                                    *)
LEMMA GetEnvValMeans ==
  ASSUME EnvironmentOK, NEW item \in Items, item.kind = "ref",
         item.op = ":-" => environ[item.name] # <<>>
  PROVE  getEnvVal(item) = CutPiece(item)
<1>1. item.op \in Operators
  BY ItemShape
<1>2. CutPiece(item) = Copied(Meaning(item))
  BY DEF CutPiece
<1>3. CASE item.op = "plain"
  BY <1>2, <1>3 DEF getEnvVal, Meaning
<1>4. CASE item.op = ":-"
  BY <1>2, <1>4 DEF getEnvVal, Meaning, IsEmpty, Value
<1>5. CASE item.op = ":+"
  BY <1>2, <1>5 DEF getEnvVal, Meaning
<1> QED
  BY <1>1, <1>3, <1>4, <1>5 DEF Operators

LEMMA GetEnvValText ==
  ASSUME EnvironmentOK, NEW item \in Items, item.kind = "ref"
  PROVE  getEnvVal(item) \in Seq(Alphabet)
<1>1. /\ item.name \in Names /\ item.op \in Operators
      /\ item.op # "plain" => item.word \in Words
  BY ItemShape
<1>2. environ[item.name] # Unset => environ[item.name] \in Values
  BY <1>1 DEF EnvironmentOK
<1>3. \E v \in {<<>>, item.word, environ[item.name]} :
        /\ v = <<>> \/ v \in Values \cup Words
        /\ getEnvVal(item) = Copied(v)
  BY <1>1, <1>2 DEF getEnvVal, Value, Operators
<1>4. <<>> \in Seq(Alphabet)
  BY EmptySeq
<1> QED
  BY <1>3, <1>4, Texts, CopiedText

LEMMA CutPieceText ==
  ASSUME EnvironmentOK, NEW item \in Items, item.kind # "open"
  PROVE  CutPiece(item) \in Seq(Alphabet)
<1>1. CASE item.kind = "char"
  <2>1. item.char \in Alphabet
    BY <1>1, ItemShape DEF Alphabet
  <2> QED
    BY <1>1, <2>1 DEF CutPiece
<1>2. CASE item.kind = "ref"
  <2>1. CutPiece(item) = Copied(Meaning(item)) /\ Meaning(item) \in Seq(Alphabet)
    BY <1>2, MeaningText DEF CutPiece
  <2> QED
    BY <2>1, CopiedText
<1> QED
  BY <1>1, <1>2, ItemShape

(* The input without its open brace *)

InputOK ==
  /\ InBuf \in Seq(Items)
  /\ \A k \in 1..Len(InBuf) : InBuf[k].kind = "open" => k = Len(InBuf)

LEMMA ReadableItems ==
  ASSUME InputOK
  PROVE  /\ Readable \in Seq(Items) /\ Len(Readable) \in Nat /\ Len(InBuf) \in Nat
         /\ Len(Readable) <= Len(InBuf)
         /\ \A k \in 1..Len(Readable) : Readable[k] = InBuf[k] /\ Readable[k].kind # "open"
         /\ \A k \in 1..Len(InBuf) : InBuf[k].kind # "open" => k <= Len(Readable)
         /\ \A k \in 1..Len(InBuf) : InBuf[k].kind = "open" => k = Len(Readable) + 1
<1>0. InBuf \in Seq(Items)
  BY Zenon DEF InputOK
<1>1. /\ Len(InBuf) \in Nat /\ DOMAIN InBuf = 1..Len(InBuf)
      /\ \A k \in 1..Len(InBuf) : InBuf[k] \in Items
  BY <1>0, LenProperties, ElementOfSeq
<1>2. InBuf # <<>> => Len(InBuf) >= 1
  <2>1. InBuf # <<>> => Len(InBuf) \in Nat \ {0}
    BY <1>0, EmptySeq, Zenon
  <2> QED
    BY <2>1
<1>3. CASE InBuf # <<>> /\ Last(InBuf).kind = "open"
  <2>1. PICK n \in Nat : Len(InBuf) = n + 1 /\ Len(InBuf) - 1 = n
    <3>1. Len(InBuf) - 1 \in Nat /\ Len(InBuf) = Len(InBuf) - 1 + 1
      BY <1>1, <1>2, <1>3
    <3> QED
      BY <3>1
  <2>2. Readable = SubSeq(InBuf, 1, n)
    BY <1>3, <2>1 DEF Readable, Front
  <2>3. n \in Int /\ 1 \in Int /\ \A k \in 1..n : InBuf[k] \in Items
    BY <1>1, <2>1
  <2>4. /\ Readable \in Seq(Items) /\ Len(Readable) = n
        /\ \A k \in 1..n : Readable[k] = InBuf[k]
    <3>1. n - 1 + 1 = n /\ (IF 1 <= n THEN n - 1 + 1 ELSE 0) = n
          /\ \A k \in 1..n : 1 + k - 1 = k
      OBVIOUS
    <3>2. /\ SubSeq(InBuf, 1, n) \in Seq(Items)
          /\ Len(SubSeq(InBuf, 1, n)) = IF 1 <= n THEN n - 1 + 1 ELSE 0
          /\ \A k \in 1..(n - 1 + 1) : SubSeq(InBuf, 1, n)[k] = InBuf[1 + k - 1]
      BY <2>3, SubSeqProperties
    <3> QED
      BY <2>2, <3>1, <3>2
  <2>5. \A k \in 1..n : k \in 1..Len(InBuf) /\ k # Len(InBuf)
    BY <2>1
  <2>6. InBuf[Len(InBuf)].kind = "open"
    BY <1>3 DEF Last
  <2>7. \A k \in 1..n : InBuf[k].kind # "open"
    BY <2>5 DEF InputOK
  <2>8. \A k \in 1..Len(InBuf) : IF InBuf[k].kind = "open" THEN k = n + 1 ELSE k <= n
    BY <2>1, <2>6 DEF InputOK
  <2> QED
    BY <1>1, <2>1, <2>4, <2>7, <2>8
<1>4. CASE ~(InBuf # <<>> /\ Last(InBuf).kind = "open")
  <2>1. Readable = InBuf
    BY <1>4 DEF Readable
  <2>2. \A k \in 1..Len(InBuf) : InBuf[k].kind # "open"
    <3> SUFFICES ASSUME NEW k \in 1..Len(InBuf), InBuf[k].kind = "open" PROVE FALSE
      OBVIOUS
    <3>1. k = Len(InBuf)
      BY Zenon DEF InputOK
    <3>2. Len(InBuf) # 0
      BY <1>1, <3>1
    <3>3. InBuf # <<>> /\ Last(InBuf).kind = "open"
      BY <3>1, <3>2, EmptySeq DEF Last
    <3> QED
      BY <1>4, <3>3
  <2>3. \A k \in 1..Len(InBuf) : k <= Len(InBuf)
    BY <1>1
  <2>4. Len(InBuf) <= Len(InBuf)
    BY <1>1
  <2> QED
    BY <1>0, <1>1, <2>1, <2>2, <2>3, <2>4
<1> QED
  BY <1>3, <1>4

Pieces == [k \in DOMAIN Readable |-> CutPiece(Readable[k])]

LEMMA PiecesType ==
  ASSUME InputOK, EnvironmentOK
  PROVE  /\ Pieces \in Seq(Seq(Alphabet)) /\ Len(Pieces) = Len(Readable)
         /\ Len(Pieces) \in Nat
         /\ \A k \in 1..Len(Readable) : Pieces[k] = CutPiece(InBuf[k])
<1>1. /\ Readable \in Seq(Items) /\ Len(Readable) \in Nat
      /\ \A k \in 1..Len(Readable) : Readable[k] = InBuf[k] /\ Readable[k].kind # "open"
  BY ReadableItems
<1>2. DOMAIN Readable = 1..Len(Readable) /\ \A k \in 1..Len(Readable) : Readable[k] \in Items
  BY <1>1, LenProperties, ElementOfSeq
<1>3. \A k \in 1..Len(Readable) : CutPiece(Readable[k]) \in Seq(Alphabet)
  BY <1>1, <1>2, CutPieceText
<1>4. Pieces = [k \in 1..Len(Readable) |-> CutPiece(Readable[k])]
  BY <1>2 DEF Pieces
<1>5. PICK n \in Nat : n = Len(Readable)
  BY <1>1
<1>6. Pieces \in [1..n -> Seq(Alphabet)]
  BY <1>3, <1>4, <1>5
<1>7. Pieces \in Seq(Seq(Alphabet))
  BY <1>6, SeqDef
<1>8. Len(Pieces) = n
  BY <1>6, <1>7
<1>9. \A k \in 1..Len(Readable) : Pieces[k] = CutPiece(InBuf[k])
  BY <1>1, <1>4
<1> QED
  BY <1>5, <1>7, <1>8, <1>9

(* What the first n items come to. *)
Done(n) == FlattenSeq(SubSeq(Pieces, 1, n))

(* What n items come to begins what more items come to.                      *)
LEMMA DoneSteps ==
  ASSUME InputOK, EnvironmentOK
  PROVE  /\ Done(0) = <<>>
         /\ \A n \in 0..Len(Readable) : Done(n) \in Seq(Alphabet)
         /\ \A n \in Nat : n < Len(Readable) => Done(n + 1) = Done(n) \o CutPiece(InBuf[n + 1])
         /\ \A n \in 0..Len(Readable) : \A m \in n..Len(Readable) : IsPrefix(Done(n), Done(m))
         /\ Done(Len(Readable)) = CutExpansion
<1>1. /\ Pieces \in Seq(Seq(Alphabet)) /\ Len(Pieces) = Len(Readable) /\ Len(Pieces) \in Nat
      /\ \A k \in 1..Len(Readable) : Pieces[k] = CutPiece(InBuf[k])
  BY PiecesType
<1>2. /\ Done(0) = <<>>
      /\ \A n \in 0..Len(Pieces) : Done(n) \in Seq(Alphabet)
      /\ \A n \in Nat : n < Len(Pieces) => Done(n + 1) = Done(n) \o Pieces[n + 1]
  BY <1>1, FlattenStep DEF Done
<1>3. \A n \in 0..Len(Pieces) : \A m \in n..Len(Pieces) : IsPrefix(Done(n), Done(m))
  BY <1>1, FlattenBegins DEF Done
<1>4. \A n \in Nat : n < Len(Pieces) => n + 1 \in 1..Len(Pieces)
  BY <1>1
<1>5. Done(Len(Pieces)) = FlattenSeq(Pieces)
  BY <1>1, SubSeqFull DEF Done
<1>6. FlattenSeq(Pieces) = CutExpansion
  BY DEF Pieces, CutExpansion
<1> QED
  BY <1>1, <1>2, <1>3, <1>4, <1>5, <1>6

(* The reference depends on the input and the environment only.              *)
LEMMA SameInput ==
  ASSUME InBuf' = InBuf, environ' = environ
  PROVE  /\ Pieces' = Pieces
         /\ Readable' = Readable /\ (NoEmptyDefault' <=> NoEmptyDefault)
         /\ (InputOK' <=> InputOK) /\ (EnvironmentOK' <=> EnvironmentOK)
<1>1. Readable' = Readable
  BY DEF Readable
<1>2. \A item : CutPiece(item)' = CutPiece(item)
  BY DEF CutPiece, Meaning, IsEmpty, Value
<1>3. Pieces' = Pieces
  BY <1>1, <1>2 DEF Pieces, CutPiece, Meaning, IsEmpty, Value
<1> QED
  BY <1>1, <1>3 DEF NoEmptyDefault, InputOK, EnvironmentOK

ExpandTypes ==
  /\ InputOK /\ EnvironmentOK
  /\ BufSize \in Nat /\ i \in 0..Len(InBuf)
  /\ OutBuf \in Seq(Alphabet) /\ Len(OutBuf) <= BufSize
  /\ ret = "writing" => i = 0 /\ OutBuf = <<>>

NoneOpen == \A k \in 1..i : InBuf[k].kind # "open"

(* What is written is what the items read so far come to, and the copying   *)
(* ends with the input or at a full buffer.                                  *)
Written == NoEmptyDefault => OutBuf = Done(i)

Ended ==
  NoEmptyDefault /\ ret = "0" =>
    \/ i = Len(Readable)
    \/ \E n \in i..Len(Readable) : Len(Done(n)) >= BufSize

ExpandInv == ExpandTypes /\ NoneOpen /\ Written /\ Ended

(* The items read so far are in front of an open brace.                      *)
LEMMA ReadSoFar ==
  ASSUME ExpandTypes, NoneOpen
  PROVE  /\ i \in Nat /\ i <= Len(Readable) /\ Len(Readable) \in Nat
         /\ Len(InBuf) \in Nat /\ Len(Readable) <= Len(InBuf)
         /\ i = Len(InBuf) => i = Len(Readable)
<1>1. /\ Len(Readable) \in Nat /\ Len(InBuf) \in Nat /\ Len(Readable) <= Len(InBuf)
      /\ \A k \in 1..Len(InBuf) : InBuf[k].kind # "open" => k <= Len(Readable)
  BY ReadableItems DEF ExpandTypes
<1>2. i \in 0..Len(InBuf)
  BY Zenon DEF ExpandTypes
<1>3. i # 0 => i \in 1..Len(InBuf) /\ i \in 1..i
  BY <1>1, <1>2
<1>4. i # 0 => i <= Len(Readable)
  BY <1>1, <1>3, Zenon DEF NoneOpen
<1> QED
  BY <1>1, <1>2, <1>4

LEMMA ExpandInvInit == ExpandInit => ExpandInv
<1> SUFFICES ASSUME ExpandInit PROVE ExpandInv
  OBVIOUS
<1>1. InBuf = <<>> /\ i = 0 /\ OutBuf = <<>> /\ ret = "writing" /\ BufSize \in BufSizes
      /\ EnvironmentOK
  BY Zenon DEF ExpandInit, EnvironmentOK
<1>2. InBuf \in Seq(Items) /\ Len(InBuf) = 0 /\ OutBuf \in Seq(Alphabet) /\ Len(OutBuf) = 0
  BY <1>1, EmptySeq
<1>3. InputOK
  BY <1>2 DEF InputOK
<1>4. BufSize \in Nat /\ i \in 0..Len(InBuf) /\ Len(OutBuf) <= BufSize
  BY <1>1, <1>2, ExpandEnvAssumption
<1>5. ExpandTypes
  BY <1>1, <1>2, <1>3, <1>4 DEF ExpandTypes
<1>6. NoneOpen
  BY <1>1 DEF NoneOpen
<1>7. Written /\ Ended
  BY <1>1, <1>3, DoneSteps DEF Written, Ended
<1> QED
  BY <1>5, <1>6, <1>7 DEF ExpandInv

LEMMA WriteInv == ExpandInv /\ Write => ExpandInv'
<1> SUFFICES ASSUME ExpandInv, Write PROVE ExpandInv'
  OBVIOUS
<1>1. /\ InputOK /\ EnvironmentOK /\ BufSize \in Nat
      /\ i = 0 /\ OutBuf = <<>> /\ ret = "writing"
  BY Zenon DEF ExpandInv, ExpandTypes, Write
<1>2. /\ environ' = environ /\ BufSize' = BufSize /\ i' = i /\ OutBuf' = OutBuf /\ ret' = ret
      /\ InBuf # <<>> => Last(InBuf).kind # "open"
  BY Zenon DEF Write
<1>3. PICK item \in Items : InBuf' = Append(InBuf, item)
  BY Zenon DEF Write
<1>4. /\ InBuf \in Seq(Items)
      /\ \A k \in 1..Len(InBuf) : InBuf[k].kind = "open" => k = Len(InBuf)
  BY <1>1, Zenon DEF InputOK
<1>5. Len(InBuf) \in Nat
  BY <1>4, LenProperties
<1>6. /\ InBuf' \in Seq(Items) /\ Len(InBuf') = Len(InBuf) + 1
      /\ \A k \in 1..Len(InBuf) : InBuf'[k] = InBuf[k]
  BY <1>3, <1>4, AppendProperties
<1>7. \A k \in 1..Len(InBuf) : InBuf[k].kind # "open"
  <2> SUFFICES ASSUME NEW k \in 1..Len(InBuf), InBuf[k].kind = "open" PROVE FALSE
    OBVIOUS
  <2>1. k = Len(InBuf)
    BY <1>4, Zenon
  <2>2. InBuf # <<>>
    BY <1>5, <2>1, EmptySeq
  <2> QED
    BY <1>2, <2>1, <2>2 DEF Last
<1>8. \A k \in 1..Len(InBuf') : InBuf'[k].kind = "open" => k = Len(InBuf')
  <2> SUFFICES ASSUME NEW k \in 1..Len(InBuf'), k # Len(InBuf') PROVE InBuf'[k].kind # "open"
    OBVIOUS
  <2>1. k \in 1..Len(InBuf)
    BY <1>5, <1>6
  <2> QED
    BY <1>6, <1>7, <2>1
<1>9. InputOK' /\ EnvironmentOK'
  BY <1>1, <1>2, <1>6, <1>8 DEF InputOK, EnvironmentOK
<1>10. ExpandTypes'
  <2>1. i' \in 0..Len(InBuf') /\ Len(OutBuf') <= BufSize' /\ OutBuf' \in Seq(Alphabet)
    BY <1>1, <1>2, <1>5, <1>6, EmptySeq
  <2> QED
    BY <1>1, <1>2, <1>9, <2>1 DEF ExpandTypes
<1>11. NoneOpen'
  BY <1>1, <1>2 DEF NoneOpen
<1>12. \A s : FlattenSeq(SubSeq(s, 1, 0)) = <<>>
  BY SubSeqEmpty DEF FlattenSeq
<1>13. Written' /\ Ended'
  BY <1>1, <1>2, <1>12 DEF Written, Ended, Done
<1> QED
  BY <1>10, <1>11, <1>13 DEF ExpandInv

(* The item at hand goes into the buffer. *)
LEMMA TakeInv ==
  ASSUME ExpandInv, NEW piece \in Seq(Alphabet),
         i < Len(InBuf), InBuf[i + 1].kind # "open",
         NoEmptyDefault => piece = CutPiece(InBuf[i + 1]),
         Len(OutBuf) + Len(piece) <= BufSize,
         ret = "running", ret' = "running", InBuf' = InBuf, environ' = environ,
         BufSize' = BufSize, OutBuf' = OutBuf \o piece, i' = i + 1
  PROVE  ExpandInv'
<1>1. ExpandTypes /\ NoneOpen /\ Written /\ InputOK /\ EnvironmentOK /\ BufSize \in Nat
      /\ OutBuf \in Seq(Alphabet)
  BY Zenon DEF ExpandInv, ExpandTypes
<1>2. /\ i \in Nat /\ Len(Readable) \in Nat /\ Len(InBuf) \in Nat
  BY <1>1, ReadSoFar
<1>3. i + 1 \in 1..Len(InBuf) /\ i' \in 0..Len(InBuf')
  BY <1>2
<1>4. i < Len(Readable)
  <2>1. i + 1 <= Len(Readable)
    BY <1>1, <1>3, ReadableItems
  <2> QED
    BY <1>2, <2>1
<1>5. /\ Pieces' = Pieces
      /\ (NoEmptyDefault' <=> NoEmptyDefault) /\ InputOK' /\ EnvironmentOK'
  BY <1>1, SameInput
<1>6. OutBuf' \in Seq(Alphabet) /\ Len(OutBuf') = Len(OutBuf) + Len(piece)
  BY <1>1, ConcatElements
<1>7. ExpandTypes'
  BY <1>1, <1>3, <1>5, <1>6 DEF ExpandTypes
<1>8. NoneOpen'
  <2>1. \A k \in 1..(i + 1) : k = i + 1 \/ k \in 1..i
    BY <1>2
  <2> QED
    BY <1>1, <2>1 DEF NoneOpen
<1>9. Written'
  <2> SUFFICES ASSUME NoEmptyDefault PROVE OutBuf' = Done(i)'
    BY <1>5 DEF Written
  <2>1. OutBuf = Done(i) /\ piece = CutPiece(InBuf[i + 1])
    BY <1>1 DEF Written
  <2>2. Done(i + 1) = Done(i) \o CutPiece(InBuf[i + 1])
    BY <1>1, <1>2, <1>4, DoneSteps
  <2>3. Done(i)' = Done(i + 1)
    BY <1>5 DEF Done
  <2> QED
    BY <2>1, <2>2, <2>3
<1>10. Ended'
  BY DEF Ended
<1> QED
  BY <1>7, <1>8, <1>9, <1>10 DEF ExpandInv

(* A return, for one of the reasons there are. *)
LEMMA ReturnInv ==
  ASSUME ExpandInv,
         ret' \in {"running", "0", "-1"}, UNCHANGED <<InBuf, environ, BufSize, i, OutBuf>>,
         NoEmptyDefault /\ ret' = "0" =>
           \/ i = Len(Readable)
           \/ \E n \in i..Len(Readable) : Len(Done(n)) >= BufSize
  PROVE  ExpandInv'
<1>1. ExpandTypes /\ NoneOpen /\ Written /\ InputOK /\ EnvironmentOK
  BY Zenon DEF ExpandInv, ExpandTypes
<1>2. /\ Pieces' = Pieces /\ Readable' = Readable
      /\ (NoEmptyDefault' <=> NoEmptyDefault) /\ InputOK' /\ EnvironmentOK'
  BY <1>1, SameInput
<1>3. ExpandTypes' /\ NoneOpen'
  BY <1>1, <1>2 DEF ExpandTypes, NoneOpen
<1>4. Written'
  BY <1>1, <1>2 DEF Written, Done
<1>5. Ended'
  BY <1>2 DEF Ended, Done
<1> QED
  BY <1>3, <1>4, <1>5 DEF ExpandInv

LEMMA CopyCharInv == ExpandInv /\ CopyChar => ExpandInv'
<1> SUFFICES ASSUME ExpandInv, CopyChar PROVE ExpandInv'
  OBVIOUS
<1>1. /\ InputOK /\ EnvironmentOK /\ BufSize \in Nat /\ i \in 0..Len(InBuf)
      /\ OutBuf \in Seq(Alphabet)
  BY Zenon DEF ExpandInv, ExpandTypes
<1>2. /\ ret = "running" /\ i < Len(InBuf) /\ Len(OutBuf) < BufSize
      /\ InBuf[i + 1].kind = "char"
      /\ OutBuf' = Append(OutBuf, InBuf[i + 1].char) /\ i' = i + 1
      /\ InBuf' = InBuf /\ environ' = environ /\ BufSize' = BufSize /\ ret' = ret
  BY Zenon DEF CopyChar, InLoop, Item
<1>3. InBuf \in Seq(Items)
  BY <1>1, Zenon DEF InputOK
<1>4. InBuf[i + 1] \in Items
  BY <1>1, <1>2, <1>3, LenProperties, ElementOfSeq
<1>5. InBuf[i + 1].char \in Alphabet
  BY <1>2, <1>4, ItemShape DEF Alphabet
<1>6. PICK piece : piece = <<InBuf[i + 1].char>>
  OBVIOUS
<1>7. piece \in Seq(Alphabet) /\ Len(piece) = 1 /\ piece = CutPiece(InBuf[i + 1])
  BY <1>2, <1>5, <1>6 DEF CutPiece
<1>8. OutBuf' = OutBuf \o piece
  BY <1>1, <1>2, <1>5, <1>6, AppendIsConcat
<1>9. Len(OutBuf) + Len(piece) <= BufSize
  BY <1>1, <1>2, <1>7, LenProperties
<1> QED
  BY <1>2, <1>7, <1>8, <1>9, TakeInv

LEMMA CopyValueInv == ExpandInv /\ CopyValue => ExpandInv'
<1> SUFFICES ASSUME ExpandInv, CopyValue PROVE ExpandInv'
  OBVIOUS
<1>1. /\ InputOK /\ EnvironmentOK /\ BufSize \in Nat /\ i \in 0..Len(InBuf)
      /\ OutBuf \in Seq(Alphabet) /\ ExpandTypes /\ NoneOpen /\ Written
  BY Zenon DEF ExpandInv, ExpandTypes
<1>2. /\ ret = "running" /\ i < Len(InBuf) /\ Len(OutBuf) < BufSize
      /\ InBuf[i + 1].kind = "ref"
      /\ InBuf' = InBuf /\ environ' = environ /\ BufSize' = BufSize
  BY Zenon DEF CopyValue, InLoop, Item
<1>3. PICK value : value = getEnvVal(InBuf[i + 1])
  OBVIOUS
<1>4. IF Len(OutBuf) + Len(value) >= BufSize
      THEN ret' = "0" /\ UNCHANGED <<i, OutBuf>>
      ELSE OutBuf' = OutBuf \o value /\ i' = i + 1 /\ UNCHANGED ret
  BY <1>3, Zenon DEF CopyValue, Overflows, Item
<1>5. InBuf \in Seq(Items)
  BY <1>1, Zenon DEF InputOK
<1>6. InBuf[i + 1] \in Items /\ i + 1 \in 1..Len(InBuf) /\ i \in Nat
  BY <1>1, <1>2, <1>5, LenProperties, ElementOfSeq
<1>7. value \in Seq(Alphabet)
  BY <1>1, <1>2, <1>3, <1>6, GetEnvValText
<1>8. NoEmptyDefault => value = CutPiece(InBuf[i + 1])
  <2>1. NoEmptyDefault /\ InBuf[i + 1].op = ":-" => environ[InBuf[i + 1].name] # <<>>
    BY <1>2, <1>6 DEF NoEmptyDefault
  <2> QED
    BY <1>1, <1>2, <1>3, <1>6, <2>1, GetEnvValMeans
<1>9. Len(OutBuf) \in Nat /\ Len(value) \in Nat
  BY <1>1, <1>7, LenProperties
<1>10. CASE Len(OutBuf) + Len(value) >= BufSize
  <2>1. /\ i \in Nat /\ Len(Readable) \in Nat /\ Len(InBuf) \in Nat
    BY <1>1, ReadSoFar
  <2>2. i + 1 <= Len(Readable)
    BY <1>1, <1>2, <1>6, ReadableItems
  <2>3. i < Len(Readable) /\ i + 1 \in i..Len(Readable)
    BY <2>1, <2>2
  <2>4. ASSUME NoEmptyDefault PROVE Len(Done(i + 1)) >= BufSize
    <3>1. Done(i + 1) = Done(i) \o CutPiece(InBuf[i + 1])
      BY <1>1, <2>1, <2>3, DoneSteps
    <3>2. Done(i + 1) = OutBuf \o value
      BY <1>1, <1>8, <2>4, <3>1 DEF Written
    <3>3. Len(Done(i + 1)) = Len(OutBuf) + Len(value)
      BY <1>1, <1>7, <3>2, ConcatElements
    <3> QED
      BY <1>10, <3>3
  <2>5. NoEmptyDefault => \E n \in i..Len(Readable) : Len(Done(n)) >= BufSize
    BY <2>3, <2>4
  <2> QED
    BY <1>2, <1>4, <1>10, <2>5, ReturnInv
<1>11. CASE ~(Len(OutBuf) + Len(value) >= BufSize)
  <2>1. Len(OutBuf) + Len(value) <= BufSize
    BY <1>1, <1>9, <1>11
  <2>2. OutBuf' = OutBuf \o value /\ i' = i + 1 /\ ret' = "running"
    BY <1>2, <1>4, <1>11
  <2>3. InBuf[i + 1].kind # "open"
    BY <1>2
  <2> QED
    BY <1>2, <1>7, <1>8, <2>1, <2>2, <2>3, TakeInv
<1> QED
  BY <1>10, <1>11

LEMMA LoopEndsInv == ExpandInv /\ LoopEnds => ExpandInv'
<1> SUFFICES ASSUME ExpandInv, LoopEnds PROVE ExpandInv'
  OBVIOUS
<1>1. /\ InputOK /\ EnvironmentOK /\ BufSize \in Nat
      /\ OutBuf \in Seq(Alphabet) /\ ExpandTypes /\ NoneOpen /\ Written
  BY Zenon DEF ExpandInv, ExpandTypes
<1>2. /\ ret' = "0" /\ UNCHANGED <<InBuf, environ, BufSize, i, OutBuf>>
      /\ ~(i < Len(InBuf) /\ Len(OutBuf) < BufSize)
  BY Zenon DEF LoopEnds, InLoop
<1>3. /\ i \in Nat /\ i <= Len(Readable) /\ Len(Readable) \in Nat
      /\ Len(InBuf) \in Nat /\ Len(Readable) <= Len(InBuf)
      /\ i = Len(InBuf) => i = Len(Readable)
  BY <1>1, ReadSoFar
<1>4. CASE ~(i < Len(InBuf))
  <2>1. i = Len(Readable)
    BY <1>3, <1>4
  <2> QED
    BY <1>2, <2>1, ReturnInv
<1>5. CASE ~(Len(OutBuf) < BufSize)
  <2>1. i \in i..Len(Readable) /\ Len(OutBuf) >= BufSize
    BY <1>1, <1>3, <1>5, LenProperties
  <2>2. NoEmptyDefault => Len(Done(i)) >= BufSize
    BY <1>1, <2>1 DEF Written
  <2>3. NoEmptyDefault => \E n \in i..Len(Readable) : Len(Done(n)) >= BufSize
    BY <2>1, <2>2
  <2> QED
    BY <1>2, <2>3, ReturnInv
<1> QED
  BY <1>2, <1>4, <1>5

LEMMA ExpandInvNext == ExpandInv /\ [ExpandNext]_expandVars => ExpandInv'
<1> SUFFICES ASSUME ExpandInv, [ExpandNext]_expandVars PROVE ExpandInv'
  OBVIOUS
<1>1. CASE Write
  BY <1>1, WriteInv
<1>2. CASE Call
  BY <1>2, ReturnInv, Zenon DEF Call
<1>3. CASE CopyChar
  BY <1>3, CopyCharInv
<1>4. CASE CopyValue
  BY <1>4, CopyValueInv
<1>5. CASE NameTooLong
  BY <1>5, ReturnInv, Zenon DEF NameTooLong
<1>6. CASE BraceOpen
  <2>1. InBuf[i + 1].kind = "open" /\ i < Len(InBuf) /\ ret' = "0"
        /\ UNCHANGED <<InBuf, environ, BufSize, i, OutBuf>>
    BY <1>6, Zenon DEF BraceOpen, InLoop, Item
  <2>2. ExpandTypes /\ NoneOpen /\ InputOK
    BY Zenon DEF ExpandInv, ExpandTypes
  <2>3. i \in Nat /\ Len(Readable) \in Nat /\ Len(InBuf) \in Nat
    BY <2>2, ReadSoFar
  <2>4. i + 1 \in 1..Len(InBuf)
    BY <2>1, <2>3
  <2>5. i + 1 = Len(Readable) + 1
    BY <2>1, <2>2, <2>4, ReadableItems
  <2>6. i = Len(Readable)
    BY <2>3, <2>5
  <2> QED
    BY <2>1, <2>6, ReturnInv
<1>7. CASE LoopEnds
  BY <1>7, LoopEndsInv
<1>8. CASE UNCHANGED expandVars
  <2>1. InBuf' = InBuf /\ environ' = environ /\ BufSize' = BufSize /\ i' = i
        /\ OutBuf' = OutBuf /\ ret' = ret
    BY <1>8 DEF expandVars
  <2>2. /\ Pieces' = Pieces /\ Readable' = Readable
        /\ (NoEmptyDefault' <=> NoEmptyDefault)
        /\ (InputOK' <=> InputOK) /\ (EnvironmentOK' <=> EnvironmentOK)
    BY <2>1, SameInput
  <2> QED
    BY <2>1, <2>2 DEF ExpandInv, ExpandTypes, NoneOpen, Written, Ended, Done
<1> QED
  BY <1>1, <1>2, <1>3, <1>4, <1>5, <1>6, <1>7, <1>8 DEF ExpandNext

(* What comes out begins the expansion. *)
LEMMA OutBegins == ExpandInv => PrefixOfExpansion
<1> SUFFICES ASSUME ExpandInv PROVE PrefixOfExpansion
  OBVIOUS
<1>1. /\ InputOK /\ EnvironmentOK /\ ExpandTypes /\ NoneOpen /\ Written
      /\ Len(OutBuf) <= BufSize
  BY Zenon DEF ExpandInv, ExpandTypes
<1>2. i \in 0..Len(Readable) /\ Len(Readable) \in i..Len(Readable)
  BY <1>1, ReadSoFar
<1>3. IsPrefix(Done(i), Done(Len(Readable))) /\ Done(Len(Readable)) = CutExpansion
  BY <1>1, <1>2, DoneSteps
<1> QED
  BY <1>1, <1>3 DEF PrefixOfExpansion, Written

(* Values that are short enough are not cut. *)
LEMMA NothingCut ==
  ASSUME InputOK, EnvironmentOK,
         \A n \in Names : environ[n] # Unset => Len(environ[n]) <= EnvValueSize
  PROVE  Expansion = CutExpansion
<1>1. /\ Readable \in Seq(Items)
      /\ \A k \in 1..Len(Readable) : Readable[k].kind # "open"
  BY ReadableItems
<1>2. DOMAIN Readable = 1..Len(Readable) /\ \A k \in 1..Len(Readable) : Readable[k] \in Items
  BY <1>1, LenProperties, ElementOfSeq
<1>3. ASSUME NEW item \in Items, item.kind # "open"
      PROVE  Piece(item) = CutPiece(item)
  <2>1. CASE item.kind = "char"
    BY <2>1 DEF Piece, CutPiece
  <2>2. CASE item.kind = "ref"
    <3>1. Meaning(item) \in Seq(Alphabet) /\ Len(Meaning(item)) <= EnvValueSize
      BY <2>2, MeaningText
    <3>2. Copied(Meaning(item)) = Meaning(item)
      BY <3>1, CopiedText
    <3> QED
      BY <2>2, <3>2 DEF Piece, CutPiece
  <2> QED
    BY <1>3, <2>1, <2>2, ItemShape
<1>4. \A k \in DOMAIN Readable : Piece(Readable[k]) = CutPiece(Readable[k])
  BY <1>1, <1>2, <1>3
<1>5. [k \in DOMAIN Readable |-> Piece(Readable[k])]
        = [k \in DOMAIN Readable |-> CutPiece(Readable[k])]
  BY <1>4, Zenon
<1> QED
  BY <1>5 DEF Expansion, CutExpansion

(* What fits is written whole: the copying cannot have met a full buffer.    *)
LEMMA OutWhole == ExpandInv => WholeWhenItFits
<1> SUFFICES ASSUME ExpandInv, ret = "0", NoEmptyDefault, Len(Expansion) < BufSize,
                    \A n \in Names : environ[n] # Unset => Len(environ[n]) <= EnvValueSize
             PROVE  OutBuf = Expansion
  BY DEF WholeWhenItFits
<1>1. /\ InputOK /\ EnvironmentOK /\ ExpandTypes /\ NoneOpen /\ Written /\ BufSize \in Nat
      /\ Ended
  BY Zenon DEF ExpandInv, ExpandTypes
<1>2. Expansion = CutExpansion
  BY <1>1, NothingCut
<1>3. i \in Nat /\ Len(Readable) \in Nat
  BY <1>1, ReadSoFar
<1>4. OutBuf = Done(i) /\ Done(Len(Readable)) = CutExpansion
  BY <1>1, DoneSteps DEF Written
<1>5. ASSUME NEW n \in i..Len(Readable), Len(Done(n)) >= BufSize PROVE FALSE
  <2>1. n \in 0..Len(Readable) /\ Len(Readable) \in n..Len(Readable)
    BY <1>3
  <2>2. Len(Readable) \in 0..Len(Readable)
    BY <1>3
  <2>3. Done(n) \in Seq(Alphabet) /\ IsPrefix(Done(n), Done(Len(Readable)))
    BY <1>1, <2>1, DoneSteps
  <2>4. Done(Len(Readable)) \in Seq(Alphabet)
    BY <1>1, <2>2, DoneSteps
  <2>5. Len(Done(n)) <= Len(Done(Len(Readable)))
    BY <2>3, <2>4, PrefixElements
  <2>6. Len(Done(n)) \in Nat /\ Len(Done(Len(Readable))) \in Nat
    BY <2>3, <2>4, LenProperties
  <2>7. Len(Done(Len(Readable))) < BufSize
    BY <1>2, <1>4
  <2> QED
    BY <1>1, <1>5, <2>5, <2>6, <2>7
<1>6. i = Len(Readable)
  BY <1>1, <1>5 DEF Ended
<1> QED
  BY <1>2, <1>4, <1>6

(* expandEnvStr: whatever the input, the environment and the sizes, and      *)
(* whatever stops it, the buffer holds a beginning of the expansion, and all *)
(* of it when it fits.                                                       *)
THEOREM ExpansionFaithful == ExpandSpec => []ExpandsFaithfully
<1>1. ExpandInit => ExpandInv
  BY ExpandInvInit
<1>2. ExpandInv /\ [ExpandNext]_expandVars => ExpandInv'
  BY ExpandInvNext
<1>3. ExpandInv => ExpandsFaithfully
  BY OutBegins, OutWhole DEF ExpandsFaithfully
<1> QED
  BY <1>1, <1>2, <1>3, PTL DEF ExpandSpec

-----------------------------------------------------------------------------
(* getLoginInfo *)

(* What holds of the buffers before the first call, and after any. *)
LoginInv ==
  /\ file \in Seq(Lines) /\ logins \in Nat
  /\ login \in [1..3 -> [call : Nat, line : Nat]]
  /\ logins = 0 => \A j \in 1..3 : login[j] = NoWord
  /\ MixedOnlyWhenShort

(* What the scan of the file finds: the first entry for the option, if any. *)
LEMMA ScanFinds ==
  ASSUME file \in Seq(Lines), NEW Option
  PROVE  /\ Entries(file, Option) = {} <=> Found(Option) = 0
         /\ Found(Option) # 0 => /\ FirstEntry(file, Found(Option), Option)
                                 /\ Found(Option) \in Nat
                                 /\ Found(Option) \in DOMAIN file
                                 /\ file[Found(Option)].option = Option
<1>1. DOMAIN file = 1..Len(file) /\ Len(file) \in Nat
  BY LenProperties
<1>2. PICK entries : entries = Entries(file, Option)
  OBVIOUS
<1>3. entries = {k \in 1..Len(file) : IsEntry(file[k], Option)}
  BY <1>1, <1>2 DEF IsEntry, Entries
<1>4. PICK found : found = Found(Option)
  OBVIOUS
<1>5. found = IF entries # {} THEN Min(entries) ELSE 0
  BY <1>3, <1>4 DEF SelectInSeq, Found
<1>6. entries \in SUBSET Nat /\ 0 \notin entries
  BY <1>1, <1>3
<1>7. entries # {} => Min(entries) \in entries /\ \A y \in entries : Min(entries) <= y
  BY <1>6, MinIsLeast
<1>8. /\ entries = {} <=> found = 0
      /\ found # 0 => found \in entries /\ found \in Nat /\ \A k \in entries : found <= k
  BY <1>5, <1>6, <1>7
<1>9. \A k \in entries : k \in DOMAIN file /\ file[k].option = Option
  BY <1>2 DEF Entries
<1> QED
  BY <1>2, <1>4, <1>8, <1>9 DEF FirstEntry

LEMMA LoginInvInit == LoginInit => LoginInv
<1> SUFFICES ASSUME LoginInit PROVE LoginInv
  OBVIOUS
<1>1. NoWord \in [call : Nat, line : Nat] /\ NoWord.call = 0
  BY DEF NoWord
<1>2. file \in Seq(Lines) /\ logins = 0 /\ login = <<NoWord, NoWord, NoWord>>
  BY EmptySeq DEF LoginInit
<1>3. /\ login \in [1..3 -> [call : Nat, line : Nat]]
      /\ \A j \in 1..3 : login[j] = NoWord
  BY <1>1, <1>2
<1> QED
  BY <1>1, <1>2, <1>3 DEF LoginInv, MixedOnlyWhenShort

(* A call writes the words of the first entry, or nothing.                   *)
LEMMA LoginInvNext == LoginInv /\ [LoginNext]_loginVars => LoginInv'
<1> SUFFICES ASSUME LoginInv, [LoginNext]_loginVars PROVE LoginInv'
  OBVIOUS
<1>0. /\ file \in Seq(Lines) /\ logins \in Nat
      /\ login \in [1..3 -> [call : Nat, line : Nat]]
      /\ logins = 0 => \A j \in 1..3 : login[j] = NoWord
  BY DEF LoginInv
<1>1. CASE AddLine
  <2>1. /\ file' \in Seq(Lines) /\ logins = 0 /\ logins' = 0 /\ login' = login
        /\ \A j \in 1..3 : login'[j] = NoWord
    BY <1>0, <1>1, AppendProperties DEF AddLine
  <2>2. NoWord.call = 0 /\ NoWord.line = 0
    BY DEF NoWord
  <2> QED
    BY <1>0, <2>1, <2>2 DEF LoginInv, MixedOnlyWhenShort
<1>2. CASE getLoginInfo
  <2>1. PICK Option \in Options :
          /\ option' = Option
          /\ answer' = IF Found(Option) = 0 THEN -1 ELSE 0
          /\ login' = [j \in 1..3 |->
               IF LineOf(Option, j) # 0
               THEN [call |-> logins', line |-> LineOf(Option, j)] ELSE login[j]]
    BY <1>2 DEF getLoginInfo
  <2>2. file' = file /\ logins' = logins + 1 /\ logins' \in Nat /\ logins' > 0
    BY <1>0, <1>2 DEF getLoginInfo
  <2>3. PICK found : found = Found(Option)
    OBVIOUS
  <2>4. /\ Entries(file, Option) = {} <=> found = 0
        /\ found # 0 => /\ FirstEntry(file, found, Option) /\ found \in Nat
                        /\ found \in DOMAIN file /\ file[found].option = Option
    BY <1>0, <2>3, ScanFinds
  <2>5. \A j \in 1..3 :
          /\ login[j] # NoWord =>
               /\ FirstEntry(file, login[j].line, file[login[j].line].option)
               /\ j <= file[login[j].line].words
               /\ login[j].call \in 1..logins
          /\ login[j].call \in Nat /\ login[j].call <= logins
    BY <1>0 DEF LoginInv, MixedOnlyWhenShort, NoWord
  <2>6. \A h, j \in 1..3 : h < j =>
          /\ login[j].call <= login[h].call
          /\ login[j].call = login[h].call => login[j].line = login[h].line
          /\ login[j].call < login[h].call => file[login[h].line].words < j
    BY DEF LoginInv, MixedOnlyWhenShort
  <2>7. CASE found = 0
    <3>1. login' = login /\ answer' = -1
      BY <1>0, <2>1, <2>3, <2>7 DEF LineOf
    <3>2. \A j \in 1..3 : login'[j] # NoWord =>
            /\ FirstEntry(file', login'[j].line, file'[login'[j].line].option)
            /\ j <= file'[login'[j].line].words
            /\ login'[j].call \in 1..logins'
      BY <1>0, <2>2, <2>5, <3>1
    <3>3. \A j \in 1..3 : login'[j].call < logins'
      BY <1>0, <2>2, <2>5, <3>1
    <3>4. MixedOnlyWhenShort'
      BY <2>1, <2>2, <2>4, <2>6, <2>7, <3>1, <3>2, <3>3 DEF MixedOnlyWhenShort
    <3> QED
      BY <1>0, <2>2, <3>1, <3>4 DEF LoginInv
  <2>8. CASE found # 0
    <3>1. PICK new : new = [call |-> logins', line |-> found]
      OBVIOUS
    <3>2. /\ login' = [j \in 1..3 |-> IF j <= file[found].words THEN new ELSE login[j]]
          /\ answer' = 0
      BY <2>1, <2>3, <2>8, <3>1 DEF LineOf
    <3>3. file[found].words \in 0..3
      <4>1. found \in 1..Len(file)
        BY <1>0, <2>4, <2>8, LenProperties
      <4>2. file[found] \in Lines
        BY <1>0, <4>1, ElementOfSeq
      <4> QED
        BY <4>2 DEF Lines
    <3>4. new.call = logins' /\ new.line = found /\ new \in [call : Nat, line : Nat]
      BY <2>2, <2>4, <2>8, <3>1
    <3>5. login' \in [1..3 -> [call : Nat, line : Nat]]
      BY <1>0, <3>2, <3>4
    <3>6. ASSUME NEW j \in 1..3, login'[j] # NoWord
          PROVE  /\ FirstEntry(file', login'[j].line, file'[login'[j].line].option)
                 /\ j <= file'[login'[j].line].words
                 /\ login'[j].call \in 1..logins'
      <4>1. CASE j <= file[found].words
        BY <2>2, <2>4, <2>8, <3>2, <3>4, <4>1
      <4>2. CASE ~(j <= file[found].words)
        <5>1. login'[j] = login[j]
          BY <3>2, <4>2
        <5> QED
          BY <1>0, <2>2, <2>5, <3>6, <5>1
      <4> QED
        BY <4>1, <4>2
    <3>7. ASSUME NEW h \in 1..3, NEW j \in 1..3, h < j
          PROVE  /\ login'[j].call <= login'[h].call
                 /\ login'[j].call = login'[h].call => login'[j].line = login'[h].line
                 /\ login'[j].call < login'[h].call => file'[login'[h].line].words < j
      <4>1. CASE j <= file[found].words
        <5>1. login'[h] = new /\ login'[j] = new
          BY <3>2, <3>3, <3>7, <4>1
        <5> QED
          BY <2>2, <3>4, <5>1
      <4>2. CASE ~(j <= file[found].words) /\ h <= file[found].words
        <5>1. login'[h] = new /\ login'[j] = login[j]
          BY <3>2, <4>2
        <5>2. login[j].call < logins'
          BY <1>0, <2>2, <2>5
        <5>3. login[j].call \in Nat /\ logins' \in Nat
          BY <2>2, <2>5, <3>4
        <5>4. login'[h].call = logins' /\ login'[h].line = found /\ file' = file
          BY <2>2, <3>4, <5>1
        <5>5. file[found].words < j
          BY <3>3, <4>2
        <5>6. login[j].call <= logins' /\ login[j].call # logins'
          BY <5>2, <5>3
        <5> QED
          BY <5>1, <5>4, <5>5, <5>6
      <4>3. CASE ~(j <= file[found].words) /\ ~(h <= file[found].words)
        <5>1. login'[h] = login[h] /\ login'[j] = login[j]
          BY <3>2, <4>3
        <5> QED
          BY <2>2, <2>6, <3>7, <5>1
      <4> QED
        BY <4>1, <4>2, <4>3
    <3>8. ASSUME NEW j \in 1..3
          PROVE  login'[j] = [call |-> logins', line |-> found] <=> j <= file'[found].words
      <4>1. CASE j <= file[found].words
        BY <2>2, <3>1, <3>2, <4>1
      <4>2. CASE ~(j <= file[found].words)
        <5>1. login'[j] = login[j]
          BY <3>2, <4>2
        <5>2. login[j].call # logins'
          BY <1>0, <2>2, <2>5
        <5> QED
          BY <2>2, <3>1, <3>4, <4>2, <5>1, <5>2
      <4> QED
        BY <4>1, <4>2
    <3>9. found \in DOMAIN file' /\ FirstEntry(file', found, option')
      BY <2>1, <2>2, <2>4, <2>8
    <3>10. MixedOnlyWhenShort'
      BY <3>2, <3>6, <3>7, <3>8, <3>9 DEF MixedOnlyWhenShort
    <3> QED
      BY <1>0, <2>2, <3>5, <3>10 DEF LoginInv
  <2> QED
    BY <2>7, <2>8
<1>3. CASE UNCHANGED loginVars
  BY <1>3 DEF LoginInv, MixedOnlyWhenShort, FirstEntry, Entries, loginVars
<1> QED
  BY <1>1, <1>2, <1>3 DEF LoginNext

(* For every file and every sequence of calls: a word in the caller's buffers *)
(* is older than one before it only if the entry that gave that one is too    *)
(* short, and a call that returned 0 gives one whole login exactly when its    *)
(* entry has three words, although the return value does not tell.             *)
THEOREM LoginsMixOnlyShort == LoginSpec => []MixedOnlyWhenShort
<1>1. LoginInit => LoginInv
  BY LoginInvInit
<1>2. LoginInv /\ [LoginNext]_loginVars => LoginInv'
  BY LoginInvNext
<1>3. LoginInv => MixedOnlyWhenShort
  BY DEF LoginInv
<1> QED
  BY <1>1, <1>2, <1>3, PTL DEF LoginSpec
=============================================================================
