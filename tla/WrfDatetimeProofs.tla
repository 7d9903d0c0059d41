------------------------- MODULE WrfDatetimeProofs -------------------------
(***************************************************************************)
(* The controller's date arithmetic agrees with the calendar for every     *)
(* date: each second of the calendar is one more absolute second, and the  *)
(* date it computes for a number of seconds is the one so much later.      *)
(***************************************************************************)
EXTENDS WrfDatetime, TLAPS, WellFoundedInduction

(* A least element, which stands in for induction here and in RestartSetsProofs. *)
LEMMA LeastElement ==
    ASSUME NEW T \in SUBSET Nat, T # {}
    PROVE  \E x \in T : \A y \in T : x <= y
<1>1. IsWellFoundedOn({p \in Nat \X Nat : p[1] < p[2]}, Nat)
  BY NatLessThanWellFounded DEF OpToRel
<1>2. PICK x \in T : \A y \in T : <<y, x>> \notin {p \in Nat \X Nat : p[1] < p[2]}
  BY <1>1, WFMin
<1>3. ASSUME NEW y \in T PROVE x <= y
  <2>1. x \in Nat /\ y \in Nat
    OBVIOUS
  <2>2. ~(y < x)
    BY <1>2, <2>1
  <2> QED
    BY <2>1, <2>2, SMT
<1> QED
  BY <1>3

(* The rule for leap years, and what it means for the days before a year.   *)
LEMMA LeapYear ==
    ASSUME NEW y \in Int
    PROVE  is_leap_year(y) <=> GregorianLeapYear(y)
BY SMT DEF is_leap_year, GregorianLeapYear

LEMMA YearLength ==
    ASSUME NEW y \in Int
    PROVE  days_before_year(y + 1) - days_before_year(y)
               = IF GregorianLeapYear(y) THEN 366 ELSE 365
BY SMT DEF days_before_year, GregorianLeapYear

(* The table of month lengths is that of the calendar.                      *)
LEMMA DaysInMonth ==
    ASSUME NEW y \in Int, NEW m \in 1 .. 12
    PROVE  days_in_month(y, m) = MonthLength(y, m)
<1>1. is_leap_year(y) <=> GregorianLeapYear(y)
  BY LeapYear
<1>2. month_lengths[m] = CASE m \in {4, 6, 9, 11} -> 30 [] m = 2 -> 28 [] OTHER -> 31
  BY SMT DEF month_lengths
<1> QED
  BY <1>1, <1>2, SMT DEF days_in_month, MonthLength

LEMMA MonthLengths ==
    ASSUME NEW y \in Int, NEW m \in 1 .. 12
    PROVE  MonthLength(y, m) \in 28 .. 31
BY SMT DEF MonthLength

(* The days before a month grow by the length of each month.                *)
LEMMA DaysBeforeMonth ==
    ASSUME NEW y \in Int
    PROVE  /\ days_before_month(y, 1) = 0
           /\ \A m \in 1 .. 11 : days_before_month(y, m + 1)
                                     = days_before_month(y, m) + MonthLength(y, m)
           /\ days_before_month(y, 12) + MonthLength(y, 12)
                  = IF GregorianLeapYear(y) THEN 366 ELSE 365
<1>1. \A m \in 1 .. 12 : days_in_month(y, m) = MonthLength(y, m)
  BY DaysInMonth
<1>2. \A m \in 1 .. 12 : MonthLength(y, m) \in Int
  BY MonthLengths
<1>3. days_before_month(y, 1) = 0
  BY SMT DEF days_before_month
<1>4. \A m \in 1 .. 11 : days_before_month(y, m + 1)
                             = days_before_month(y, m) + MonthLength(y, m)
  BY <1>1, <1>2, SMT DEF days_before_month
<1>5. days_before_month(y, 12) + MonthLength(y, 12)
          = IF GregorianLeapYear(y) THEN 366 ELSE 365
  BY <1>1, SMT DEF days_before_month, MonthLength
<1> QED
  BY <1>3, <1>4, <1>5

LEMMA DayCounts ==
    ASSUME NEW y \in Int, NEW m \in 1 .. 12
    PROVE  days_before_year(y) \in Int /\ days_before_month(y, m) \in Int
<1>1. \A n \in 1 .. 12 : days_in_month(y, n) \in Int
  BY DaysInMonth, MonthLengths, SMT
<1> QED
  BY <1>1, SMT DEF days_before_year, days_before_month

-----------------------------------------------------------------------------

(* The dates the code accepts as valid are those of the calendar.           *)
THEOREM ValidDates ==
    ASSUME NEW d \in DateTime
    PROVE  is_valid_datetime(d) <=> d \in Dates
BY DaysInMonth, SMT DEF is_valid_datetime, Dates, DateTime

(* A date made of fields that are in their ranges.                          *)
Fields(y, m, n, h, mi, s) ==
    /\ y \in Int /\ y > 0 /\ m \in 1 .. 12 /\ n \in 1 .. MonthLength(y, m)
    /\ h \in 0 .. 23 /\ mi \in 0 .. 59 /\ s \in 0 .. 59

Made(y, m, n, h, mi, s) ==
    [year |-> y, month |-> m, day |-> n, hour |-> h, minute |-> mi, second |-> s]

LEMMA MadeDate ==
    ASSUME NEW y, NEW m, NEW n, NEW h, NEW mi, NEW s, Fields(y, m, n, h, mi, s)
    PROVE  Made(y, m, n, h, mi, s) \in Dates
<1>1. MonthLength(y, m) \in Int
  BY MonthLengths DEF Fields
<1>2. n \in Int /\ m \in Int /\ h \in Int /\ mi \in Int /\ s \in Int
  BY <1>1, SMT DEF Fields
<1> QED
  BY <1>2 DEF Dates, DateTime, Fields, Made

(* Days before a month, and the absolute seconds of a date given by fields. *)
Days(y, m) == days_before_year(y) + days_before_month(y, m)

Seconds(y, m, n, h, mi, s) == datetime_to_absolute_seconds(Made(y, m, n, h, mi, s))

LEMMA DaysCount ==
    ASSUME NEW y \in Int
    PROVE  /\ \A m \in 1 .. 12 : Days(y, m) \in Int
           /\ \A m \in 1 .. 11 : Days(y, m + 1) = Days(y, m) + MonthLength(y, m)
           /\ Days(y + 1, 1) = Days(y, 12) + 31
<1>1. /\ days_before_year(y) \in Int /\ days_before_year(y + 1) \in Int
      /\ \A m \in 1 .. 12 : days_before_month(y, m) \in Int
  BY DayCounts, SMT DEF days_before_year
<1>2. \A m \in 1 .. 12 : MonthLength(y, m) \in Int
  BY MonthLengths
<1>3. \A m \in 1 .. 12 : Days(y, m) \in Int
  BY <1>1, SMT DEF Days
<1>4. ASSUME NEW m \in 1 .. 11
      PROVE  Days(y, m + 1) = Days(y, m) + MonthLength(y, m)
  <2>1. m \in 1 .. 12
    BY SMT
  <2>2. days_before_month(y, m + 1) = days_before_month(y, m) + MonthLength(y, m)
    BY DaysBeforeMonth
  <2> QED
    BY <1>1, <1>2, <2>1, <2>2, SMT DEF Days
<1>5. Days(y + 1, 1) = Days(y, 12) + 31
  <2>1. y + 1 \in Int
    BY SMT
  <2>2. days_before_month(y + 1, 1) = 0
    BY <2>1, DaysBeforeMonth
  <2>3. MonthLength(y, 12) = 31
    BY SMT DEF MonthLength
  <2>4. days_before_month(y, 12) + 31 = days_before_year(y + 1) - days_before_year(y)
    BY <2>3, DaysBeforeMonth, YearLength
  <2>5. days_before_month(y, 12) \in Int
    BY <1>1, SMT
  <2> QED
    BY <1>1, <2>2, <2>4, <2>5, SMT DEF Days
<1> QED
  BY <1>3, <1>4, <1>5

(* Within a month, and from a month and a year to the next.                 *)
LEMMA SecondsType ==
    ASSUME NEW y \in Int, NEW m \in 1 .. 12,
           NEW n \in Int, NEW h \in Int, NEW mi \in Int, NEW s \in Int
    PROVE  Seconds(y, m, n, h, mi, s) \in Int
<1>1. Days(y, m) \in Int
  BY DaysCount
<1>2. Seconds(y, m, n, h, mi, s)
          = (Days(y, m) + n - 1) * 86400 + h * 3600 + mi * 60 + s
  BY DEF Seconds, datetime_to_absolute_seconds, Days, Made
<1> QED
  BY <1>1, <1>2, SMT

LEMMA SameMonth ==
    ASSUME NEW y \in Int, NEW m \in 1 .. 12,
           NEW n \in Int, NEW h \in Int, NEW mi \in Int, NEW s \in Int,
           NEW n2 \in Int, NEW h2 \in Int, NEW mi2 \in Int, NEW s2 \in Int
    PROVE  Seconds(y, m, n2, h2, mi2, s2)
               = Seconds(y, m, n, h, mi, s) + (n2 - n) * 86400
                     + (h2 - h) * 3600 + (mi2 - mi) * 60 + s2 - s
<1>1. Days(y, m) \in Int
  BY DaysCount
<1>2. Seconds(y, m, n, h, mi, s)
          = (Days(y, m) + n - 1) * 86400 + h * 3600 + mi * 60 + s
  BY DEF Seconds, datetime_to_absolute_seconds, Days, Made
<1>3. Seconds(y, m, n2, h2, mi2, s2)
          = (Days(y, m) + n2 - 1) * 86400 + h2 * 3600 + mi2 * 60 + s2
  BY DEF Seconds, datetime_to_absolute_seconds, Days, Made
<1> QED
  BY <1>1, <1>2, <1>3, SMT

LEMMA FirstOfNextMonth ==
    ASSUME NEW y \in Int, NEW m \in 1 .. 11, NEW mi, NEW s, mi \in Int, s \in Int
    PROVE  Seconds(y, m + 1, 1, 0, mi, s)
               = Seconds(y, m, MonthLength(y, m), 0, mi, s) + 86400
<1>1. m \in 1 .. 12
  BY SMT
<1>2. Days(y, m) \in Int
  BY <1>1, DaysCount
<1>3. MonthLength(y, m) \in Int
  BY <1>1, MonthLengths
<1>4. Days(y, m + 1) = Days(y, m) + MonthLength(y, m)
  BY DaysCount
<1>5. Seconds(y, m, MonthLength(y, m), 0, mi, s)
          = (Days(y, m) + MonthLength(y, m) - 1) * 86400 + 0 * 3600 + mi * 60 + s
  BY DEF Seconds, datetime_to_absolute_seconds, Days, Made
<1>6. Seconds(y, m + 1, 1, 0, mi, s)
          = (Days(y, m + 1) + 1 - 1) * 86400 + 0 * 3600 + mi * 60 + s
  BY DEF Seconds, datetime_to_absolute_seconds, Days, Made
<1> QED
  BY <1>2, <1>3, <1>4, <1>5, <1>6, SMT

LEMMA FirstOfNextYear ==
    ASSUME NEW y \in Int, NEW mi \in Int, NEW s \in Int
    PROVE  Seconds(y + 1, 1, 1, 0, mi, s) = Seconds(y, 12, 31, 0, mi, s) + 86400
<1>1. Days(y, 12) \in Int
  <2>1. 12 \in 1 .. 12
    BY SMT
  <2> QED
    BY <2>1, DaysCount
<1>2. Days(y + 1, 1) = Days(y, 12) + 31
  BY DaysCount
<1>3. Seconds(y, 12, 31, 0, mi, s)
          = (Days(y, 12) + 31 - 1) * 86400 + 0 * 3600 + mi * 60 + s
  BY DEF Seconds, datetime_to_absolute_seconds, Days, Made
<1>4. Seconds(y + 1, 1, 1, 0, mi, s)
          = (Days(y + 1, 1) + 1 - 1) * 86400 + 0 * 3600 + mi * 60 + s
  BY DEF Seconds, datetime_to_absolute_seconds, Days, Made
<1> QED
  BY <1>1, <1>2, <1>3, <1>4, SMT

(* The next day, at the same time.                                          *)
LEMMA DayCount ==
    ASSUME NEW y, NEW m, NEW n, NEW mi, NEW s, Fields(y, m, n, 0, mi, s)
    PROVE  \E y2, m2, n2 :
               /\ NextDay(Made(y, m, n, 0, mi, s)) = Made(y2, m2, n2, 0, mi, s)
               /\ Fields(y2, m2, n2, 0, mi, s)
               /\ Seconds(y2, m2, n2, 0, mi, s) = Seconds(y, m, n, 0, mi, s) + 86400
<1>1. /\ y \in Int /\ y > 0 /\ m \in 1 .. 12 /\ n \in 1 .. MonthLength(y, m)
      /\ mi \in 0 .. 59 /\ s \in 0 .. 59
  BY DEF Fields
<1>2. MonthLength(y, m) \in 28 .. 31
  BY <1>1, MonthLengths
<1>3. n \in Int /\ mi \in Int /\ s \in Int /\ 0 \in Int /\ MonthLength(y, m) \in Int
  BY <1>1, <1>2, SMT
<1>4. Seconds(y, m, n, 0, mi, s) \in Int
  BY <1>1, <1>3, SecondsType
<1>5. CASE n < MonthLength(y, m)
  <2>1. NextDay(Made(y, m, n, 0, mi, s)) = Made(y, m, n + 1, 0, mi, s)
    BY <1>5 DEF NextDay, Made
  <2>2. Fields(y, m, n + 1, 0, mi, s) /\ n + 1 \in Int
    BY <1>1, <1>3, <1>5, SMT DEF Fields
  <2>3. Seconds(y, m, n + 1, 0, mi, s)
            = Seconds(y, m, n, 0, mi, s) + ((n + 1) - n) * 86400 + (0 - 0) * 3600
                  + (mi - mi) * 60 + s - s
    BY <1>1, <1>3, <2>2, SameMonth
  <2>4. Seconds(y, m, n + 1, 0, mi, s) = Seconds(y, m, n, 0, mi, s) + 86400
    BY <1>3, <1>4, <2>3, SMT
  <2> QED
    BY <2>1, <2>2, <2>4
<1>6. CASE n = MonthLength(y, m) /\ m < 12
  <2>1. NextDay(Made(y, m, n, 0, mi, s)) = Made(y, m + 1, 1, 0, mi, s)
    <3>1. ~(n < MonthLength(y, m)) /\ m < 12
      BY <1>3, <1>6, SMT
    <3> QED
      BY <3>1 DEF NextDay, Made
  <2>2. m + 1 \in 1 .. 12 /\ m \in 1 .. 11
    BY <1>1, <1>6, SMT
  <2>3. MonthLength(y, m + 1) \in 28 .. 31
    BY <1>1, <2>2, MonthLengths
  <2>4. Fields(y, m + 1, 1, 0, mi, s)
    BY <1>1, <2>2, <2>3, SMT DEF Fields
  <2>5. Seconds(y, m + 1, 1, 0, mi, s)
            = Seconds(y, m, MonthLength(y, m), 0, mi, s) + 86400
    BY <1>1, <1>3, <2>2, FirstOfNextMonth
  <2> QED
    BY <1>6, <2>1, <2>4, <2>5
<1>7. CASE n = MonthLength(y, m) /\ m = 12
  <2>1. NextDay(Made(y, m, n, 0, mi, s)) = Made(y + 1, 1, 1, 0, mi, s)
    <3>1. ~(n < MonthLength(y, m)) /\ ~(m < 12)
      BY <1>3, <1>7, SMT
    <3> QED
      BY <3>1 DEF NextDay, Made
  <2>2. y + 1 \in Int /\ y + 1 > 0 /\ 1 \in 1 .. 12
    BY <1>1, SMT
  <2>3. MonthLength(y + 1, 1) \in 28 .. 31 /\ n = 31
    BY <1>1, <1>7, SMT DEF MonthLength
  <2>4. Fields(y + 1, 1, 1, 0, mi, s)
    BY <1>1, <2>2, <2>3, SMT DEF Fields
  <2>5. Seconds(y + 1, 1, 1, 0, mi, s) = Seconds(y, 12, 31, 0, mi, s) + 86400
    BY <1>1, <1>3, FirstOfNextYear
  <2> QED
    BY <1>7, <2>1, <2>3, <2>4, <2>5
<1> QED
  BY <1>1, <1>3, <1>5, <1>6, <1>7, SMT

(* Every second of the calendar, over month ends, leap days and the turns of  *)
(* years and centuries, is one absolute second for the controller: elapsed    *)
(* seconds, and with them steps, are never off by a day (wrf_datetime.cpp).   *)
THEOREM SecondsCount ==
    ASSUME NEW d \in Dates
    PROVE  /\ NextSecond(d) \in Dates
           /\ datetime_to_absolute_seconds(NextSecond(d))
                  = datetime_to_absolute_seconds(d) + 1
<1>1. PICK y, m, n, h, mi, s :
          d = Made(y, m, n, h, mi, s) /\ Fields(y, m, n, h, mi, s)
  <2>1. /\ d = Made(d.year, d.month, d.day, d.hour, d.minute, d.second)
        /\ Fields(d.year, d.month, d.day, d.hour, d.minute, d.second)
    BY DEF Dates, DateTime, Made, Fields
  <2> QED
    BY <2>1
<1>2. /\ y \in Int /\ y > 0 /\ m \in 1 .. 12 /\ h \in 0 .. 23
      /\ n \in 1 .. MonthLength(y, m) /\ mi \in 0 .. 59 /\ s \in 0 .. 59
  BY <1>1 DEF Fields
<1>3. MonthLength(y, m) \in 28 .. 31
  BY <1>2, MonthLengths
<1>4. n \in Int /\ h \in Int /\ mi \in Int /\ s \in Int /\ 0 \in Int /\ 1 \in Int
      /\ MonthLength(y, m) \in Int
  BY <1>2, <1>3, SMT
<1>5. Seconds(y, m, n, h, mi, s) \in Int
  BY <1>2, <1>4, SecondsType
<1>6. datetime_to_absolute_seconds(d) = Seconds(y, m, n, h, mi, s)
  BY <1>1 DEF Seconds
<1>7. ASSUME NEW y2, NEW m2, NEW n2, NEW h2, NEW mi2, NEW s2,
             NextSecond(d) = Made(y2, m2, n2, h2, mi2, s2),
             Fields(y2, m2, n2, h2, mi2, s2),
             Seconds(y2, m2, n2, h2, mi2, s2) = Seconds(y, m, n, h, mi, s) + 1
      PROVE  /\ NextSecond(d) \in Dates
             /\ datetime_to_absolute_seconds(NextSecond(d))
                    = datetime_to_absolute_seconds(d) + 1
  BY <1>6, <1>7, MadeDate DEF Seconds
<1>8. CASE s < 59
  <2>1. NextSecond(d) = Made(y, m, n, h, mi, s + 1)
    BY <1>1, <1>8 DEF NextSecond, Made
  <2>2. Fields(y, m, n, h, mi, s + 1) /\ s + 1 \in Int
    BY <1>2, <1>8, SMT DEF Fields
  <2>3. Seconds(y, m, n, h, mi, s + 1)
            = Seconds(y, m, n, h, mi, s) + (n - n) * 86400 + (h - h) * 3600
                  + (mi - mi) * 60 + (s + 1) - s
    BY <1>2, <1>4, <2>2, SameMonth
  <2>4. Seconds(y, m, n, h, mi, s + 1) = Seconds(y, m, n, h, mi, s) + 1
    BY <1>4, <1>5, <2>3, SMT
  <2> QED
    BY <1>7, <2>1, <2>2, <2>4
<1>9. CASE s = 59 /\ mi < 59
  <2>1. NextSecond(d) = NextMinute(Made(y, m, n, h, mi, 0))
    BY <1>1, <1>9, SMT DEF NextSecond, Made
  <2>2. NextMinute(Made(y, m, n, h, mi, 0)) = Made(y, m, n, h, mi + 1, 0)
    BY <1>9 DEF NextMinute, Made
  <2>3. Fields(y, m, n, h, mi + 1, 0) /\ mi + 1 \in Int
    BY <1>2, <1>9, SMT DEF Fields
  <2>4. Seconds(y, m, n, h, mi + 1, 0)
            = Seconds(y, m, n, h, mi, s) + (n - n) * 86400 + (h - h) * 3600
                  + ((mi + 1) - mi) * 60 + 0 - s
    BY <1>2, <1>4, <2>3, SameMonth
  <2>5. Seconds(y, m, n, h, mi + 1, 0) = Seconds(y, m, n, h, mi, s) + 1
    BY <1>4, <1>5, <1>9, <2>4, SMT
  <2> QED
    BY <1>7, <2>1, <2>2, <2>3, <2>5
<1>10. CASE s = 59 /\ mi = 59 /\ h < 23
  <2>1. NextSecond(d) = NextMinute(Made(y, m, n, h, mi, 0))
    BY <1>1, <1>10, SMT DEF NextSecond, Made
  <2>2. NextMinute(Made(y, m, n, h, mi, 0)) = NextHour(Made(y, m, n, h, 0, 0))
    BY <1>10, SMT DEF NextMinute, Made
  <2>3. NextHour(Made(y, m, n, h, 0, 0)) = Made(y, m, n, h + 1, 0, 0)
    BY <1>10 DEF NextHour, Made
  <2>4. Fields(y, m, n, h + 1, 0, 0) /\ h + 1 \in Int
    BY <1>2, <1>10, SMT DEF Fields
  <2>5. Seconds(y, m, n, h + 1, 0, 0)
            = Seconds(y, m, n, h, mi, s) + (n - n) * 86400 + ((h + 1) - h) * 3600
                  + (0 - mi) * 60 + 0 - s
    BY <1>2, <1>4, <2>4, SameMonth
  <2>6. Seconds(y, m, n, h + 1, 0, 0) = Seconds(y, m, n, h, mi, s) + 1
    BY <1>4, <1>5, <1>10, <2>5, SMT
  <2> QED
    BY <1>7, <2>1, <2>2, <2>3, <2>4, <2>6
<1>11. CASE s = 59 /\ mi = 59 /\ h = 23
  <2>1. NextSecond(d) = NextDay(Made(y, m, n, 0, 0, 0))
    <3>1. NextSecond(d) = NextMinute(Made(y, m, n, h, mi, 0))
      BY <1>1, <1>11, SMT DEF NextSecond, Made
    <3>2. NextMinute(Made(y, m, n, h, mi, 0)) = NextHour(Made(y, m, n, h, 0, 0))
      BY <1>11, SMT DEF NextMinute, Made
    <3>3. NextHour(Made(y, m, n, h, 0, 0)) = NextDay(Made(y, m, n, 0, 0, 0))
      BY <1>11, SMT DEF NextHour, Made
    <3> QED
      BY <3>1, <3>2, <3>3
  <2>2. Seconds(y, m, n, 0, 0, 0)
            = Seconds(y, m, n, h, mi, s) + (n - n) * 86400 + (0 - h) * 3600
                  + (0 - mi) * 60 + 0 - s
    BY <1>2, <1>4, SameMonth
  <2>3. /\ Seconds(y, m, n, 0, 0, 0) \in Int
        /\ Seconds(y, m, n, 0, 0, 0) + 86400 = Seconds(y, m, n, h, mi, s) + 1
    BY <1>4, <1>5, <1>11, <2>2, SMT
  <2>4. Fields(y, m, n, 0, 0, 0)
    BY <1>2, SMT DEF Fields
  <2>5. PICK y2, m2, n2 :
            /\ NextDay(Made(y, m, n, 0, 0, 0)) = Made(y2, m2, n2, 0, 0, 0)
            /\ Fields(y2, m2, n2, 0, 0, 0)
            /\ Seconds(y2, m2, n2, 0, 0, 0) = Seconds(y, m, n, 0, 0, 0) + 86400
    BY <2>4, DayCount
  <2> QED
    BY <1>7, <2>1, <2>3, <2>5
<1> QED
  BY <1>2, <1>8, <1>9, <1>10, <1>11, SMT

(* So it is with the hours, in which a model's time steps are counted.       *)
LEMMA HourCount ==
    ASSUME NEW d \in Dates
    PROVE  /\ NextHour(d) \in Dates
           /\ datetime_to_absolute_seconds(NextHour(d))
                  = datetime_to_absolute_seconds(d) + 3600
           /\ datetime_to_absolute_seconds(d) \in Int
<1>1. PICK y, m, n, h, mi, s :
          d = Made(y, m, n, h, mi, s) /\ Fields(y, m, n, h, mi, s)
  <2>1. /\ d = Made(d.year, d.month, d.day, d.hour, d.minute, d.second)
        /\ Fields(d.year, d.month, d.day, d.hour, d.minute, d.second)
    BY DEF Dates, DateTime, Made, Fields
  <2> QED
    BY <2>1
<1>2. /\ y \in Int /\ m \in 1 .. 12 /\ h \in 0 .. 23 /\ n \in 1 .. MonthLength(y, m)
      /\ mi \in 0 .. 59 /\ s \in 0 .. 59
  BY <1>1 DEF Fields
<1>3. MonthLength(y, m) \in 28 .. 31
  BY <1>2, MonthLengths
<1>4. n \in Int /\ h \in Int /\ mi \in Int /\ s \in Int /\ 0 \in Int
  BY <1>2, <1>3, SMT
<1>5. Seconds(y, m, n, h, mi, s) \in Int
  BY <1>2, <1>4, SecondsType
<1>6. datetime_to_absolute_seconds(d) = Seconds(y, m, n, h, mi, s)
  BY <1>1 DEF Seconds
<1>7. ASSUME NEW y2, NEW m2, NEW n2, NEW h2,
             NextHour(d) = Made(y2, m2, n2, h2, mi, s), Fields(y2, m2, n2, h2, mi, s),
             Seconds(y2, m2, n2, h2, mi, s) = Seconds(y, m, n, h, mi, s) + 3600
      PROVE  /\ NextHour(d) \in Dates
             /\ datetime_to_absolute_seconds(NextHour(d))
                    = datetime_to_absolute_seconds(d) + 3600
  BY <1>6, <1>7, MadeDate DEF Seconds
<1>8. CASE h < 23
  <2>1. NextHour(d) = Made(y, m, n, h + 1, mi, s)
    BY <1>1, <1>8 DEF NextHour, Made
  <2>2. Fields(y, m, n, h + 1, mi, s) /\ h + 1 \in Int
    BY <1>1, <1>2, <1>8, SMT DEF Fields
  <2>3. Seconds(y, m, n, h + 1, mi, s)
            = Seconds(y, m, n, h, mi, s) + (n - n) * 86400 + ((h + 1) - h) * 3600
                  + (mi - mi) * 60 + s - s
    BY <1>2, <1>4, <2>2, SameMonth
  <2>4. Seconds(y, m, n, h + 1, mi, s) = Seconds(y, m, n, h, mi, s) + 3600
    BY <1>4, <1>5, <2>3, SMT
  <2> QED
    BY <1>5, <1>6, <1>7, <2>1, <2>2, <2>4
<1>9. CASE h = 23
  <2>1. NextHour(d) = NextDay(Made(y, m, n, 0, mi, s))
    BY <1>1, <1>9, SMT DEF NextHour, Made
  <2>2. Seconds(y, m, n, 0, mi, s)
            = Seconds(y, m, n, h, mi, s) + (n - n) * 86400 + (0 - h) * 3600
                  + (mi - mi) * 60 + s - s
    BY <1>2, <1>4, SameMonth
  <2>3. Fields(y, m, n, 0, mi, s)
    BY <1>1, SMT DEF Fields
  <2>4. PICK y2, m2, n2 :
            /\ NextDay(Made(y, m, n, 0, mi, s)) = Made(y2, m2, n2, 0, mi, s)
            /\ Fields(y2, m2, n2, 0, mi, s)
            /\ Seconds(y2, m2, n2, 0, mi, s) = Seconds(y, m, n, 0, mi, s) + 86400
    BY <2>3, DayCount
  <2>5. Seconds(y, m, n, 0, mi, s) + 86400 = Seconds(y, m, n, h, mi, s) + 3600
    BY <1>4, <1>5, <1>9, <2>2, SMT
  <2> QED
    BY <1>5, <1>6, <1>7, <2>1, <2>4, <2>5
<1> QED
  BY <1>2, <1>5, <1>6, <1>8, <1>9, SMT

-----------------------------------------------------------------------------
(* A date, some days later.                                                 *)

(* Years and months do not overlap.                                         *)
LEMMA YearsApart ==
    ASSUME NEW y \in Int, NEW y2 \in Int, y < y2
    PROVE  days_before_year(y + 1) <= days_before_year(y2)
BY SMT DEF days_before_year

LEMMA MonthsApart ==
    ASSUME NEW y \in Int, NEW m \in 1 .. 12, NEW m2 \in 1 .. 12, m < m2
    PROVE  Days(y, m) + MonthLength(y, m) <= Days(y, m2)
<1> DEFINE Bad == {k \in 1 .. 12 : m < k /\ ~(Days(y, m) + MonthLength(y, m) <= Days(y, k))}
<1>1. SUFFICES ASSUME Bad # {} PROVE FALSE
  OBVIOUS
<1>2. PICK k \in Bad : \A j \in Bad : k <= j
  <2>1. Bad \in SUBSET Nat
    BY SMT
  <2> HIDE DEF Bad
  <2> QED
    BY <1>1, <2>1, LeastElement
<1>3. k \in 1 .. 12 /\ m < k /\ ~(Days(y, m) + MonthLength(y, m) <= Days(y, k))
  OBVIOUS
<1>4. /\ k - 1 \in 1 .. 12 /\ k - 1 \in 1 .. 11 /\ ~(k <= k - 1) /\ k - 1 + 1 = k
      /\ m = k - 1 \/ m < k - 1
  BY <1>3, SMT
<1>5. Days(y, k) = Days(y, k - 1) + MonthLength(y, k - 1)
  BY <1>4, DaysCount
<1>6. Days(y, m) \in Int /\ Days(y, k - 1) \in Int /\ Days(y, k) \in Int
  BY <1>3, <1>4, DaysCount
<1>7. MonthLength(y, m) \in 28 .. 31 /\ MonthLength(y, k - 1) \in 28 .. 31
  BY <1>4, MonthLengths
<1>8. CASE m = k - 1
  BY <1>3, <1>5, <1>6, <1>7, <1>8, SMT
<1>9. CASE m < k - 1
  <2>1. Days(y, m) + MonthLength(y, m) <= Days(y, k - 1)
    BY <1>2, <1>4, <1>9
  <2> HIDE DEF Bad
  <2> QED
    BY <1>3, <1>5, <1>6, <1>7, <2>1, SMT
<1> QED
  BY <1>4, <1>8, <1>9

\* The last day of a month is before the first one of any later month.
LEMMA MonthsInOrder ==
    ASSUME NEW y \in Int, NEW m \in 1 .. 12, NEW y2 \in Int, NEW m2 \in 1 .. 12,
           y < y2 \/ (y = y2 /\ m < m2)
    PROVE  Days(y, m) + MonthLength(y, m) <= Days(y2, m2)
<1>1. CASE y = y2 /\ m < m2
  BY <1>1, MonthsApart
<1>2. CASE y < y2
  <2>1. y + 1 \in Int /\ 1 \in 1 .. 12 /\ 12 \in 1 .. 12
    BY SMT
  <2>2. MonthLength(y, 12) = 31 /\ MonthLength(y, m) \in 28 .. 31
        /\ MonthLength(y2, 1) \in 28 .. 31
    BY <2>1, MonthLengths, SMT DEF MonthLength
  <2>3. /\ Days(y, m) \in Int /\ Days(y, 12) \in Int /\ Days(y + 1, 1) \in Int
        /\ Days(y2, 1) \in Int /\ Days(y2, m2) \in Int
    BY <2>1, DaysCount
  <2>4. m = 12 \/ Days(y, m) + MonthLength(y, m) <= Days(y, 12)
    <3>1. m = 12 \/ m < 12
      BY SMT
    <3> QED
      BY <2>1, <3>1, MonthsApart
  <2>5. Days(y + 1, 1) = Days(y, 12) + 31
    BY DaysCount
  <2>6. Days(y + 1, 1) <= Days(y2, 1)
    <3>1. days_before_month(y + 1, 1) = 0 /\ days_before_month(y2, 1) = 0
      BY <2>1, DaysBeforeMonth
    <3>2. days_before_year(y + 1) <= days_before_year(y2)
      BY <1>2, YearsApart
    <3>3. days_before_year(y + 1) \in Int /\ days_before_year(y2) \in Int
      BY <2>1, DayCounts
    <3> QED
      BY <3>1, <3>2, <3>3, SMT DEF Days
  <2>7. m2 = 1 \/ Days(y2, 1) + MonthLength(y2, 1) <= Days(y2, m2)
    <3>1. m2 = 1 \/ 1 < m2
      BY SMT
    <3> QED
      BY <2>1, <3>1, MonthsApart
  <2> QED
    BY <2>2, <2>3, <2>4, <2>5, <2>6, <2>7, SMT
<1> QED
  BY <1>1, <1>2

\* A date by its fields.
LEMMA DateFields ==
    ASSUME NEW d \in Dates
    PROVE  \E y, m, n, h, mi, s :
               /\ d = Made(y, m, n, h, mi, s) /\ Fields(y, m, n, h, mi, s)
               /\ n \in 1 .. 31 /\ n <= MonthLength(y, m)
               /\ datetime_to_absolute_seconds(d) = Seconds(y, m, n, h, mi, s)
<1>1. /\ d = Made(d.year, d.month, d.day, d.hour, d.minute, d.second)
      /\ Fields(d.year, d.month, d.day, d.hour, d.minute, d.second)
  BY DEF Dates, DateTime, Made, Fields
<1>2. MonthLength(d.year, d.month) \in 28 .. 31
  BY <1>1, MonthLengths DEF Fields
<1>3. d.day \in 1 .. 31 /\ d.day <= MonthLength(d.year, d.month)
  BY <1>1, <1>2, SMT DEF Fields
<1> QED
  BY <1>1, <1>3 DEF Fields, Seconds

\* A date is told by its seconds.
LEMMA SecondsDistinct ==
    ASSUME NEW d \in Dates, NEW e \in Dates,
           datetime_to_absolute_seconds(d) = datetime_to_absolute_seconds(e)
    PROVE  d = e
<1>1. PICK y, m, n, h, mi, s :
          /\ d = Made(y, m, n, h, mi, s) /\ Fields(y, m, n, h, mi, s)
          /\ n \in 1 .. 31 /\ n <= MonthLength(y, m)
          /\ datetime_to_absolute_seconds(d) = Seconds(y, m, n, h, mi, s)
  BY DateFields
<1>2. PICK y2, m2, n2, h2, mi2, s2 :
          /\ e = Made(y2, m2, n2, h2, mi2, s2) /\ Fields(y2, m2, n2, h2, mi2, s2)
          /\ n2 \in 1 .. 31 /\ n2 <= MonthLength(y2, m2)
          /\ datetime_to_absolute_seconds(e) = Seconds(y2, m2, n2, h2, mi2, s2)
  BY DateFields
<1>3. /\ y \in Int /\ m \in 1 .. 12 /\ n \in 1 .. 31 /\ n <= MonthLength(y, m)
      /\ h \in 0 .. 23 /\ mi \in 0 .. 59 /\ s \in 0 .. 59
  BY <1>1 DEF Fields
<1>4. /\ y2 \in Int /\ m2 \in 1 .. 12 /\ n2 \in 1 .. 31 /\ n2 <= MonthLength(y2, m2)
      /\ h2 \in 0 .. 23 /\ mi2 \in 0 .. 59 /\ s2 \in 0 .. 59
  BY <1>2 DEF Fields
<1>5. Days(y, m) \in Int /\ Days(y2, m2) \in Int
  BY <1>3, <1>4, DaysCount
<1>6. MonthLength(y, m) \in 28 .. 31 /\ MonthLength(y2, m2) \in 28 .. 31
  BY <1>3, <1>4, MonthLengths
<1>7. (Days(y, m) + n - 1) * 86400 + h * 3600 + mi * 60 + s
          = (Days(y2, m2) + n2 - 1) * 86400 + h2 * 3600 + mi2 * 60 + s2
  BY <1>1, <1>2 DEF Seconds, datetime_to_absolute_seconds, Days, Made
<1>8. Days(y, m) + n = Days(y2, m2) + n2 /\ h = h2 /\ mi = mi2 /\ s = s2
  <2> DEFINE day == Days(y, m) + n - 1
             day2 == Days(y2, m2) + n2 - 1
  <2>1. day \in Int /\ day2 \in Int
    BY <1>3, <1>4, <1>5, SMT
  <2>2. day = day2 /\ h = h2 /\ mi = mi2 /\ s = s2
    <3> HIDE DEF day, day2
    <3>1. day * 86400 + h * 3600 + mi * 60 + s = day2 * 86400 + h2 * 3600 + mi2 * 60 + s2
      BY <1>7 DEF day, day2
    <3> QED
      BY <1>3, <1>4, <2>1, <3>1, SMT
  <2> QED
    BY <1>3, <1>4, <1>5, <2>2, SMT
<1>9. ~(y < y2 \/ (y = y2 /\ m < m2))
  <2>1. SUFFICES ASSUME y < y2 \/ (y = y2 /\ m < m2) PROVE FALSE
    OBVIOUS
  <2>2. Days(y, m) + MonthLength(y, m) <= Days(y2, m2)
    BY <1>3, <1>4, <2>1, MonthsInOrder
  <2> QED
    BY <1>3, <1>4, <1>5, <1>6, <1>8, <2>2, SMT
<1>10. ~(y2 < y \/ (y2 = y /\ m2 < m))
  <2>1. SUFFICES ASSUME y2 < y \/ (y2 = y /\ m2 < m) PROVE FALSE
    OBVIOUS
  <2>2. Days(y2, m2) + MonthLength(y2, m2) <= Days(y, m)
    BY <1>3, <1>4, <2>1, MonthsInOrder
  <2> QED
    BY <1>3, <1>4, <1>5, <1>6, <1>8, <2>2, SMT
<1>11. y = y2 /\ m = m2
  BY <1>3, <1>4, <1>9, <1>10, SMT
<1>12. n = n2
  BY <1>3, <1>4, <1>5, <1>8, <1>11, SMT
<1> QED
  BY <1>1, <1>2, <1>8, <1>11, <1>12

\* The days left in the month of a date, and the first day of the next month.
Remaining(d) == days_in_month(d.year, d.month) - d.day

DayOfMonth(d, days) == [d EXCEPT !.day = @ + days]

FirstOfNext(d) ==
    [d EXCEPT !.day   = 1,
              !.month = IF @ = 12 THEN 1 ELSE @ + 1,
              !.year  = IF d.month = 12 THEN @ + 1 ELSE @]

\* The date that is a number of days after another.
IsLater(d, days, e) ==
    /\ e \in Dates
    /\ datetime_to_absolute_seconds(e) = datetime_to_absolute_seconds(d) + days * 86400

LEMMA LaterInMonth ==
    ASSUME NEW d \in Dates, NEW days \in Nat
    PROVE  /\ Remaining(d) \in Nat
           /\ days <= Remaining(d) =>
                 IsLater(d, days, DayOfMonth(d, days))
<1>1. PICK y, m, n, h, mi, s :
          /\ d = Made(y, m, n, h, mi, s) /\ Fields(y, m, n, h, mi, s)
          /\ n \in 1 .. 31 /\ n <= MonthLength(y, m)
          /\ datetime_to_absolute_seconds(d) = Seconds(y, m, n, h, mi, s)
  BY DateFields
<1>2. /\ y \in Int /\ m \in 1 .. 12 /\ n \in Int /\ h \in Int /\ mi \in Int /\ s \in Int
      /\ 1 <= n
  BY <1>1, SMT DEF Fields
<1>3. MonthLength(y, m) \in 28 .. 31 /\ days_in_month(y, m) = MonthLength(y, m)
  BY <1>2, MonthLengths, DaysInMonth
<1>4. Remaining(d) = MonthLength(y, m) - n
  BY <1>1, <1>3 DEF Remaining, Made
<1>5. Remaining(d) \in Nat
  BY <1>1, <1>2, <1>3, <1>4, SMT
<1>6. ASSUME days <= Remaining(d)
      PROVE  IsLater(d, days, DayOfMonth(d, days))
  <2>1. DayOfMonth(d, days) = Made(y, m, n + days, h, mi, s)
    BY <1>1 DEF Made, DayOfMonth
  <2>2. n + days \in 1 .. MonthLength(y, m) /\ n + days \in Int
    BY <1>2, <1>3, <1>4, <1>6, SMT
  <2>3. Fields(y, m, n + days, h, mi, s)
    BY <1>1, <2>2 DEF Fields
  <2>4. Seconds(y, m, n + days, h, mi, s)
            = Seconds(y, m, n, h, mi, s) + ((n + days) - n) * 86400 + (h - h) * 3600
                  + (mi - mi) * 60 + s - s
    BY <1>2, <2>2, SameMonth
  <2>5. Seconds(y, m, n, h, mi, s) \in Int
    BY <1>2, SecondsType
  <2>6. Seconds(y, m, n + days, h, mi, s) = Seconds(y, m, n, h, mi, s) + days * 86400
    BY <1>2, <2>4, <2>5, SMT
  <2> QED
    BY <1>1, <2>1, <2>3, <2>6, MadeDate DEF Seconds, IsLater
<1> QED
  BY <1>5, <1>6

LEMMA NextMonth ==
    ASSUME NEW d \in Dates
    PROVE  /\ FirstOfNext(d) \in Dates
           /\ datetime_to_absolute_seconds(FirstOfNext(d))
                  = datetime_to_absolute_seconds(d) + (Remaining(d) + 1) * 86400
<1>1. PICK y, m, n, h, mi, s :
          /\ d = Made(y, m, n, h, mi, s) /\ Fields(y, m, n, h, mi, s)
          /\ n \in 1 .. 31 /\ n <= MonthLength(y, m)
          /\ datetime_to_absolute_seconds(d) = Seconds(y, m, n, h, mi, s)
  BY DateFields
<1>2. /\ y \in Int /\ m \in 1 .. 12 /\ n \in Int /\ h \in Int /\ mi \in Int /\ s \in Int
      /\ 0 \in Int /\ 1 \in Int
  BY <1>1, SMT DEF Fields
<1>3. MonthLength(y, m) \in 28 .. 31 /\ days_in_month(y, m) = MonthLength(y, m)
  BY <1>2, MonthLengths, DaysInMonth
<1>4. Remaining(d) = MonthLength(y, m) - n /\ MonthLength(y, m) \in Int
  <2>1. Remaining(d) = MonthLength(y, m) - n
    BY <1>1, <1>3 DEF Remaining, Made
  <2> QED
    BY <1>3, <2>1, SMT
<1>5. ASSUME NEW y2 \in Int, NEW m2 \in 1 .. 12, y2 > 0,
             FirstOfNext(d) = Made(y2, m2, 1, h, mi, s),
             Seconds(y2, m2, 1, 0, mi, s) = Seconds(y, m, MonthLength(y, m), 0, mi, s) + 86400
      PROVE  /\ FirstOfNext(d) \in Dates
             /\ datetime_to_absolute_seconds(FirstOfNext(d))
                    = datetime_to_absolute_seconds(d) + (Remaining(d) + 1) * 86400
  <2>1. MonthLength(y2, m2) \in 28 .. 31
    BY MonthLengths
  <2>2. 1 \in 1 .. MonthLength(y2, m2)
    BY <2>1, SMT
  <2>3. Fields(y2, m2, 1, h, mi, s)
    BY <1>1, <1>5, <2>2 DEF Fields
  <2>4. Seconds(y2, m2, 1, h, mi, s)
            = Seconds(y2, m2, 1, 0, mi, s) + (1 - 1) * 86400 + (h - 0) * 3600
                  + (mi - mi) * 60 + s - s
    BY <1>2, SameMonth
  <2>5. Seconds(y, m, n, h, mi, s)
            = Seconds(y, m, MonthLength(y, m), 0, mi, s) + (n - MonthLength(y, m)) * 86400
                  + (h - 0) * 3600 + (mi - mi) * 60 + s - s
    BY <1>2, <1>4, SameMonth
  <2>6. /\ Seconds(y2, m2, 1, 0, mi, s) \in Int
        /\ Seconds(y, m, MonthLength(y, m), 0, mi, s) \in Int
    BY <1>2, <1>4, SecondsType
  <2>7. Seconds(y2, m2, 1, h, mi, s)
            = Seconds(y, m, n, h, mi, s) + (MonthLength(y, m) - n + 1) * 86400
    BY <1>2, <1>4, <1>5, <2>4, <2>5, <2>6, SMT
  <2> QED
    BY <1>1, <1>4, <1>5, <2>3, <2>7, MadeDate DEF Seconds
<1>6. CASE m = 12
  <2>1. FirstOfNext(d) = Made(y + 1, 1, 1, h, mi, s)
    <3>1. d.month = m /\ d.year = y
      BY <1>1 DEF Made
    <3>2. FirstOfNext(d) = [d EXCEPT !.day = 1, !.month = 1, !.year = y + 1]
      BY <1>6, <3>1 DEF FirstOfNext
    <3> QED
      BY <1>1, <3>2 DEF Made
  <2>2. y + 1 \in Int /\ y + 1 > 0 /\ 1 \in 1 .. 12
    BY <1>1, <1>2, SMT DEF Fields
  <2>3. MonthLength(y, 12) = 31
    BY SMT DEF MonthLength
  <2>4. Seconds(y + 1, 1, 1, 0, mi, s) = Seconds(y, 12, 31, 0, mi, s) + 86400
    BY <1>2, FirstOfNextYear
  <2> QED
    BY <1>5, <1>6, <2>1, <2>2, <2>3, <2>4
<1>7. CASE m # 12
  <2>1. FirstOfNext(d) = Made(y, m + 1, 1, h, mi, s)
    <3>1. d.month = m /\ d.year = y
      BY <1>1 DEF Made
    <3>2. FirstOfNext(d) = [d EXCEPT !.day = 1, !.month = m + 1, !.year = y]
      BY <1>7, <3>1 DEF FirstOfNext
    <3> QED
      BY <1>1, <3>2 DEF Made
  <2>2. y > 0 /\ m + 1 \in 1 .. 12 /\ m \in 1 .. 11
    BY <1>1, <1>2, <1>7, SMT DEF Fields
  <2>3. Seconds(y, m + 1, 1, 0, mi, s) = Seconds(y, m, MonthLength(y, m), 0, mi, s) + 86400
    BY <1>2, <2>2, FirstOfNextMonth
  <2> QED
    BY <1>2, <1>5, <2>1, <2>2, <2>3
<1> QED
  BY <1>6, <1>7

\* What is so many days after the first of the next month is so much later than a date.
LEMMA LaterThanNextMonth ==
    ASSUME NEW d \in Dates, NEW days \in Nat, ~(days <= Remaining(d))
    PROVE  /\ days - (Remaining(d) + 1) \in Nat /\ ~(days <= days - (Remaining(d) + 1))
           /\ FirstOfNext(d) \in Dates
           /\ \A e : IsLater(FirstOfNext(d), days - (Remaining(d) + 1), e) => IsLater(d, days, e)
<1>1. Remaining(d) \in Nat
  BY LaterInMonth
<1>2. days - (Remaining(d) + 1) \in Nat /\ ~(days <= days - (Remaining(d) + 1))
  BY <1>1, SMT
<1>3. /\ FirstOfNext(d) \in Dates
      /\ datetime_to_absolute_seconds(FirstOfNext(d))
             = datetime_to_absolute_seconds(d) + (Remaining(d) + 1) * 86400
  BY NextMonth
<1>4. datetime_to_absolute_seconds(d) \in Int
  BY HourCount
<1>5. ASSUME NEW e, IsLater(FirstOfNext(d), days - (Remaining(d) + 1), e)
      PROVE  IsLater(d, days, e)
  BY <1>1, <1>3, <1>4, <1>5, SMT DEF IsLater
<1> QED
  BY <1>2, <1>3, <1>5

LEMMA DayExists ==
    ASSUME NEW d \in Dates, NEW days \in Nat
    PROVE  \E e : IsLater(d, days, e)
<1> DEFINE Bad == {n \in Nat : \E x \in Dates : \A e : ~IsLater(x, n, e)}
<1>1. SUFFICES ASSUME Bad # {} PROVE FALSE
  OBVIOUS
<1>2. PICK n \in Bad : \A j \in Bad : n <= j
  <2>1. Bad \in SUBSET Nat
    OBVIOUS
  <2> HIDE DEF Bad
  <2> QED
    BY <1>1, <2>1, LeastElement
<1>3. n \in Nat
  OBVIOUS
<1>4. PICK x \in Dates : \A e : ~IsLater(x, n, e)
  OBVIOUS
<1>5. ~(n <= Remaining(x))
  BY <1>3, <1>4, LaterInMonth
<1> DEFINE rest == n - (Remaining(x) + 1)
<1>6. /\ rest \in Nat /\ ~(n <= rest) /\ FirstOfNext(x) \in Dates
      /\ \A e : IsLater(FirstOfNext(x), rest, e) => IsLater(x, n, e)
  BY <1>3, <1>5, LaterThanNextMonth
<1>7. rest \notin Bad
  BY <1>2, <1>6
<1>8. PICK e : IsLater(FirstOfNext(x), rest, e)
  BY <1>6, <1>7
<1> QED
  BY <1>4, <1>6, <1>8

LEMMA LaterDistinct ==
    ASSUME NEW d, NEW days, NEW e, NEW e2, IsLater(d, days, e), IsLater(d, days, e2)
    PROVE  e = e2
BY SecondsDistinct DEF IsLater

\* The loop is what its recursion says.
LEMMA AdvanceDaysLoop ==
    ASSUME NEW d \in Dates, NEW days \in Nat
    PROVE  advance_days[<<d, days>>] =
               IF days <= Remaining(d) THEN DayOfMonth(d, days)
               ELSE advance_days[<<FirstOfNext(d), days - (Remaining(d) + 1)>>]
<1> DEFINE f == [p \in Dates \X Nat |-> CHOOSE e : IsLater(p[1], p[2], e)]
<1>1. \A x \in Dates, n \in Nat : IsLater(x, n, f[<<x, n>>])
  BY DayExists
<1>2. ASSUME NEW x \in Dates, NEW n \in Nat
      PROVE  f[<<x, n>>] = IF n <= Remaining(x) THEN DayOfMonth(x, n)
                       ELSE f[<<FirstOfNext(x), n - (Remaining(x) + 1)>>]
  <2>1. IsLater(x, n, f[<<x, n>>])
    BY <1>1
  <2>2. CASE n <= Remaining(x)
    <3>1. IsLater(x, n, DayOfMonth(x, n))
      BY <2>2, LaterInMonth
    <3> HIDE DEF f
    <3> QED
      BY <2>1, <2>2, <3>1, LaterDistinct
  <2>3. CASE ~(n <= Remaining(x))
    <3>1. IsLater(x, n, f[<<FirstOfNext(x), n - (Remaining(x) + 1)>>])
      <4> HIDE DEF f
      <4> QED
        BY <1>1, <2>3, LaterThanNextMonth
    <3> HIDE DEF f
    <3> QED
      BY <2>1, <2>3, <3>1, LaterDistinct
  <2> QED
    BY <2>2, <2>3
<1>3. f = [p \in Dates \X Nat |->
              IF p[2] <= Remaining(p[1]) THEN DayOfMonth(p[1], p[2])
              ELSE f[<<FirstOfNext(p[1]), p[2] - (Remaining(p[1]) + 1)>>]]
  <2>1. f = [p \in Dates \X Nat |-> f[p]]
    OBVIOUS
  <2>2. ASSUME NEW p \in Dates \X Nat
        PROVE  f[p] = IF p[2] <= Remaining(p[1]) THEN DayOfMonth(p[1], p[2])
                      ELSE f[<<FirstOfNext(p[1]), p[2] - (Remaining(p[1]) + 1)>>]
    <3>1. p = <<p[1], p[2]>> /\ p[1] \in Dates /\ p[2] \in Nat
      OBVIOUS
    <3> HIDE DEF f
    <3> QED
      BY <1>2, <3>1
  <2> HIDE DEF f
  <2> QED
    BY <2>1, <2>2
<1>4. advance_days =
          [p \in Dates \X Nat |->
              IF p[2] <= Remaining(p[1]) THEN DayOfMonth(p[1], p[2])
              ELSE advance_days[<<FirstOfNext(p[1]), p[2] - (Remaining(p[1]) + 1)>>]]
  <2> HIDE DEF f
  <2> QED
    BY <1>3 DEF advance_days, Remaining, FirstOfNext, DayOfMonth
<1>5. <<d, days>> \in Dates \X Nat
  OBVIOUS
<1> QED
  BY <1>4, <1>5

LEMMA AdvanceDays ==
    ASSUME NEW d \in Dates, NEW days \in Nat
    PROVE  IsLater(d, days, advance_days[<<d, days>>])
<1> DEFINE Bad == {n \in Nat : \E x \in Dates : ~IsLater(x, n, advance_days[<<x, n>>])}
<1>1. SUFFICES ASSUME Bad # {} PROVE FALSE
  OBVIOUS
<1>2. PICK n \in Bad : \A j \in Bad : n <= j
  <2>1. Bad \in SUBSET Nat
    OBVIOUS
  <2> HIDE DEF Bad
  <2> QED
    BY <1>1, <2>1, LeastElement
<1>3. n \in Nat
  OBVIOUS
<1>4. PICK x \in Dates : ~IsLater(x, n, advance_days[<<x, n>>])
  OBVIOUS
<1>5. CASE n <= Remaining(x)
  <2>1. advance_days[<<x, n>>] = DayOfMonth(x, n)
    BY <1>3, <1>5, AdvanceDaysLoop
  <2> QED
    BY <1>3, <1>4, <1>5, <2>1, LaterInMonth
<1>6. CASE ~(n <= Remaining(x))
  <2> DEFINE rest == n - (Remaining(x) + 1)
  <2>1. advance_days[<<x, n>>] = advance_days[<<FirstOfNext(x), rest>>]
    BY <1>3, <1>6, AdvanceDaysLoop
  <2>2. /\ rest \in Nat /\ ~(n <= rest) /\ FirstOfNext(x) \in Dates
        /\ \A e : IsLater(FirstOfNext(x), rest, e) => IsLater(x, n, e)
    BY <1>3, <1>6, LaterThanNextMonth
  <2>3. rest \notin Bad
    BY <1>2, <2>2
  <2>4. IsLater(FirstOfNext(x), rest, advance_days[<<FirstOfNext(x), rest>>])
    BY <2>2, <2>3
  <2> QED
    BY <1>4, <2>1, <2>2, <2>4
<1> QED
  BY <1>5, <1>6

\* A number of seconds in days, hours, minutes and seconds.
InParts(day, hour, minute, second, seconds) ==
    /\ day \in Nat /\ hour \in 0 .. 23 /\ minute \in 0 .. 59 /\ second \in 0 .. 59
    /\ day * 86400 + hour * 3600 + minute * 60 + second = seconds

LEMMA DayQuotient ==
    ASSUME NEW q \in Nat, NEW r \in Nat, r < 86400
    PROVE  (q * 86400 + r) \div 86400 = q /\ (q * 86400 + r) % 86400 = r
BY SMT

LEMMA HourQuotient ==
    ASSUME NEW q \in Nat, NEW r \in Nat, r < 3600
    PROVE  (q * 3600 + r) \div 3600 = q
BY SMT

LEMMA MinuteQuotient ==
    ASSUME NEW q \in Nat, NEW r \in Nat, r < 60
    PROVE  (q * 60 + r) \div 60 = q /\ (q * 60 + r) % 60 = r
BY SMT

LEMMA PartsExist ==
    ASSUME NEW seconds \in Nat
    PROVE  \E day, hour, minute, second : InParts(day, hour, minute, second, seconds)
<1>1. PICK day : day = seconds \div 86400
  OBVIOUS
<1>2. PICK rest : rest = seconds - day * 86400
  OBVIOUS
<1>3. PICK hour : hour = rest \div 3600
  OBVIOUS
<1>4. PICK past : past = rest - hour * 3600
  OBVIOUS
<1>5. PICK minute : minute = past \div 60
  OBVIOUS
<1>6. PICK second : second = past - minute * 60
  OBVIOUS
<1>7. day \in Nat /\ rest \in Nat /\ rest < 86400
  <2>1. day \in Nat /\ day * 86400 <= seconds /\ seconds <= day * 86400 + 86399
    BY <1>1, SMT
  <2> QED
    BY <1>2, <2>1, SMT
<1>8. hour \in 0 .. 23 /\ past \in Nat /\ past < 3600
  <2>1. hour \in Nat /\ hour * 3600 <= rest /\ rest <= hour * 3600 + 3599
    BY <1>3, <1>7, SMT
  <2>2. past \in Nat /\ past < 3600
    BY <1>4, <1>7, <2>1, SMT
  <2>3. hour \in 0 .. 23
    BY <1>7, <2>1, SMT
  <2> QED
    BY <2>2, <2>3
<1>9. minute \in 0 .. 59 /\ second \in 0 .. 59
  <2>1. minute \in Nat /\ minute * 60 <= past /\ past <= minute * 60 + 59
    BY <1>5, <1>8, SMT
  <2> QED
    BY <1>6, <1>8, <2>1, SMT
<1>10. InParts(day, hour, minute, second, seconds)
  BY <1>2, <1>4, <1>6, <1>7, <1>8, <1>9, SMT DEF InParts
<1> QED
  BY <1>10, Zenon

LEMMA DurationParts ==
    ASSUME NEW day, NEW hour, NEW minute, NEW second, NEW seconds,
           InParts(day, hour, minute, second, seconds)
    PROVE  secs_to_datetime_duration(seconds)
               = [day |-> day, hour |-> hour, minute |-> minute, second |-> second]
<1>1. PICK past : past = minute * 60 + second
  OBVIOUS
<1>2. PICK rest : rest = hour * 3600 + past
  OBVIOUS
<1>3. PICK minutes : minutes = hour * 60 + minute
  OBVIOUS
<1>4. /\ day \in Nat /\ hour \in Nat /\ hour < 60
      /\ minute \in Nat /\ minute < 60 /\ second \in Nat /\ second < 60
  BY SMT DEF InParts
<1>5. /\ past \in Nat /\ past < 3600 /\ rest \in Nat /\ rest < 86400
      /\ minutes \in Nat /\ rest = minutes * 60 + second /\ seconds = day * 86400 + rest
  BY <1>1, <1>2, <1>3, <1>4, SMT DEF InParts
<1>6. seconds \div 86400 = day /\ seconds % 86400 = rest
  BY <1>4, <1>5, DayQuotient
<1>7. rest \div 3600 = hour /\ hour % 60 = hour
  BY <1>2, <1>4, <1>5, HourQuotient, SMT
<1>8. rest \div 60 = minutes /\ rest % 60 = second
  BY <1>4, <1>5, MinuteQuotient
<1>9. minutes % 60 = minute
  BY <1>3, <1>4, MinuteQuotient
<1> QED
  BY <1>6, <1>7, <1>8, <1>9 DEF secs_to_datetime_duration

\* What is carried when two parts of a time are added.
LEMMA Carried ==
    ASSUME NEW a \in 0 .. 59, NEW b \in 0 .. 59, NEW c \in {0, 1}
    PROVE  /\ (a + b + c) % 60 \in 0 .. 59
           /\ (a + b + c) % 60 = a + b + c - 60 * (IF a + b + c >= 60 THEN 1 ELSE 0)
BY SMT

LEMMA CarriedSeconds ==
    ASSUME NEW a \in 0 .. 59, NEW b \in 0 .. 59
    PROVE  /\ (a + b) % 60 \in 0 .. 59
           /\ (a + b) % 60 = a + b - 60 * (IF a + b >= 60 THEN 1 ELSE 0)
BY SMT

LEMMA CarriedHours ==
    ASSUME NEW a \in 0 .. 23, NEW b \in 0 .. 23, NEW c \in {0, 1}
    PROVE  /\ (a + b + c) % 24 \in 0 .. 23
           /\ (a + b + c) % 24 = a + b + c - 24 * (IF a + b + c >= 24 THEN 1 ELSE 0)
BY SMT

\* A date at another time of its day.
AtTime(d, h, mi, s) == [d EXCEPT !.second = s, !.minute = mi, !.hour = h]

LEMMA TimeSet ==
    ASSUME NEW y, NEW m, NEW n, NEW h, NEW mi, NEW s, NEW h2, NEW mi2, NEW s2
    PROVE  AtTime(Made(y, m, n, h, mi, s), h2, mi2, s2) = Made(y, m, n, h2, mi2, s2)
<1>1. [Made(y, m, n, h, mi, s) EXCEPT !.second = s2] = Made(y, m, n, h, mi, s2)
  BY DEF Made
<1>2. [Made(y, m, n, h, mi, s2) EXCEPT !.minute = mi2] = Made(y, m, n, h, mi2, s2)
  BY DEF Made
<1>3. [Made(y, m, n, h, mi2, s2) EXCEPT !.hour = h2] = Made(y, m, n, h2, mi2, s2)
  BY DEF Made
<1>4. \A d : [d EXCEPT !.second = s2, !.minute = mi2, !.hour = h2]
                = [[[d EXCEPT !.second = s2] EXCEPT !.minute = mi2] EXCEPT !.hour = h2]
  OBVIOUS
<1> QED
  BY <1>1, <1>2, <1>3, <1>4, Zenon DEF AtTime

LEMMA DurationAdded ==
    ASSUME NEW y, NEW m, NEW n, NEW h, NEW mi, NEW s, NEW pd, NEW ph, NEW pm, NEW ps,
           NEW cs, NEW cm, NEW ch, cs = IF s + ps >= 60 THEN 1 ELSE 0,
           cm = IF mi + pm + cs >= 60 THEN 1 ELSE 0, ch = IF h + ph + cm >= 24 THEN 1 ELSE 0
    PROVE  add_duration_to_datetime(Made(y, m, n, h, mi, s),
               [day |-> pd, hour |-> ph, minute |-> pm, second |-> ps])
           = advance_days[<<Made(y, m, n, (h + ph + cm) % 24, (mi + pm + cs) % 60, (s + ps) % 60),
                            pd + ch>>]
<1>1. PICK start : start = Made(y, m, n, h, mi, s)
  OBVIOUS
<1>2. PICK duration : duration = [day |-> pd, hour |-> ph, minute |-> pm, second |-> ps]
  OBVIOUS
<1>3. start.hour = h /\ start.minute = mi /\ start.second = s
  BY <1>1 DEF Made
<1>4. duration.day = pd /\ duration.hour = ph /\ duration.minute = pm /\ duration.second = ps
  BY <1>2
<1>5. PICK s2 : s2 = (s + ps) % 60
  OBVIOUS
<1>6. PICK mi2 : mi2 = (mi + pm + cs) % 60
  OBVIOUS
<1>7. PICK h2 : h2 = (h + ph + cm) % 24
  OBVIOUS
<1>8. add_duration_to_datetime(start, duration) =
          advance_days[<<AtTime(start, h2, mi2, s2), pd + ch>>]
  <2>1. /\ start.second + duration.second = s + ps
        /\ start.minute + duration.minute + (IF s + ps >= 60 THEN 1 ELSE 0) = mi + pm + cs
        /\ start.hour + duration.hour + (IF mi + pm + cs >= 60 THEN 1 ELSE 0) = h + ph + cm
        /\ duration.day + (IF h + ph + cm >= 24 THEN 1 ELSE 0) = pd + ch
    BY <1>3, <1>4, Zenon
  <2>2. add_duration_to_datetime(start, duration) =
            LET second == start.second + duration.second
                minute == start.minute + duration.minute + (IF second >= 60 THEN 1 ELSE 0)
                hour == start.hour + duration.hour + (IF minute >= 60 THEN 1 ELSE 0)
            IN  advance_days[<<AtTime(start, hour % 24, minute % 60, second % 60),
                               duration.day + (IF hour >= 24 THEN 1 ELSE 0)>>]
    BY Zenon DEF add_duration_to_datetime, AtTime
  <2> QED
    BY <1>5, <1>6, <1>7, <2>1, <2>2, Zenon
<1>9. AtTime(start, h2, mi2, s2) = Made(y, m, n, h2, mi2, s2)
  <2>1. AtTime(Made(y, m, n, h, mi, s), h2, mi2, s2) = Made(y, m, n, h2, mi2, s2)
    BY TimeSet
  <2> QED
    BY <1>1, <2>1
<1> QED
  BY <1>1, <1>2, <1>5, <1>6, <1>7, <1>8, <1>9, Zenon

(* A number of seconds added to a date, as the controller does it for the names  *)
(* of output files (get_output_filenames()), gives the date so many seconds      *)
(* later, over any number of days, months and years.                            *)
THEOREM SecondsAdded ==
    ASSUME NEW start \in Dates, NEW seconds \in Nat
    PROVE  LET end == add_duration_to_datetime(start, secs_to_datetime_duration(seconds))
           IN  /\ end \in Dates
               /\ datetime_to_absolute_seconds(end)
                      = datetime_to_absolute_seconds(start) + seconds
<1>1. PICK y, m, n, h, mi, s :
          /\ start = Made(y, m, n, h, mi, s) /\ Fields(y, m, n, h, mi, s)
          /\ n \in 1 .. 31 /\ n <= MonthLength(y, m)
          /\ datetime_to_absolute_seconds(start) = Seconds(y, m, n, h, mi, s)
  BY DateFields
<1>2. PICK pd, ph, pm, ps : InParts(pd, ph, pm, ps, seconds)
  BY PartsExist
<1>3. /\ pd \in Nat /\ ph \in 0 .. 23 /\ pm \in 0 .. 59 /\ ps \in 0 .. 59
      /\ pd * 86400 + ph * 3600 + pm * 60 + ps = seconds
  BY <1>2 DEF InParts
<1>4. y \in Int /\ m \in 1 .. 12 /\ n \in Int /\ h \in 0 .. 23 /\ mi \in 0 .. 59 /\ s \in 0 .. 59
  BY <1>1, SMT DEF Fields
<1>5. PICK cs : cs = IF s + ps >= 60 THEN 1 ELSE 0
  OBVIOUS
<1>6. PICK cm : cm = IF mi + pm + cs >= 60 THEN 1 ELSE 0
  OBVIOUS
<1>7. PICK ch : ch = IF h + ph + cm >= 24 THEN 1 ELSE 0
  OBVIOUS
<1>8. cs \in {0, 1} /\ cm \in {0, 1} /\ ch \in {0, 1}
  BY <1>5, <1>6, <1>7
<1>9. PICK s2 : s2 = (s + ps) % 60
  OBVIOUS
<1>10. PICK mi2 : mi2 = (mi + pm + cs) % 60
  OBVIOUS
<1>11. PICK h2 : h2 = (h + ph + cm) % 24
  OBVIOUS
<1>12. s2 \in 0 .. 59 /\ s2 = s + ps - 60 * cs
  <2>1. /\ (s + ps) % 60 \in 0 .. 59
        /\ (s + ps) % 60 = s + ps - 60 * (IF s + ps >= 60 THEN 1 ELSE 0)
    <3>1. s \in 0 .. 59 /\ ps \in 0 .. 59
      BY <1>3, <1>4
    <3> QED
      BY <3>1, CarriedSeconds, Zenon
  <2> QED
    BY <1>5, <1>9, <2>1, Zenon
<1>13. mi2 \in 0 .. 59 /\ mi2 = mi + pm + cs - 60 * cm
  <2>1. /\ (mi + pm + cs) % 60 \in 0 .. 59
        /\ (mi + pm + cs) % 60 = mi + pm + cs - 60 * (IF mi + pm + cs >= 60 THEN 1 ELSE 0)
    <3>1. mi \in 0 .. 59 /\ pm \in 0 .. 59 /\ cs \in {0, 1}
      BY <1>3, <1>4, <1>8
    <3> QED
      BY <3>1, Carried, Zenon
  <2> QED
    BY <1>6, <1>10, <2>1, Zenon
<1>14. h2 \in 0 .. 23 /\ h2 = h + ph + cm - 24 * ch
  <2>1. /\ (h + ph + cm) % 24 \in 0 .. 23
        /\ (h + ph + cm) % 24 = h + ph + cm - 24 * (IF h + ph + cm >= 24 THEN 1 ELSE 0)
    <3>1. h \in 0 .. 23 /\ ph \in 0 .. 23 /\ cm \in {0, 1}
      BY <1>3, <1>4, <1>8
    <3> QED
      BY <3>1, CarriedHours, Zenon
  <2> QED
    BY <1>7, <1>11, <2>1, Zenon
<1> DEFINE mid == Made(y, m, n, h2, mi2, s2)
           end == advance_days[<<mid, pd + ch>>]
<1>15. add_duration_to_datetime(start, secs_to_datetime_duration(seconds)) = end
  <2> DEFINE duration == [day |-> pd, hour |-> ph, minute |-> pm, second |-> ps]
  <2>1. secs_to_datetime_duration(seconds) = duration
    BY <1>2, DurationParts
  <2>2. add_duration_to_datetime(Made(y, m, n, h, mi, s), duration) = end
    BY <1>5, <1>6, <1>7, <1>9, <1>10, <1>11, DurationAdded
  <2> QED
    BY <1>1, <2>1, <2>2
<1>16. mid \in Dates /\ datetime_to_absolute_seconds(mid) = Seconds(y, m, n, h2, mi2, s2)
  <2>1. Fields(y, m, n, h2, mi2, s2)
    BY <1>1, <1>12, <1>13, <1>14 DEF Fields
  <2> QED
    BY <2>1, MadeDate DEF Seconds
<1>17. pd + ch \in Nat
  BY <1>3, <1>8, SMT
<1>18. /\ end \in Dates
       /\ datetime_to_absolute_seconds(end)
              = datetime_to_absolute_seconds(mid) + (pd + ch) * 86400
  BY <1>16, <1>17, AdvanceDays DEF IsLater
<1>19. Seconds(y, m, n, h2, mi2, s2) + (pd + ch) * 86400 = Seconds(y, m, n, h, mi, s) + seconds
  <2>1. h2 \in Int /\ mi2 \in Int /\ s2 \in Int /\ h \in Int /\ mi \in Int /\ s \in Int
    BY <1>4, <1>12, <1>13, <1>14, SMT
  <2>2. Seconds(y, m, n, h2, mi2, s2)
            = Seconds(y, m, n, h, mi, s) + (n - n) * 86400 + (h2 - h) * 3600
                  + (mi2 - mi) * 60 + s2 - s
    BY <1>4, <2>1, SameMonth
  <2>3. Seconds(y, m, n, h, mi, s) \in Int
    BY <1>4, <2>1, SecondsType
  <2>4. (h2 - h) * 3600 + (mi2 - mi) * 60 + s2 - s + (pd + ch) * 86400 = seconds
    BY <1>3, <1>4, <1>8, <1>12, <1>13, <1>14, SMT
  <2>5. PICK before : before = Seconds(y, m, n, h, mi, s)
    OBVIOUS
  <2>6. PICK after : after = Seconds(y, m, n, h2, mi2, s2)
    OBVIOUS
  <2>7. after + (pd + ch) * 86400 = before + seconds
    BY <1>3, <1>4, <1>8, <2>1, <2>2, <2>3, <2>4, <2>5, <2>6, SMT
  <2> QED
    BY <2>5, <2>6, <2>7
<1> QED
  BY <1>1, <1>15, <1>16, <1>18, <1>19

=============================================================================
