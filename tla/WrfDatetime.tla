---------------------------- MODULE WrfDatetime ----------------------------
(***************************************************************************)
(* The date arithmetic by which the controller goes from model steps to    *)
(* WRF's dates and back (wrf_datetime.cpp), and the calendar of the model, *)
(* which the dates in file names, namelist and log come from.              *)
(***************************************************************************)
EXTENDS Integers

DateTime == [year : Int, month : Int, day : Int,
             hour : Int, minute : Int, second : Int]

-----------------------------------------------------------------------------
(* The Gregorian calendar, second by second.                               *)

GregorianLeapYear(year) ==
    year % 4 = 0 /\ (year % 100 = 0 => year % 400 = 0)

MonthLength(year, month) ==
    CASE month \in {4, 6, 9, 11} -> 30
      [] month = 2 -> IF GregorianLeapYear(year) THEN 29 ELSE 28
      [] OTHER -> 31

Dates == {d \in DateTime :
             /\ d.year > 0 /\ d.month \in 1 .. 12
             /\ d.day \in 1 .. MonthLength(d.year, d.month)
             /\ d.hour \in 0 .. 23 /\ d.minute \in 0 .. 59 /\ d.second \in 0 .. 59}

NextDay(d) ==
    IF d.day < MonthLength(d.year, d.month) THEN [d EXCEPT !.day = @ + 1]
    ELSE IF d.month < 12 THEN [d EXCEPT !.day = 1, !.month = @ + 1]
    ELSE [d EXCEPT !.day = 1, !.month = 1, !.year = @ + 1]

NextHour(d) ==
    IF d.hour < 23 THEN [d EXCEPT !.hour = @ + 1]
                   ELSE NextDay([d EXCEPT !.hour = 0])

NextMinute(d) ==
    IF d.minute < 59 THEN [d EXCEPT !.minute = @ + 1]
                     ELSE NextHour([d EXCEPT !.minute = 0])

NextSecond(d) ==
    IF d.second < 59 THEN [d EXCEPT !.second = @ + 1]
                     ELSE NextMinute([d EXCEPT !.second = 0])

-----------------------------------------------------------------------------
(* The code.                                                               *)

is_leap_year(year) == year % 400 = 0 \/ (year % 4 = 0 /\ year % 100 # 0)

month_lengths == <<31, 28, 31, 30, 31, 30, 31, 31, 30, 31, 30, 31>>

days_in_month(year, month) ==
    IF month \notin 1 .. 12 THEN 0
    ELSE IF month = 2 /\ is_leap_year(year) THEN 29
    ELSE month_lengths[month]

is_valid_datetime(d) ==
    /\ d.year > 0 /\ d.month \in 1 .. 12 /\ d.day >= 1
    /\ d.hour \in 0 .. 23 /\ d.minute \in 0 .. 59 /\ d.second \in 0 .. 59
    /\ d.day <= days_in_month(d.year, d.month)

days_before_year(year) ==
    (year - 1) * 365 + (year - 1) \div 4 - (year - 1) \div 100 + (year - 1) \div 400

\* The loop over the months before, unrolled.
days_before_month(year, month) ==
    LET length(m) == IF m < month THEN days_in_month(year, m) ELSE 0
    IN  length(1) + length(2) + length(3) + length(4) + length(5) + length(6)
            + length(7) + length(8) + length(9) + length(10) + length(11)

datetime_to_absolute_seconds(d) ==
    (days_before_year(d.year) + days_before_month(d.year, d.month) + d.day - 1) * 86400
        + d.hour * 3600 + d.minute * 60 + d.second

\* Seconds from one date to another, or -1.
datetime_duration_seconds(start, end) ==
    LET elapsed == datetime_to_absolute_seconds(end)
                       - datetime_to_absolute_seconds(start)
    IN  IF is_valid_datetime(start) /\ is_valid_datetime(end) /\ elapsed >= 0
        THEN elapsed ELSE -1

\* Days and time of day of a number of seconds.
secs_to_datetime_duration(seconds) ==
    [day    |-> seconds \div 86400,
     hour   |-> ((seconds % 86400) \div 3600) % 60,
     minute |-> ((seconds % 86400) \div 60) % 60,
     second |-> (seconds % 86400) % 60]

\* The calendar loop, from a date and a number of days: whole months are passed as
\* long as the days last.
advance_days[loop \in Dates \X Nat] ==
    LET d == loop[1]
        days == loop[2]
        remaining == days_in_month(d.year, d.month) - d.day
        first_of_next == [d EXCEPT !.day   = 1,
                                   !.month = IF @ = 12 THEN 1 ELSE @ + 1,
                                   !.year  = IF d.month = 12 THEN @ + 1 ELSE @]
    IN  IF days <= remaining THEN [d EXCEPT !.day = @ + days]
        ELSE advance_days[<<first_of_next, days - (remaining + 1)>>]

\* Seconds, minutes and hours are added with at most one carry each.
add_duration_to_datetime(start, duration) ==
    LET second == start.second + duration.second
        minute == start.minute + duration.minute + (IF second >= 60 THEN 1 ELSE 0)
        hour   == start.hour + duration.hour + (IF minute >= 60 THEN 1 ELSE 0)
    IN  advance_days[<<[start EXCEPT !.second = second % 60,
                                     !.minute = minute % 60,
                                     !.hour   = hour % 24],
                       duration.day + (IF hour >= 24 THEN 1 ELSE 0)>>]

=============================================================================
