--------------------------- MODULE MCRestartSets ---------------------------
(***************************************************************************)
(* RestartSets for TLC, over the end of a February of 29 days.  The years  *)
(* are the calendar's first ones because TLC's integers have 32 bits;      *)
(* WrfDatetimeProofs has the theorem for every year.                       *)
(***************************************************************************)
EXTENDS RestartSets

Midday(y, m, d) ==
    [year |-> y, month |-> m, day |-> d, hour |-> 12, minute |-> 0, second |-> 0]

MCStartDate == Midday(4, 2, 28)

\* Runs that start here cross the ends of months, of leap years and of centuries.
StartDates ==
    {Midday(y, m, d) : y \in {1999, 2000, 2023, 2024, 2100}, m \in {1, 2, 11, 12},
                       d \in {1, 28}}

\* Output files are looked for under the dates the model names them by: with every
\* hour that is added to a date, the date found is the next hour of the calendar.
ASSUME OutputDatesAssumption ==
    \A start \in StartDates :
        /\ OutputDate(start, 0) = start
        /\ \A h \in 0 .. 2000 :
              OutputDate(start, (h + 1) * 3600) = NextHour(OutputDate(start, h * 3600))

=============================================================================
