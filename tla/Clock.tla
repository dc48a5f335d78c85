------------------------------- MODULE Clock --------------------------------
(***************************************************************************)
(* kernel_mktime (timer/time.c) against a calendar that counts days one by *)
(* one.  All products are in C's int, so the model ends with the last full *)
(* day before the 32-bit second count overflows, 2038-01-18.               *)
(***************************************************************************)
EXTENDS Integers, Sequences

CONSTANT LastYear   \* bound of the model, at most 2038

MINUTE == 60
HOUR == 60 * MINUTE
DAY == 24 * HOUR
YEAR == 365 * DAY

\* Days before each month of a leap year.
month == <<0, 31, 60, 91, 121, 152, 182, 213, 244, 274, 305, 335>>

kernel_mktime(tm) ==
  LET year == tm.year - 1970
      early == IF tm.mon > 1 /\ (year + 2) % 4 # 0 THEN DAY ELSE 0
  IN  YEAR * year + DAY * ((year + 1) \div 4) + DAY * month[tm.mon + 1] - early
      + DAY * (tm.mday - 1) + HOUR * tm.hour + MINUTE * tm.min + tm.sec

-----------------------------------------------------------------------------
(* The calendar. *)

VARIABLES date, days   \* a date [year, mon, mday], and the days since 1970-01-01

Leap(y) == (y % 4 = 0 /\ y % 100 # 0) \/ y % 400 = 0

MonthDays(d) ==
  IF d.mon = 1 THEN (IF Leap(d.year) THEN 29 ELSE 28)
  ELSE IF d.mon \in {3, 5, 8, 10} THEN 30 ELSE 31

Init ==
  /\ date = [year |-> 1970, mon |-> 0, mday |-> 1]
  /\ days = 0

Tomorrow ==
  IF date.mday < MonthDays(date) THEN [date EXCEPT !.mday = @ + 1]
  ELSE IF date.mon < 11 THEN [date EXCEPT !.mday = 1, !.mon = @ + 1]
  ELSE [year |-> date.year + 1, mon |-> 0, mday |-> 1]

Next ==
  /\ Tomorrow.year < LastYear \/ (Tomorrow.year = LastYear /\ days < 24854)
  /\ date' = Tomorrow
  /\ days' = days + 1

Spec == Init /\ [][Next]_<<date, days>>

At(h, m, s) ==
  [year |-> date.year, mon |-> date.mon, mday |-> date.mday, hour |-> h, min |-> m, sec |-> s]

\* kernel_mktime counts the seconds since the epoch for every date: its leap
\* days fall on the right side of 29 February, and a day's last second is
\* followed by the next day's first.
SecondsExact ==
  \A h \in {0, 11, 23}, m \in {0, 59}, s \in {0, 59} :
    kernel_mktime(At(h, m, s)) = 86400 * days + 3600 * h + 60 * m + s
=============================================================================
