------------------------------- MODULE CDates -------------------------------
(***************************************************************************)
(* Dates of the C library (data.c).  A stored date is a number of days and *)
(* a part of a day; it is [day, secs] here.  A broken-down time is         *)
(* [year, mon, mday, secs], with mon counted from 0 as in struct tm and    *)
(* secs counted from midnight.                                             *)
(***************************************************************************)
EXTENDS Integers, Sequences

noleap_cal == <<0, 31, 59, 90, 120, 151, 181, 212, 243, 273, 304, 334, 365>>
leap_cal   == <<0, 31, 60, 91, 121, 152, 182, 213, 244, 274, 305, 335, 366>>
Leap(yr)   == yr % 4 = 0 /\ (yr % 100 # 0 \/ yr % 400 = 0)
Cal(yr)    == IF Leap(yr) THEN leap_cal ELSE noleap_cal

(* The leap day of the year itself is in yr/4 and, from March on, in the   *)
(* calendar as well.                                                       *)
mdb_tm_to_date(t) ==
  [day  |-> t.year * 365 + (t.year \div 4) - (t.year \div 100) + (t.year \div 400)
              + Cal(t.year)[t.mon + 1] + t.mday - 693959,
   secs |-> t.secs]

(* For dates from 30 December 1899 on; outside of 0 .. 1e6 the code leaves *)
(* the broken-down time as it is.                                          *)
AtMost(n, m) == IF n < m THEN n ELSE m
mdb_date_to_tm(td) ==
  LET d0   == td.day + 693593
      q400 == d0 \div 146097
      d1   == d0 - q400 * 146097
      q100 == AtMost(d1 \div 36524, 3)
      d2   == d1 - q100 * 36524
      q4   == d2 \div 1461
      d3   == d2 - q4 * 1461
      q1   == AtMost(d3 \div 365, 3)
      yday == d3 - q1 * 365
      yr   == 1 + 400 * q400 + 100 * q100 + 4 * q4 + q1
      mon  == CHOOSE m \in 0 .. 11 : Cal(yr)[m + 1] <= yday /\ yday < Cal(yr)[m + 2]
  IN  [year |-> yr, mon |-> mon, mday |-> yday - Cal(yr)[mon + 1] + 1, secs |-> td.secs]

(* The days from 30 December 1899 to a date of the Gregorian calendar.     *)
DayOf(t) ==
  LET y == t.year - 1
  IN  365 * y + y \div 4 - y \div 100 + y \div 400
      + Cal(t.year)[t.mon + 1] + t.mday - 693594

(* gmtime: the broken-down time of a number of seconds since 1970.         *)
gmtime(s) ==
  CHOOSE t \in [year : {1970 + (s \div 86400) \div 366, 1970 + (s \div 86400) \div 365},
                mon : 0 .. 11, mday : 1 .. 31, secs : {s % 86400}] :
    /\ DayOf(t) = 25569 + s \div 86400
    /\ t.mday <= Cal(t.year)[t.mon + 2] - Cal(t.year)[t.mon + 1]
=============================================================================
