-------------------------------- MODULE Time --------------------------------
(***************************************************************************)
(* mktime of kernel/time.c and set_alarm of kernel/rtc.c, with the BCD     *)
(* conversions of lib/stdlib.c, on every day the CMOS can show, from       *)
(* 1 January 1970 to 31 December 2069: the calendar is walked day by day   *)
(* beside the number of days that have passed.  A time_t is kept as days   *)
(* and seconds of the day; it fits in u32 until 2106.                      *)
(***************************************************************************)
EXTENDS Integers

CONSTANT Alarms     \* seconds that set_alarm is called with

VARIABLES date,     \* a time_val: year (0 to 99), mon, mday, hour, min, sec
          days      \* the days since 1 January 1970

vars == <<date, days>>

(* Days before each month, as the table of time.c has them. *)
month == << 0,
            31,
            31 + 28,
            31 + 29 + 31,
            31 + 29 + 31 + 30,
            31 + 29 + 31 + 30 + 31,
            31 + 29 + 31 + 30 + 31 + 30,
            31 + 29 + 31 + 30 + 31 + 30 + 31,
            31 + 29 + 31 + 30 + 31 + 30 + 31 + 31,
            31 + 29 + 31 + 30 + 31 + 30 + 31 + 31 + 30,
            31 + 29 + 31 + 30 + 31 + 30 + 31 + 31 + 30 + 31,
            31 + 29 + 31 + 30 + 31 + 30 + 31 + 31 + 30 + 31 + 30 >>

is_leap(year) == (year % 4 = 0 /\ year % 100 # 0) \/ year % 400 = 0

(* The year of the CMOS in the Christian era. *)
ad_year(yy) == IF yy >= 70 THEN 1900 + yy ELSE 2000 + yy

(* 29 February has passed. *)
LeapDay(t) == IF is_leap(ad_year(t.year)) /\ t.mon > 2 THEN 1 ELSE 0

get_yday(t) == month[t.mon] + t.mday + LeapDay(t)

(* Mutant of YearDays: leap years count one year late. *)
YearDaysLate(yy) == LET year == IF yy >= 70 THEN yy - 70 ELSE yy + 30 IN year * 365 + year \div 4

(* mktime: the days of the years since 1970 that are over. *)
YearDays(yy) == LET year == IF yy >= 70 THEN yy - 70 ELSE yy + 30 IN year * 365 + (year + 1) \div 4

mktime(t) ==
    [days |-> YearDays(t.year) + month[t.mon] + LeapDay(t) + t.mday - 1,
     secs |-> t.hour * 3600 + t.min * 60 + t.sec]

bcd_to_bin(value) == (value % 16) + (value \div 16) * 10
bin_to_bcd(value) == (value % 10) + (value \div 10) * 16

(* Mutant of set_alarm: the minute that the seconds carry is lost. *)
set_alarmNoCarry(t, secs) ==
    LET s == t.sec + (secs % 60)
        m == t.min + ((secs \div 60) % 60)
        h == t.hour + (IF m >= 60 THEN 1 ELSE 0) + secs \div 3600
    IN  [sec |-> bin_to_bcd(s % 60), min |-> bin_to_bcd(m % 60), hour |-> bin_to_bcd(h % 24)]

(* set_alarm: what is written to the alarm registers. *)
set_alarm(t, secs) ==
    LET s == t.sec + (secs % 60)
        m == t.min + (IF s >= 60 THEN 1 ELSE 0) + ((secs \div 60) % 60)
        h == t.hour + (IF m >= 60 THEN 1 ELSE 0) + secs \div 3600
    IN  [sec |-> bin_to_bcd(s % 60), min |-> bin_to_bcd(m % 60), hour |-> bin_to_bcd(h % 24)]

-----------------------------------------------------------------------------
(* The calendar, for reference; the time of day moves by 1h 47m 51s a day, *)
(* so that all hours, minutes and seconds occur.                           *)
DaysIn(year, mon) ==
    IF mon = 2 THEN IF year % 4 = 0 /\ (year % 100 = 0 => year % 400 = 0) THEN 29 ELSE 28
    ELSE IF mon \in {4, 6, 9, 11} THEN 30 ELSE 31

SecondOfDay(d) == (d * 6471) % 86400

NextDay(t) ==
    LET s == SecondOfDay(days + 1)
        Day(year, mon, mday) == [year |-> year, mon |-> mon, mday |-> mday,
                                 hour |-> s \div 3600, min |-> (s \div 60) % 60, sec |-> s % 60]
    IN  IF t.mday < DaysIn(ad_year(t.year), t.mon) THEN Day(t.year, t.mon, t.mday + 1)
        ELSE IF t.mon < 12 THEN Day(t.year, t.mon + 1, 1)
        ELSE Day((t.year + 1) % 100, 1, 1)

Init ==
    /\ date = [year |-> 70, mon |-> 1, mday |-> 1, hour |-> 0, min |-> 0, sec |-> 0]
    /\ days = 0

Next ==
    /\ ~ (date.year = 69 /\ date.mon = 12 /\ date.mday = 31)
    /\ date' = NextDay(date)
    /\ days' = days + 1

Spec == Init /\ [][Next]_vars

-----------------------------------------------------------------------------
(* mktime has the second of the day, is exact until the end of March in    *)
(* every year, across all leap years, 2000 too, and never off by more than *)
(* a day ahead afterwards (mktime, get_yday).                              *)
ExactToMarch ==
    LET t == mktime(date)
    IN  /\ t.secs = SecondOfDay(days)
        /\ date.mon <= 3 => t.days = days
        /\ t.days \in {days, days + 1}

(* A time_t is the number of seconds since 1970-01-01 00:00:00, as the     *)
(* comment at time.c:11 says; the table of months has 29 days for February *)
(* from April on, so that mktime is a day ahead.                           *)
SecondsSince1970 == mktime(date) = [days |-> days, secs |-> SecondOfDay(days)]

(* The alarm registers hold the time of day that comes secs seconds after  *)
(* now, in BCD, over every carry into minutes, hours and the next day.     *)
AlarmExact == \A secs \in Alarms :
    LET a == set_alarm(date, secs)
        At(x) == bcd_to_bin(x.hour) * 3600 + bcd_to_bin(x.min) * 60 + bcd_to_bin(x.sec)
    IN  At(a) = (SecondOfDay(days) + secs) % 86400
=============================================================================
