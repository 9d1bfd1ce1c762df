------------------------------ MODULE RtcTime --------------------------------
(***************************************************************************)
(* The conversions of rtc.c between seconds since 1970 and the bytes of    *)
(* the date registers, in the four formats of register B: binary or BCD,   *)
(* 24 or 12 hours.  The state walks day by day through some periods.       *)
(* time_t has 64 bits: here it is a pair of days and seconds of the day.   *)
(***************************************************************************)
EXTENDS Integers

CONSTANTS Periods,  \* pairs <<first day, last day>>, in days since 1970
          LastYear  \* no date is later (a bound)

VARIABLES day, last

vars == <<day, last>>

Broken == -1
BrokenTime == [days |-> Broken, rsec |-> Broken]
Formats == [bin : BOOLEAN, h24 : BOOLEAN]

-----------------------------------------------------------------------------
(* Calendar *)

\* Mutant: the rule of the Julian calendar.
leapyearJulian(year) == year % 4 = 0

leapyear(year) == year % 4 = 0 /\ (year % 100 = 0 => year % 400 = 0)

days_in_year(year) == IF leapyear(year) THEN 366 ELSE 365

MonthDays == <<31, 28, 31, 30, 31, 30, 31, 31, 30, 31, 30, 31>>
days_in_month(year, mon) == IF mon = 2 /\ leapyear(year) THEN 29 ELSE MonthDays[mon]

\* The loops over years and months: the days before a year and before a month.
YearsDays[first \in Nat, end \in Nat] ==
    IF first = end THEN 0
    ELSE IF first + 1 = end THEN days_in_year(first)
    ELSE YearsDays[first, (first + end) \div 2] + YearsDays[(first + end) \div 2, end]

InYears == [year \in 1970 .. LastYear |-> YearsDays[1970, year]]

InMonths[year \in Nat, mon \in Nat] ==
    IF mon = 1 THEN 0 ELSE InMonths[year, mon - 1] + days_in_month(year, mon - 1)

\* Whole years, then whole months are taken off the days.
clk_ts_to_ct(t) ==
    LET year == CHOOSE y \in 1970 .. LastYear : InYears[y] <= t.days /\ t.days - InYears[y] < days_in_year(y)
        days == t.days - InYears[year]
        mon == CHOOSE m \in 1 .. 12 : InMonths[year, m] <= days /\ days - InMonths[year, m] < days_in_month(year, m)
    IN  [year |-> year, mon |-> mon, day |-> days - InMonths[year, mon] + 1, dow |-> (t.days + 4) % 7,
         hour |-> t.rsec \div 3600, min |-> (t.rsec % 3600) \div 60, sec |-> t.rsec % 60]

clk_ct_to_ts(ct) ==
    IF \/ ct.mon \notin 1 .. 12 \/ ct.day < 1 \/ ct.day > days_in_month(ct.year, ct.mon)
       \/ ct.hour > 23 \/ ct.min > 59 \/ ct.sec > 59
    THEN BrokenTime
    ELSE [days |-> InYears[ct.year] + InMonths[ct.year, ct.mon] + ct.day - 1,
          rsec |-> (ct.hour * 60 + ct.min) * 60 + ct.sec]

-----------------------------------------------------------------------------
(* Bytes *)

rtcset(f, val) == IF f.bin THEN val ELSE (val \div 10) * 16 + (val % 10)

rtcget(f, byte) ==
    IF f.bin THEN byte ELSE IF byte % 16 > 9 \/ byte \div 16 > 9 THEN Broken ELSE (byte \div 16) * 10 + (byte % 16)

\* Of 12 hours 0 and 12 are shown as 12; the top bit says PM.
SetHour(f, hour) ==
    IF f.h24 THEN rtcset(f, hour)
    ELSE rtcset(f, IF hour % 12 = 0 THEN 12 ELSE hour % 12) + IF hour >= 12 THEN 128 ELSE 0

GetHour(f, byte) ==
    LET h == rtcget(f, byte % 128)
    IN  IF f.h24 THEN LET g == rtcget(f, byte) IN IF g > 23 THEN Broken ELSE g
        ELSE IF h \notin 1 .. 12 THEN Broken
        ELSE (h % 12) + IF byte >= 128 THEN 12 ELSE 0

secs_to_rtc(f, t) ==
    LET ct == clk_ts_to_ct(t)
    IN  [sec |-> rtcset(f, ct.sec), min |-> rtcset(f, ct.min), hour |-> SetHour(f, ct.hour),
         dow |-> rtcset(f, ct.dow + 1), day |-> rtcset(f, ct.day), mon |-> rtcset(f, ct.mon),
         year |-> rtcset(f, ct.year % 100), century |-> rtcset(f, ct.year \div 100)]

rtc_to_secs(f, reg) ==
    LET year == rtcget(f, reg.year)
        century == rtcget(f, reg.century)
        ct == [year |-> century * 100 + year, mon |-> rtcget(f, reg.mon), day |-> rtcget(f, reg.day),
               hour |-> GetHour(f, reg.hour), min |-> rtcget(f, reg.min), sec |-> rtcget(f, reg.sec)]
    IN  IF \/ ct.sec \notin 0 .. 59 \/ ct.min \notin 0 .. 59 \/ ct.hour = Broken \/ ct.day \notin 1 .. 31
           \/ ct.mon \notin 1 .. 12 \/ year \notin 0 .. 99 \/ century = Broken \/ ct.year < 1970
        THEN BrokenTime ELSE clk_ct_to_ts(ct)

-----------------------------------------------------------------------------
Init == \E p \in Periods : day = p[1] /\ last = p[2]

Next == day < last /\ day' = day + 1 /\ UNCHANGED last

Spec == Init /\ [][Next]_vars

-----------------------------------------------------------------------------
(* Properties *)

\* The day's number by the closed formula of the Gregorian calendar, whose year
\* begins in March: the reference for the loops.
DayNumber(year, mon, d) ==
    LET y == IF mon <= 2 THEN year - 1 ELSE year
        m == (mon + 9) % 12
    IN  365 * y + y \div 4 - y \div 100 + y \div 400 + (153 * m + 2) \div 5 + d - 1 - 719468

\* A moment of the day: another hour each day.
Moment == [days |-> day, rsec |-> (day % 24) * 3600 + (day % 60) * 60 + ((day * 7) % 60)]

\* In every format the bytes shown for a moment are those of its Gregorian date
\* and are read back as the same moment; and a byte that is taken as an hour is
\* the one that is shown for it (secs_to_rtc, rtc_to_secs, clk_ts_to_ct,
\* clk_ct_to_ts).
DateKept ==
    LET ct == clk_ts_to_ct(Moment)
    IN  /\ DayNumber(ct.year, ct.mon, ct.day) = day
        /\ \A f \in Formats :
             /\ rtc_to_secs(f, secs_to_rtc(f, Moment)) = Moment
             /\ LET h == GetHour(f, day % 256) IN h # Broken => h \in 0 .. 23 /\ SetHour(f, h) = day % 256
=============================================================================
