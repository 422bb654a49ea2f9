------------------------------- MODULE Clock -------------------------------
(***************************************************************************)
(* Time as the provider sees it: time() reads the real time clock of the    *)
(* platform, gmtime() takes the number apart again, and the MbedTLS build    *)
(* compares the dates of certificates.                                       *)
(*                                                                         *)
(* A time_t is kept as whole days and the seconds of the last one.  The     *)
(* clock and its calendar are external and are written independently of the *)
(* code.                                                                     *)
(***************************************************************************)
EXTENDS Integers, Sequences

CONSTANTS
  Starts,      \* dates where the clock is looked at, as universal and as local
               \* time, with the time zone and the day of the week and year
  Span,        \* for how many days
  Instants,    \* the seconds of a day at which the clock is looked at, in order
  MaxGap       \* how many instants apart two readings may be

EFI_UNSPECIFIED_TIMEZONE == 2047
SECSPERDAY == 86400
FirstYear == 1970       \* of the epoch

VARIABLES
  build,       \* whose code runs
  clock,       \* universal time: date, seconds, day of the week and year
  local, zone, \* the same instant as the clock shows it, and its time zone
  age,         \* days since the start
  read,        \* what clock was at the last reading
  tm,          \* the broken-down time of that reading
  gap          \* instants since

clockVars == <<build, clock, local, zone, age, read, tm, gap>>

-----------------------------------------------------------------------------
(* The platform's clock.                                                     *)

LongFebruary(year) == year % 400 = 0 \/ (year % 4 = 0 /\ year % 100 # 0)

DaysIn(year, month) ==
  CASE month \in {4, 6, 9, 11} -> 30
    [] month = 2 -> IF LongFebruary(year) THEN 29 ELSE 28
    [] OTHER -> 31

\* Days from the epoch to the first of January.
NewYear(year) ==
  365 * (year - FirstYear) + ((year - 1) \div 4) - ((year - 1) \div 100) + ((year - 1) \div 400) - 477

\* Days of the year before a date.  From March on months are 30.6 days long.
DayOfYear(year, month, day) ==
  ((367 * month - 362) \div 12)
  - (IF month <= 2 THEN 0 ELSE IF LongFebruary(year) THEN 1 ELSE 2) + day - 1

DayNumber(c) == NewYear(c.Year) + c.yday

SecondOfDay == 0..(SECSPERDAY - 1)
Date == [Year : Nat, Month : 1..12, Day : 1..31, sec : SecondOfDay, wday : 0..6, yday : 0..365]

\* A date since the epoch, with the right day of the week and year.
IsDate(c) ==
  /\ c \in Date
  /\ c.Year >= FirstYear /\ c.Day <= DaysIn(c.Year, c.Month)
  /\ c.yday = DayOfYear(c.Year, c.Month, c.Day)
  /\ c.wday = (DayNumber(c) + 4) % 7

\* The time zone is what local time lacks, in minutes.
Offset(z) == IF z = EFI_UNSPECIFIED_TIMEZONE THEN 0 ELSE z * 60

\* Universal time u and local time l are the same instant.
SameInstant(u, l, z) == SECSPERDAY * (DayNumber(u) - DayNumber(l)) + (u.sec - l.sec) = Offset(z)

ASSUME StartsAssumption ==
  \A s \in Starts : /\ IsDate(s.utc) /\ IsDate(s.local)
                    /\ s.zone \in Int /\ SameInstant(s.utc, s.local, s.zone)

ASSUME InstantsAssumption == Instants \in Seq(SecondOfDay) /\ Instants # <<>>

NextDay(c) ==
  LET newMonth == c.Day = DaysIn(c.Year, c.Month)
      newYear == newMonth /\ c.Month = 12
  IN  [c EXCEPT !.Day = IF newMonth THEN 1 ELSE @ + 1,
                !.Month = IF newYear THEN 1 ELSE IF newMonth THEN @ + 1 ELSE @,
                !.Year = IF newYear THEN @ + 1 ELSE @,
                !.wday = (@ + 1) % 7,
                !.yday = IF newYear THEN 0 ELSE @ + 1]

\* The clock goes on by at most a day.
Later(c, secs) ==
  IF c.sec + secs < SECSPERDAY THEN [c EXCEPT !.sec = @ + secs]
  ELSE [NextDay(c) EXCEPT !.sec = (c.sec + secs) - SECSPERDAY]

Wait(c) ==
  LET after == {i \in 1..Len(Instants) : Instants[i] > c.sec}
  IN  IF after = {} THEN SECSPERDAY + Instants[1] - c.sec
      ELSE Instants[CHOOSE i \in after : \A j \in after : i <= j] - c.sec

Hour(c) == c.sec \div 3600
Minute(c) == (c.sec % 3600) \div 60
Second(c) == c.sec % 60

-----------------------------------------------------------------------------
(* TimerWrapper.c.                                                           *)

IsLeap(y) == y % 4 = 0 /\ (y % 100 # 0 \/ y % 400 = 0)

\* Days of the year before month 1 to 13.
CumulativeDays(leap) ==
  IF leap THEN <<0, 31, 60, 91, 121, 152, 182, 213, 244, 274, 305, 335, 366>>
  ELSE <<0, 31, 59, 90, 120, 151, 181, 212, 243, 273, 304, 334, 365>>

DaysBefore[y \in Nat] == IF y <= FirstYear THEN 0 ELSE DaysBefore[y - 1] + CumulativeDays(IsLeap(y - 1))[13]

\* The seconds of the local time and of the time zone may make another day of it.
CalculateTimeT(c, z) ==
  LET secs == (IF z # EFI_UNSPECIFIED_TIMEZONE THEN z * 60 ELSE 0)
              + Hour(c) * 3600 + Minute(c) * 60 + Second(c)
      days == DaysBefore[c.Year] + CumulativeDays(IsLeap(c.Year))[c.Month]
              + (IF c.Day > 0 THEN c.Day - 1 ELSE 0)
  IN  [day |-> days + (secs \div SECSPERDAY), sec |-> secs % SECSPERDAY]

\* Without a clock, or before the epoch, the time is 0.
time(works) ==
  IF ~works \/ local.Year < FirstYear THEN [day |-> 0, sec |-> 0] ELSE CalculateTimeT(local, zone)

\* The years that are over are taken off one by one.
YearAndDay[p \in Nat \X Nat] ==
  LET TotalDays == CumulativeDays(IsLeap(p[1]))[13]
  IN  IF p[2] < TotalDays THEN p ELSE YearAndDay[<<p[1] + 1, p[2] - TotalDays>>]

\* Variant: the first day of a month counts for the month before.
MonthOfLate(d, leap) ==
  CHOOSE m \in 1..12 :
    /\ m = 1 \/ d > CumulativeDays(leap)[m]
    /\ \A k \in (m + 1)..12 : d <= CumulativeDays(leap)[k]

\* The last month that has begun.
MonthOf(d, leap) ==
  CHOOSE m \in 1..12 :
    /\ m = 1 \/ d >= CumulativeDays(leap)[m]
    /\ \A k \in (m + 1)..12 : d < CumulativeDays(leap)[k]

\* The MbedTLS build keeps days and seconds in a UINT16.
UINT16(n) == IF build = "mbedtls" THEN n % 65536 ELSE n

gmtime(t) ==
  LET rem == UINT16(t.sec)
      dayNo == UINT16(t.day)
      year == YearAndDay[<<FirstYear, dayNo>>][1]
      yday == YearAndDay[<<FirstYear, dayNo>>][2]
      month == MonthOf(yday, IsLeap(year))
  IN  [tm_sec |-> rem % 60, tm_min |-> (rem % 3600) \div 60, tm_hour |-> rem \div 3600,
       tm_wday |-> (dayNo + 4) % 7, tm_year |-> year - 1900, tm_yday |-> yday,
       tm_mon |-> month - 1,
       tm_mday |-> (yday - (IF month > 1 THEN CumulativeDays(IsLeap(year))[month] ELSE 0)) + 1]

-----------------------------------------------------------------------------
(* Dates of certificates in the MbedTLS build.                               *)

\* Variant: a field counts although one before it differs.
CheckTimeAnyField(b, a) ==
  \/ b.Year > a.Year
  \/ b.Month > a.Month
  \/ b.Month = a.Month /\ b.Day > a.Day
  \/ b.Month = a.Month /\ b.Day = a.Day /\ b.sec > a.sec

\* TRUE: Before is later than After, by the first field that differs.
InternalX509CheckTime(b, a) ==
  \/ b.Year > a.Year
  \/ b.Year = a.Year /\ b.Month > a.Month
  \/ b.Year = a.Year /\ b.Month = a.Month /\ b.Day > a.Day
  \/ /\ b.Year = a.Year /\ b.Month = a.Month /\ b.Day = a.Day
     /\ \/ Hour(b) > Hour(a)
        \/ Hour(b) = Hour(a) /\ Minute(b) > Minute(a)
        \/ Hour(b) = Hour(a) /\ Minute(b) = Minute(a) /\ Second(b) > Second(a)

X509CompareDateTime(d1, d2) ==
  IF d1 = d2 THEN 0 ELSE IF InternalX509CheckTime(d1, d2) THEN 1 ELSE -1

-----------------------------------------------------------------------------
NotRead == [tm_year |-> 0]

ClockInit ==
  /\ build \in {"openssl", "mbedtls"}
  /\ \E s \in Starts : clock = s.utc /\ local = s.local /\ zone = s.zone
  /\ age = 0 /\ gap = 0
  /\ read = clock /\ tm = NotRead

\* Time passes.
Tick ==
  /\ age < Span /\ gap < MaxGap
  /\ clock' = Later(clock, Wait(clock))
  /\ local' = Later(local, Wait(clock))
  /\ age' = IF clock'.Day # clock.Day THEN age + 1 ELSE age
  /\ gap' = gap + 1
  /\ UNCHANGED <<build, zone, read, tm>>

\* Someone asks for the time.  The clock may not answer.
Read(works) ==
  /\ tm' = gmtime(time(works))
  /\ read' = IF works THEN clock ELSE [clock EXCEPT !.Year = 0]
  /\ gap' = 0
  /\ UNCHANGED <<build, clock, local, zone, age>>

ClockNext == Tick \/ \E works \in BOOLEAN : Read(works)

ClockSpec == ClockInit /\ [][ClockNext]_clockVars

-----------------------------------------------------------------------------
(* Properties.                                                              *)

\* What struct tm is to show of a date.
Fields(c) ==
  [tm_sec |-> Second(c), tm_min |-> Minute(c), tm_hour |-> Hour(c), tm_wday |-> c.wday,
   tm_year |-> c.Year - 1900, tm_yday |-> c.yday, tm_mon |-> c.Month - 1, tm_mday |-> c.Day]

Epoch == [Year |-> FirstYear, Month |-> 1, Day |-> 1, sec |-> 0, wday |-> 4, yday |-> 0]

\* What UINT16 cannot hold: a time after 18:12:15, and days after 6 June 2149.
BeyondUint16(c) == c.sec >= 65536 \/ c.Year > 2149 \/ (c.Year = 2149 /\ c.yday > 156)

\* Through time() and gmtime() a caller gets the date and time of the clock, in
\* universal time, with the right day of the week and year, over leap years,
\* centuries and time zones; the epoch if the clock does not answer.  In the MbedTLS
\* build that is so only for what its variables can hold.
GmtimeTellsClock ==
  \/ tm = NotRead
  \/ tm = Fields(IF read.Year = 0 THEN Epoch ELSE read)
  \/ build = "mbedtls" /\ BeyondUint16(read)

\* Dates compare as the instants they stand for.
DatesInOrder ==
  read.Year # 0 =>
    /\ X509CompareDateTime(read, clock) = IF gap = 0 THEN 0 ELSE -1
    /\ X509CompareDateTime(clock, read) = IF gap = 0 THEN 0 ELSE 1
=============================================================================
