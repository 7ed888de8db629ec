---------------------------- MODULE CenturyDays -----------------------------
(***************************************************************************)
(* The 400-year calendar of XRTC_PCF85063A (getCenturyDateTimeNow,         *)
(* src/cpp/XRTC_PCF85063A.cpp) on a chip that keeps two digits of the      *)
(* year, and the sketch External_RTC/XRTC_CenturyDays that lets it run.    *)
(* The chip holds every year divisible by four for a leap year and counts  *)
(* weekdays whatever the date; the difference between its weekday and that *)
(* of the date in 2000-2099 tells the century.                             *)
(***************************************************************************)
EXTENDS PCF85063A

CONSTANTS
  Starts,   \* days the clock is set and let run from
  RunDays,  \* for how many days each time
  Watched,  \* days whose seconds are followed
  Hours,    \* in these hours
  Broken    \* bound of the check: transfers that break off

\* The 400 years of the method: 1900-01-01 to 2299-12-31.
FirstCentury == 15020
LastCentury  == 161116

\* The seconds of a day.
ADay == 86400

ASSUME CenturyAssumption ==
  /\ RunDays \in Nat /\ Broken \in Nat
  /\ \A s \in Starts : s \in Int /\ FirstCentury <= s /\ s + RunDays <= LastCentury
  /\ \A w \in Watched : w \in Int /\ FirstCentury <= w /\ w < LastCentury
  /\ Hours \subseteq 0 .. 23

VARIABLES
  day,      \* the day it is, as an MJD
  sec,      \* the second of the day
  cal,      \* the chip's calendar: packed years, months, days and the weekday
  held,     \* the same of the driver's shadow
  pass,     \* the passes of loop() today: "none", "broken", or one was "whole"
  breaks,   \* transfers that may yet break off
  slipped   \* history: a date was lost to a transfer that broke off (see Slips)

cvars == <<day, sec, cal, held, pass, breaks, slipped>>

\* The registers of a date (adjustBcdDate).
DateRegisters(b) == [years |-> b.year % 256, months |-> b.month, days |-> b.day,
                     weekdays |-> bcdDateToWeekday(b)]

-----------------------------------------------------------------------------
(* getCenturyDateTimeNow: the date, and whether the chip is put right.     *)

\* getBcdDateTimeNow puts the century 0x20 in front.
DateNow(c) == [year |-> 32 * 256 + c.years, month |-> c.months, day |-> c.days]

\* Days to the other centuries, by weekday shift, up to 29 February and after.
Shift(weeks) ==
  [w \in 0 .. 6 |-> CASE w = 5 -> -36524 [] w = 1 -> 36525 [] w = 3 -> 73049 [] OTHER -> 0][weeks]
ShiftMarch(weeks) ==
  [w \in 0 .. 6 |-> CASE w = 6 -> -36525 [] w = 2 -> 36524 [] w = 4 -> 73048 [] OTHER -> 0][weeks]

getCenturyDate(c) ==
  LET mjd   == bcdDateToMjd(DateNow(c))
      weeks == (mjdToWeekday(mjd) + 7 - c.weekdays) % 7
      early == mjd <= 51603                                    \* 2000-02-29
      date  == mjdToBcdDate(mjd + (IF early THEN Shift(weeks) ELSE ShiftMarch(weeks)))
  IN  [date |-> IF weeks = 0 THEN DateNow(c) ELSE date,
       fix  |-> weeks # 0 /\ mjd = 51603 /\ c.months = 2 /\ c.days = 41]

\* On a clock in 24-hour mode.
getCenturyEpochNow(c, time) == bcdDateTimeToEpoch([date |-> getCenturyDate(c).date, time |-> time])

-----------------------------------------------------------------------------

InitCentury ==
  /\ \/ day \in Starts /\ sec = 0 /\ breaks = Broken
     \/ day \in Watched /\ sec \in {3600 * h : h \in Hours} /\ breaks = 0
  /\ cal = DateRegisters(mjdToBcdDate(day)) /\ held = cal      \* adjustBcdDateTime
  /\ pass = "none" /\ slipped = FALSE

\* The first n of the date's four registers taken over, in the chip's order.
Copied(old, new, n) ==
  [days     |-> IF n >= 1 THEN new.days ELSE old.days,
   weekdays |-> IF n >= 2 THEN new.weekdays ELSE old.weekdays,
   months   |-> IF n >= 3 THEN new.months ELSE old.months,
   years    |-> IF n = 4 THEN new.years ELSE old.years]

\* loop(): update() and getCenturyDateTimeNow, of whose transfers n registers
\* of the date are read and k are written.
PollKeeps(n, k) == held' = Copied(held, cal, n) /\ UNCHANGED cal  \* mutant: 29 February stays
Poll(n, k) ==
  LET got == Copied(held, cal, n)
      now == getCenturyDate(got)
  IN  /\ held' = IF now.fix THEN DateRegisters(now.date) ELSE got
      /\ cal' = IF now.fix THEN Copied(cal, held', k) ELSE cal

\* The pass puts the chip right, by what it has read.
Fixes(n) == getCenturyDate(Copied(held, cal, n)).fix

\* A correction that got as far as the day and not the month leaves 1 February,
\* and one by a shadow read in part may be of a 29 February that is.
Slips(n, k) == Fixes(n) /\ (n < 4 \/ k \in 1 .. 2)

Look ==
  \E n, k \in 0 .. 4 :
    /\ Poll(n, k)
    /\ breaks' = breaks - (IF n < 4 THEN 1 ELSE 0) - (IF k < 4 THEN 1 ELSE 0)
    /\ breaks' >= 0
    /\ k < 4 => Fixes(n)
    /\ pass' = IF n = 4 /\ k = 4 THEN "whole" ELSE IF pass = "none" THEN "broken" ELSE pass
    /\ slipped' = (slipped \/ Slips(n, k))
    /\ UNCHANGED <<day, sec>>

\* A day on which no pass got through may end with the chip not put right.
NewDay ==
  /\ day' = day + 1 /\ cal' = NextDay(cal) /\ pass' = "none"
  /\ slipped' = (slipped \/ (pass # "whole" /\ getCenturyDate(cal).fix))
  /\ UNCHANGED <<held, breaks>>

\* The program looks at the clock each day; the seconds are skipped ...
Midnight ==
  /\ pass # "none" /\ sec = 0
  /\ \E s \in Starts : day \in s .. s + RunDays - 1
  /\ NewDay
  /\ UNCHANGED sec

\* ... or followed, on a watched day.
Followed == day \in Watched /\ sec \div 3600 \in Hours
Second ==
  /\ Followed /\ pass # "none"
  /\ sec' = (sec + 1) % ADay
  /\ IF sec' = 0 THEN NewDay ELSE UNCHANGED <<day, cal, held, pass, breaks, slipped>>

NextCentury == Look \/ Midnight \/ Second
SpecCentury == InitCentury /\ [][NextCentury]_cvars

-----------------------------------------------------------------------------

Decoded(b) == <<wbtod(b.year), btod(b.month), btod(b.day)>>

\* The days and seconds the conversions show go forward as on the wall.
Wall == INSTANCE WallClock WITH
  date <- Decoded(mjdToBcdDate(day)),
  time <- LET t == epochToBcdTime(sec) IN <<btod(t.hour), btod(t.minute), btod(t.second)>>,
  wday <- mjdToWeekday(day)
Calendar == Wall!Spec

Unix == day \in Day0 .. Day0 + 24854       \* epochs below 2^31
Epoch == ADay * (day - Day0) + sec
Packed == [date |-> mjdToBcdDate(day), time |-> epochToBcdTime(sec)]

\* The Gregorian calendar is read off two digits of the year and a weekday,
\* from 1900 to 2299, through every transfer that breaks off but one that cuts
\* a correction of 29 February in two (or is all there is on that day): after
\* that the code shows another date for good.
CenturyKept == ~ slipped =>
  /\ getCenturyDate(cal).date = mjdToBcdDate(day)
  /\ Unix => getCenturyEpochNow(cal, epochToBcdTime(sec)) = Epoch

\* The hour a 12-hour clock shows: 12, 1 .. 11, with 0x20 after noon.
HourOnDial == dtob(((sec \div 3600 + 11) % 12) + 1) + (IF sec >= 43200 THEN PM ELSE 0)
OnDial == [Packed EXCEPT !.time.hour = HourOnDial]

\* Each conversion has its inverse: MJD, packed date, epoch, date and time
\* (dateTimeToEpoch and bcdTime24to12 apart, see README); and what a 12-hour
\* clock shows becomes the 24 hours of the day.
RoundTrip ==
  /\ bcdDateToMjd(mjdToBcdDate(day)) = day
  /\ bcdDateToWeekday(mjdToBcdDate(day)) = mjdToWeekday(day)
  /\ bcdTimeToEpoch(epochToBcdTime(sec)) = sec
  /\ bcdDateTimeToDateTime(Packed) = [date |-> day, time |-> sec]
  /\ dateTimeToBcdDateTime([date |-> day, time |-> sec]) = Packed
  /\ bcdDateTime12to24(OnDial) = Packed
  /\ Unix =>
       /\ epochToBcdDateTime(Epoch) = Packed
       /\ bcdDateTimeToEpoch(Packed) = Epoch
       /\ epochToDateTime(Epoch) = [date |-> day, time |-> sec]
       /\ mjdToEpoch(day) = Epoch - sec
       /\ epochToWeekday(Epoch) = mjdToWeekday(day)
       /\ bcdTimeToSeconds(epochToBcdDayTime(ADay * (day % 100) + sec))
            = ADay * (day % 100) + sec
=============================================================================
