---------------------------- MODULE bcddatetime -----------------------------
(***************************************************************************)
(* Packed decimal dates and times (src/cpp/bcddatetime.cpp): conversions   *)
(* between them, the Modified Julian Date and the UNIX epoch.  A packed    *)
(* byte is a number of 0 .. 255; bcddate_t and bcdtime_t are records of    *)
(* the columns of bcdd_t and bcdt_t.                                       *)
(***************************************************************************)
EXTENDS Integers

dtob(d)  == (16 * (d \div 10) + (d % 10)) % 256
btod(b)  == 10 * (b \div 16) + (b % 16)
wdtob(d) == 256 * dtob(d \div 100) + dtob(d % 100)
wbtod(b) == 100 * btod(b \div 256) + btod(b % 256)

bcddate(y, m, d) == [year |-> wdtob(y), month |-> dtob(m), day |-> dtob(d)]
bcdtime(h, m, s) == [hour |-> dtob(h), minute |-> dtob(m), second |-> dtob(s), wday |-> 0]

-----------------------------------------------------------------------------
(* Dates.  January and February are months 13 and 14 of the year before.   *)

bcdDateToMjd(b) ==
  LET early == btod(b.month) < 3
      y == wbtod(b.year) - (IF early THEN 1 ELSE 0)
      m == btod(b.month) + (IF early THEN 12 ELSE 0)
  IN  (36525 * y) \div 100 + y \div 400 - y \div 100 + (3059 * (m - 2)) \div 100
        + btod(b.day) - 678912

\* Days of the 100-year periods that leap years left out, in quarters of a day.
SkippedNone(jdn) == 0                             \* mutant: every fourth year leaps
Skipped(jdn) == 4 * ((3 * ((4 * (jdn + 1)) \div 146097 + 1)) \div 4)

mjdToBcdDate(mjd) ==
  LET jdn  == mjd + 678881
      base == 4 * jdn + Skipped(jdn) + 3
      leap == 5 * ((base % 1461) \div 4) + 2
      m    == leap \div 153 + 3
      late == m > 12
  IN  bcddate(base \div 1461 + (IF late THEN 1 ELSE 0),
              m - (IF late THEN 12 ELSE 0), (leap % 153) \div 5 + 1)

mjdToWeekday(mjd)   == (mjd + 3) % 7
bcdDateToWeekday(b) == (bcdDateToMjd(b) + 3) % 7

-----------------------------------------------------------------------------
(* Times of day.                                                           *)

HourAsIs(t) ==                                    \* mutant: the hour is not unpacked
  3600 * (t.hour % 24) + 60 * (btod(t.minute) % 60) + (btod(t.second) % 60)
bcdTimeToEpoch(t) ==
  3600 * (btod(t.hour) % 24) + 60 * (btod(t.minute) % 60) + (btod(t.second) % 60)
bcdTimeToSeconds(t) == 86400 * btod(t.wday) + bcdTimeToEpoch(t)

epochToBcdTime(e) == bcdtime((e \div 3600) % 24, (e \div 60) % 60, e % 60)
epochToBcdDayTime(e) == [epochToBcdTime(e) EXCEPT !.wday = dtob(e \div 86400)]

\* Hours of a 12-hour clock: 1 to 12, and 0x20 for the afternoon.
PM == 32
bcdTime12to24(t) ==
  LET pm == (t.hour \div PM) % 2 = 1
  IN  [t EXCEPT !.hour = dtob((btod(t.hour % PM) % 12) + (IF pm THEN 12 ELSE 0)), !.wday = 0]

\* The afternoon is looked for in bit 7 of the hour.
bcdTime24to12(t) ==
  LET h12 == dtob(((btod(t.hour) + 11) % 12) + 1)
  IN  [t EXCEPT !.hour = h12 + (IF t.hour >= 128 THEN PM ELSE 0), !.wday = 0]

-----------------------------------------------------------------------------
(* The epoch, here short of 2^31; bcddatetime_t is [date, time].           *)

Day0 == 40587
bcdToEpoch(d, t)      == 86400 * (bcdDateToMjd(d) - Day0) + bcdTimeToEpoch(t)
bcdDateTimeToEpoch(b) == bcdToEpoch(b.date, b.time)
mjdToEpoch(mjd)       == bcdToEpoch(mjdToBcdDate(mjd), bcdtime(0, 0, 0))

epochToMjd(e)     == e \div 86400 + Day0
epochToWeekday(e) == (e \div 86400 + 4) % 7
epochToBcdDate(e) == mjdToBcdDate(epochToMjd(e))
epochToBcdDateTime(e) == [date |-> epochToBcdDate(e), time |-> epochToBcdTime(e)]

bcdDateTime12to24(b) == [b EXCEPT !.time = bcdTime12to24(b.time)]
bcdDateTime24to12(b) == [b EXCEPT !.time = bcdTime24to12(b.time)]

\* datetime_t, of an MJD and the seconds of the day.
epochToDateTime(e)       == [date |-> epochToMjd(e), time |-> e % 86400]
bcdDateTimeToDateTime(b) == [date |-> bcdDateToMjd(b.date), time |-> bcdTimeToEpoch(b.time)]
dateTimeToBcdDateTime(t) == [date |-> mjdToBcdDate(t.date), time |-> epochToBcdTime(t.time)]

\* The days are counted once by bcdToEpoch and once more in the last line.
dateTimeToEpoch(t) ==
  LET e == mjdToEpoch(t.date) + (t.time % 86400)
  IN  e + 86400 * (e \div 86400)
=============================================================================
