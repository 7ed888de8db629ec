---------------------------- MODULE ClockProofs -----------------------------
(***************************************************************************)
(* Proofs about the clocks: the calendar of bcddatetime, CenturyDays,      *)
(* XrtcProgram and XRTC_GPS_Adjust.                                        *)
(*                                                                         *)
(* The calendar: a date y, m, d is day DayOf(y, m, d) of the MJD,          *)
(* different dates are different days (Unique), and mjdToBcdDate finds the *)
(* date of every day (DateParts), so that the two conversions are each     *)
(* other's inverse (Back) and days follow one another as the calendar says *)
(* (Tomorrow).  Large numbers have names, which are expanded where         *)
(* arithmetic needs them.                                                  *)
(*                                                                         *)
(* CenturyDays: the registers of a date of 1900 to 2299 give it back       *)
(* (Reads), and the chip keeps showing the day it is (ShownNext).  CInv is *)
(* the inductive invariant.                                                *)
(*                                                                         *)
(* XrtcProgram: for every date, alarm and period and any number of calls   *)
(* and of transfers that break off, each call stays within its own         *)
(* registers of the chip, an alarm that was shown is kept, and a period is *)
(* counted as it was asked for.  IInv is the invariant.                    *)
(*                                                                         *)
(* XRTC_GPS_Adjust: the chip as a clock (SecondOn, StampHeld), the sketch  *)
(* that sets it by the receiver, for every beginning and length of its run *)
(* within 2000 to 2099.  GInv is the invariant of the time, FInv that of   *)
(* the coordinates.                                                        *)
(***************************************************************************)
EXTENDS XrtcProgram, XRTC_GPS_Adjust, CenturyDays, TLAPS

\* 0000-03-01 and 9999-12-31, between which a packed date has its four digits.
FirstDay == -678881
LastDay  == 2973483
YearLimit == 10000
Mjd0 == 678881

\* A byte of two decimals, and a word of four.
LEMMA Bytes ==
  ASSUME NEW n \in Nat, n < 100
  PROVE  /\ dtob(n) \in Nat /\ dtob(n) < 154 /\ btod(dtob(n)) = n
         /\ (dtob(n) = 2 <=> n = 2) /\ (dtob(n) = 41 <=> n = 29)
  BY SMT DEF dtob, btod

\* The bytes of a word.
LEMMA Halves ==
  ASSUME NEW u \in Nat, u < 256, NEW v \in Nat, v < 256
  PROVE  (256 * u + v) \div 256 = u /\ (256 * u + v) % 256 = v
  BY SMT

\* A word of four decimals keeps them (wdtob, wbtod).
LEMMA Words ==
  ASSUME NEW n \in Nat, n < YearLimit
  PROVE  /\ wdtob(n) \div 256 = dtob(n \div 100) /\ wdtob(n) % 256 = dtob(n % 100)
         /\ wbtod(wdtob(n)) = n
  <1>1. PICK h \in Nat, l \in Nat :
          h = n \div 100 /\ l = n % 100 /\ h < 100 /\ l < 100 /\ n = 100 * h + l
    BY SMT DEF YearLimit
  <1>2. PICK u \in Nat, v \in Nat : u = dtob(h) /\ v = dtob(l) /\ u < 154 /\ v < 154
    BY <1>1, Bytes
  <1>3. btod(u) = h /\ btod(v) = l
    BY <1>1, <1>2, Bytes
  <1>4. PICK w \in Nat : w = wdtob(n) /\ w = 256 * u + v
    BY <1>1, <1>2 DEF wdtob
  <1>5. w \div 256 = u /\ w % 256 = v
    BY <1>2, <1>4, Halves
  <1>6. wbtod(wdtob(n)) = 100 * h + l
    BY <1>3, <1>4, <1>5 DEF wbtod
  <1>7. w \div 256 = dtob(n \div 100) /\ w % 256 = dtob(n % 100)
    BY <1>1, <1>2, <1>5, Zenon
  <1>8. wdtob(n) \div 256 = dtob(n \div 100) /\ wdtob(n) % 256 = dtob(n % 100)
    BY <1>4, <1>7, Zenon
  <1>9. QED
    BY <1>1, <1>6, <1>8

\* Day q of a year that begins in March falls on day d of month k + 3.
LEMMA Months ==
  ASSUME NEW q \in Int, q >= 0, q <= 365
  PROVE  \E k \in Int, d \in Int :
           /\ k = (5 * q + 2) \div 153 /\ d = ((5 * q + 2) % 153) \div 5 + 1
           /\ k \in 0 .. 11 /\ d \in 1 .. 31
           /\ (3059 * (k + 1)) \div 100 + d = q + 31
           /\ k \in {1, 3, 6, 8} => d <= 30
           /\ k = 11 => d <= 29 /\ (d = 29 => q = 365)
  <1>1. PICK k \in Int, d \in Int : k = (5 * q + 2) \div 153 /\ d = ((5 * q + 2) % 153) \div 5 + 1
    BY SMT
  <1>2. /\ k \in 0 .. 11 /\ d \in 1 .. 31
        /\ (3059 * (k + 1)) \div 100 + d = q + 31
        /\ k \in {1, 3, 6, 8} => d <= 30
        /\ k = 11 => d <= 29 /\ (d = 29 => q = 365)
    BY <1>1, SMT
  <1>3. QED
    BY <1>1, <1>2, SMT

\* The days up to that date, and what of them falls into the year from March on.
Year(y, m) == IF m < 3 THEN y - 1 ELSE y
Month(m)   == IF m < 3 THEN m + 12 ELSE m
Before(y)  == 365 * y + y \div 4 - y \div 100 + y \div 400
Offset(m) == (3059 * (m - 2)) \div 100
Within(m, d) == Offset(Month(m)) + d - 31
DayOf(y, m, d) == Before(Year(y, m)) + Within(m, d) - Mjd0

IsDate(y, m, d) == y < YearLimit /\ 1 <= m /\ m <= 12 /\ 1 <= d /\ d <= Wall!Days(y, m)

\* The days of a month, case by case.
LEMMA DaysOfMonth ==
  ASSUME NEW y \in Nat, NEW m \in Nat, 1 <= m, m <= 12
  PROVE  /\ m = 2 /\ Wall!Leaps(y) => Wall!Days(y, m) = 29
         /\ m = 2 /\ ~Wall!Leaps(y) => Wall!Days(y, m) = 28
         /\ m \in {4, 6, 9, 11} => Wall!Days(y, m) = 30
         /\ m \notin {2, 4, 6, 9, 11} => Wall!Days(y, m) = 31
         /\ Wall!Days(y, m) \in Nat /\ 28 <= Wall!Days(y, m) /\ Wall!Days(y, m) <= 31
  <1>1. CASE m = 2
    BY <1>1 DEF Wall!Days
  <1>2. CASE m \in {4, 6, 9, 11}
    BY <1>2 DEF Wall!Days
  <1>3. CASE m \notin {2, 4, 6, 9, 11}
    BY <1>3 DEF Wall!Days
  <1>4. QED
    BY <1>1, <1>2, <1>3

\* The 36525 hundredths of bcdDateToMjd are the leap years of the Julian calendar.
LEMMA YearQuarters ==
  ASSUME NEW y \in Int
  PROVE  (36525 * y) \div 100 = 365 * y + y \div 4
  BY SMT

\* bcdDateToMjd unpacks a date and counts its day.
LEMMA MjdOf ==
  ASSUME NEW y \in Nat, y < YearLimit, NEW m \in Nat, 1 <= m, m <= 12,
         NEW d \in Nat, 1 <= d, d <= 31
  PROVE  bcdDateToMjd(bcddate(y, m, d)) = DayOf(y, m, d)
  <1> DEFINE b == bcddate(y, m, d)
  <1>1. wbtod(b.year) = y /\ btod(b.month) = m /\ btod(b.day) = d
    <2>1. b.year = wdtob(y) /\ b.month = dtob(m) /\ b.day = dtob(d)
      BY DEF bcddate
    <2>2. wbtod(wdtob(y)) = y
      BY Words
    <2>3. btod(dtob(m)) = m /\ btod(dtob(d)) = d
      <3>1. m \in Nat /\ m < 100 /\ d \in Nat /\ d < 100
        BY SMT
      <3>2. QED
        BY <3>1, Bytes
    <2>4. QED
      BY <2>1, <2>2, <2>3
  <1> HIDE DEF b
  <1>2. PICK yy \in Int, mm \in Int : yy = Year(y, m) /\ mm = Month(m)
    BY SMT DEF Year, Month
  <1>3. bcdDateToMjd(b) = (36525 * yy) \div 100 + yy \div 400 - yy \div 100
                            + (3059 * (mm - 2)) \div 100 + d - 678912
    BY <1>1, <1>2, SMT DEF bcdDateToMjd, Year, Month
  <1>4. (36525 * yy) \div 100 = 365 * yy + yy \div 4
    BY YearQuarters
  <1>5. DayOf(y, m, d) = Before(yy) + (Offset(mm) + d - 31) - Mjd0
    BY <1>2, Zenon DEF DayOf, Within
  <1>6. bcdDateToMjd(b) = DayOf(y, m, d)
    BY <1>3, <1>4, <1>5, SMT DEF Before, Mjd0, Offset
  <1>7. QED
    BY <1>6 DEF b


\* mjdToBcdDate in two parts: quarters of a day, and the date they are.
Quarters(mjd) == 4 * (mjd + 678881) + Skipped(mjd + 678881) + 3
QuarterDate(base) ==
  LET leap == 5 * ((base % 1461) \div 4) + 2
      m    == leap \div 153 + 3
  IN  bcddate(base \div 1461 + (IF m > 12 THEN 1 ELSE 0), m - (IF m > 12 THEN 12 ELSE 0),
              (leap % 153) \div 5 + 1)

\* mjdToBcdDate in these two parts.
LEMMA TwoParts ==
  ASSUME NEW mjd \in Int
  PROVE  mjdToBcdDate(mjd) = QuarterDate(Quarters(mjd))
  BY SMT DEF mjdToBcdDate, QuarterDate, Quarters

\* The quarters name the year from March on, and the day in it.
LEMMA YearsOf ==
  ASSUME NEW mjd \in Int, FirstDay <= mjd
  PROVE  \E b \in Int, y \in Int, q \in Int :
           /\ b = Quarters(mjd) /\ y = b \div 1461 /\ q = (b % 1461) \div 4
           /\ y >= 0 /\ q >= 0 /\ q <= 365
           /\ mjd + 678881 = 365 * y + y \div 4 - y \div 100 + y \div 400 + q
           /\ q = 365 => Wall!Leaps(y + 1)
  <1>1. PICK j \in Int : j = mjd + Mjd0 /\ j >= 0
    BY SMT DEF FirstDay, Mjd0
  <1>2. PICK c \in Int : c = (4 * (j + 1)) \div 146097
    BY SMT
  <1>3. PICK s \in Int : s = (3 * (c + 1)) \div 4
    BY SMT
  <1>4. PICK b \in Int : b = 4 * j + 4 * s + 3
    BY SMT
  <1>5. PICK y \in Int, r \in Int : y = b \div 1461 /\ r = b % 1461 /\ b = 1461 * y + r /\ r >= 0 /\ r < 1461
    BY SMT
  <1>6. PICK q \in Int : q = r \div 4 /\ q >= 0 /\ q <= 365 /\ 4 * q <= r /\ r <= 4 * q + 3
    BY <1>5, SMT
  <1>7. PICK a \in Int, e \in Int : c = 4 * a + e /\ e >= 0 /\ e <= 3 /\ s = 3 * a + e /\ a >= 0
    <2>1. c \div 4 \in Int /\ c % 4 \in Int /\ c = 4 * (c \div 4) + (c % 4) /\ c % 4 >= 0 /\ c % 4 <= 3
      BY SMT
    <2>2. c >= 0
      BY <1>1, <1>2, SMT
    <2>3. QED
      BY <1>3, <2>1, <2>2, SMT
  <1>8. 146097 * c <= 4 * (j + 1) /\ 4 * (j + 1) < 146097 * c + 146097
    BY <1>2, SMT
  <1>9. y < 100 * c + 100 /\ y >= 100 * c - 1 /\ (e > 0 => y >= 100 * c) /\ y >= 0
    <2>1. b >= 146100 * c + e - 1 /\ b < 146100 * c + 146100 /\ b >= 0
      BY <1>1, <1>4, <1>7, <1>8, SMT
    <2>2. QED
      BY <1>5, <1>7, <2>1, SMT
  <1>10. s = y \div 100 - y \div 400
    <2>1. CASE y >= 100 * c
      BY <1>7, <1>9, <2>1, SMT
    <2>2. CASE y = 100 * c - 1 /\ e = 0
      BY <1>7, <2>2, SMT
    <2>3. QED
      BY <1>7, <1>9, <2>1, <2>2, SMT
  <1>11. j = 365 * y + y \div 4 - y \div 100 + y \div 400 + q
    BY <1>4, <1>5, <1>6, <1>10, SMT
  <1>12. q = 365 => (y + 1) % 4 = 0 /\ ((y + 1) % 100 # 0 \/ (y + 1) % 400 = 0)
    BY <1>4, <1>5, <1>6, <1>7, <1>8, <1>9, <1>10, SMTT(30)
  <1>13. Quarters(mjd) = b
    BY <1>1, <1>2, <1>3, <1>4, SMT DEF Quarters, Skipped, Mjd0
  <1>14. mjd + 678881 = 365 * y + y \div 4 - y \div 100 + y \div 400 + q
    BY <1>1, <1>11, SMT DEF Mjd0
  <1>16. q = 365 => Wall!Leaps(y + 1)
    BY <1>12, SMT DEF Wall!Leaps
  <1>17. QED
    BY <1>5, <1>6, <1>9, <1>13, <1>14, <1>16, SMT

\* What mjdToBcdDate returns is a date of the calendar, and that day's.
LEMMA DateParts ==
  ASSUME NEW mjd \in Int, FirstDay <= mjd, mjd <= LastDay
  PROVE  \E y \in Nat, m \in Nat, d \in Nat :
           IsDate(y, m, d) /\ mjdToBcdDate(mjd) = bcddate(y, m, d) /\ DayOf(y, m, d) = mjd
  <1>8. PICK b \in Int, yy \in Int, q \in Int :
          /\ b = Quarters(mjd) /\ yy = b \div 1461 /\ q = (b % 1461) \div 4
          /\ yy >= 0 /\ q >= 0 /\ q <= 365
          /\ mjd + 678881 = 365 * yy + yy \div 4 - yy \div 100 + yy \div 400 + q
          /\ q = 365 => Wall!Leaps(yy + 1)
    BY YearsOf
  <1>9. q >= 0 /\ q <= 365
    BY <1>8, SMT
  <1>11. PICK k \in Int, d \in Int :
          /\ k = (5 * q + 2) \div 153 /\ d = ((5 * q + 2) % 153) \div 5 + 1
          /\ k \in 0 .. 11 /\ d \in 1 .. 31
          /\ (3059 * (k + 1)) \div 100 + d = q + 31
          /\ k \in {1, 3, 6, 8} => d <= 30
          /\ k = 11 => d <= 29 /\ (d = 29 => q = 365)
    BY <1>9, Months
  <1>12. mjdToBcdDate(mjd) = bcddate(yy + (IF k + 3 > 12 THEN 1 ELSE 0),
                                     k + 3 - (IF k + 3 > 12 THEN 12 ELSE 0), d)
    <2>2. QuarterDate(Quarters(mjd)) = bcddate(yy + (IF k + 3 > 12 THEN 1 ELSE 0),
                                          k + 3 - (IF k + 3 > 12 THEN 12 ELSE 0), d)
      BY <1>8, <1>11 DEF QuarterDate
    <2>3. QED
      BY <2>2, TwoParts
  <1>13. CASE k <= 9
    <2>1. PICK m \in Nat : m = k + 3 /\ m >= 3 /\ m <= 12
      BY <1>11, <1>13, SMT
    <2>2. yy < YearLimit
      BY <1>8, SMT DEF YearLimit, Before, LastDay, Mjd0
    <2>3. mjdToBcdDate(mjd) = bcddate(yy, m, d)
      <3>1. yy + (IF k + 3 > 12 THEN 1 ELSE 0) = yy /\ k + 3 - (IF k + 3 > 12 THEN 12 ELSE 0) = m
        BY <1>11, <1>13, <2>1, SMT
      <3>2. QED
        BY <1>12, <3>1
    <2>4. d <= Wall!Days(yy, m)
      <3>1. m \in {4, 6, 9, 11} => d <= 30
        BY <1>11, <2>1, SMT
      <3>2. QED
        <4>1. d \in Nat /\ d <= 31 /\ yy \in Nat
          BY <1>8, <1>11, SMT
        <4>2. m # 2
          BY <2>1, SMT
        <4>3. QED
          BY <2>1, <3>1, <4>1, <4>2, DaysOfMonth, SMT
    <2>5. Year(yy, m) = yy /\ Month(m) = k + 3
      BY <2>1, SMT DEF Year, Month
    <2>6. DayOf(yy, m, d) = mjd
      <3>1. DayOf(yy, m, d) = Before(yy) + (Offset(k + 3) + d - 31) - Mjd0
        BY <2>5, Zenon DEF DayOf, Within
      <3>2. QED
        BY <1>8, <1>11, <3>1, SMT DEF Before, Mjd0, Offset
    <2>7. IsDate(yy, m, d)
      BY <1>11, <2>1, <2>2, <2>4, SMT DEF IsDate
    <2>8. yy \in Nat /\ d \in Nat
      BY <1>8, <1>11, SMT
    <2>9. QED
      BY <2>1, <2>3, <2>6, <2>7, <2>8
  <1>14. CASE k > 9
    <2>1. PICK m \in Nat : m = k - 9 /\ m < 3 /\ m >= 1
      BY <1>11, <1>14, SMT
    <2>2. PICK y \in Nat : y = yy + 1 /\ y < YearLimit
      BY <1>8, <1>11, <1>14, SMT DEF YearLimit, Before, LastDay, Mjd0
    <2>3. mjdToBcdDate(mjd) = bcddate(y, m, d)
      <3>1. yy + (IF k + 3 > 12 THEN 1 ELSE 0) = y /\ k + 3 - (IF k + 3 > 12 THEN 12 ELSE 0) = m
        BY <1>11, <1>14, <2>1, <2>2, SMT
      <3>2. QED
        BY <1>12, <3>1
    <2>4. d <= Wall!Days(y, m)
      <3>1. m = 2 => d <= 29 /\ (d = 29 => q = 365)
        BY <1>11, <2>1, SMT
      <3>2. q = 365 => Wall!Leaps(y)
        BY <1>8, <2>2
      <3>3. m = 2 => d <= 29 /\ (d = 29 => Wall!Leaps(y))
        BY <3>1, <3>2
      <3>4. d \in Nat /\ d <= 31 /\ m \in {1, 2}
        BY <1>11, <2>1, SMT
      <3>5. QED
        BY <2>1, <3>3, <3>4, DaysOfMonth, SMT
    <2>5. Year(y, m) = yy /\ Month(m) = k + 3
      BY <2>1, <2>2, SMT DEF Year, Month
    <2>6. DayOf(y, m, d) = mjd
      <3>1. DayOf(y, m, d) = Before(yy) + (Offset(k + 3) + d - 31) - Mjd0
        BY <2>5, Zenon DEF DayOf, Within
      <3>2. QED
        BY <1>8, <1>11, <3>1, SMT DEF Before, Mjd0, Offset
    <2>7. IsDate(y, m, d)
      BY <1>11, <2>1, <2>2, <2>4, SMT DEF IsDate
    <2>8. d \in Nat
      BY <1>11, SMT
    <2>9. QED
      BY <2>1, <2>3, <2>6, <2>7, <2>8
  <1> QED
    BY <1>11, <1>13, <1>14, SMT

\* A date by the year from March on, and its place in it.
LEMMA Placed ==
  ASSUME NEW y \in Nat, NEW m \in Nat, NEW d \in Nat, IsDate(y, m, d)
  PROVE  \E u \in Int, p \in Int, b \in Int :
           /\ u = Year(y, m) /\ u = y - (IF m < 3 THEN 1 ELSE 0)
           /\ p = Within(m, d) /\ p >= 0 /\ p <= 365
           /\ p = 365 => Wall!Leaps(u + 1)
           /\ p >= 306 <=> m < 3
           /\ b = Before(u) /\ DayOf(y, m, d) = b + p - Mjd0
  <1>1. PICK u \in Int, mm \in Int : u = Year(y, m) /\ mm = Month(m)
                                     /\ u = y - (IF m < 3 THEN 1 ELSE 0)
                                     /\ mm = m + (IF m < 3 THEN 12 ELSE 0)
    BY SMT DEF Year, Month
  <1>2. PICK q \in Int : q = Offset(mm) + d - 31
    BY SMT DEF Offset
  <1>3. q = Within(m, d)
    BY <1>1, <1>2, Zenon DEF Within
  <1>4. 1 <= m /\ m <= 12 /\ 1 <= d /\ d <= Wall!Days(y, m)
    BY DEF IsDate
  <1>5. /\ d <= 31 /\ (m \in {4, 6, 9, 11} => d <= 30) /\ (m = 2 => d <= 29)
        /\ m = 2 /\ d = 29 => Wall!Leaps(y)
    BY <1>4, DaysOfMonth, SMT
  <1>6. q >= 0 /\ q <= 365 /\ (q = 365 => m = 2 /\ d = 29) /\ (q >= 306 <=> m < 3)
    BY <1>1, <1>2, <1>4, <1>5, SMT DEF Offset
  <1>7. q = 365 => Wall!Leaps(u + 1)
    <2>1. m = 2 => u + 1 = y
      BY <1>1, SMT
    <2>2. QED
      BY <1>5, <1>6, <2>1
  <1>8. PICK b \in Int : b = Before(u)
    BY SMT DEF Before
  <1>9. DayOf(y, m, d) = b + q - Mjd0
    BY <1>1, <1>3, <1>8, Zenon DEF DayOf
  <1>10. QED
    BY <1>1, <1>3, <1>6, <1>7, <1>8, <1>9, SMT

\* A year has more days before it than the last one, by 365 at least.
LEMMA Grows ==
  ASSUME NEW y \in Int, NEW z \in Int, y < z
  PROVE  /\ Before(y) \in Int /\ Before(z) \in Int
         /\ Before(z) >= Before(y) + 365
         /\ Wall!Leaps(y + 1) => Before(z) >= Before(y) + 366
  BY SMTT(60) DEF Before, Wall!Leaps

\* In a year, the day tells the month and the day of the month.
LEMMA SameMonth ==
  ASSUME NEW m \in Nat, NEW d \in Nat, NEW n \in Nat, NEW e \in Nat,
         1 <= m, m <= 12, 1 <= n, n <= 12, 1 <= d, d <= 31, 1 <= e, e <= 31,
         Within(m, d) = Within(n, e),
         m = 2 => d <= 29, m \in {4, 6, 9, 11} => d <= 30,
         n = 2 => e <= 29, n \in {4, 6, 9, 11} => e <= 30
  PROVE  m = n /\ d = e
  BY SMT DEF Within, Month, Offset

\* No two dates are the same day.
LEMMA Unique ==
  ASSUME NEW y \in Nat, NEW m \in Nat, NEW d \in Nat, IsDate(y, m, d),
         NEW z \in Nat, NEW n \in Nat, NEW e \in Nat, IsDate(z, n, e),
         DayOf(y, m, d) = DayOf(z, n, e)
  PROVE  y = z /\ m = n /\ d = e
  <1>1. PICK u \in Int, p \in Int, b \in Int :
           /\ u = Year(y, m) /\ u = y - (IF m < 3 THEN 1 ELSE 0)
           /\ p = Within(m, d) /\ p >= 0 /\ p <= 365
           /\ p = 365 => Wall!Leaps(u + 1)
           /\ p >= 306 <=> m < 3
           /\ b = Before(u) /\ DayOf(y, m, d) = b + p - Mjd0
    BY Placed
  <1>2. PICK v \in Int, q \in Int, c \in Int :
           /\ v = Year(z, n) /\ v = z - (IF n < 3 THEN 1 ELSE 0)
           /\ q = Within(n, e) /\ q >= 0 /\ q <= 365
           /\ q = 365 => Wall!Leaps(v + 1)
           /\ q >= 306 <=> n < 3
           /\ c = Before(v) /\ DayOf(z, n, e) = c + q - Mjd0
    BY Placed
  <1>3. b + p = c + q
    <2>1. b + p - Mjd0 = c + q - Mjd0
      BY <1>1, <1>2
    <2>2. QED
      BY <2>1, SMT DEF Mjd0
  <1>4. ~ (u < v)
    BY <1>1, <1>2, <1>3, Grows, SMT
  <1>5. ~ (v < u)
    BY <1>1, <1>2, <1>3, Grows, SMT
  <1>6. u = v /\ b = c
    <2>1. u = v
      BY <1>4, <1>5, SMT
    <2>2. QED
      BY <1>1, <1>2, <2>1
  <1>7. p = q
    BY <1>3, <1>6, SMT
  <1>8. m = n /\ d = e
    <2>1. Within(m, d) = Within(n, e)
      BY <1>1, <1>2, <1>7
    <2>2. /\ 1 <= m /\ m <= 12 /\ 1 <= d /\ d <= Wall!Days(y, m)
          /\ 1 <= n /\ n <= 12 /\ 1 <= e /\ e <= Wall!Days(z, n)
      BY DEF IsDate
    <2>3. d <= 31 /\ (m = 2 => d <= 29) /\ (m \in {4, 6, 9, 11} => d <= 30)
      BY <2>2, DaysOfMonth, SMT
    <2>4. e <= 31 /\ (n = 2 => e <= 29) /\ (n \in {4, 6, 9, 11} => e <= 30)
      BY <2>2, DaysOfMonth, SMT
    <2>5. QED
      BY <2>1, <2>2, <2>3, <2>4, SameMonth
  <1>9. QED
    BY <1>1, <1>2, <1>6, <1>8, SMT

\* mjdToBcdDate finds the date whose day it is.
LEMMA DateOf ==
  ASSUME NEW y \in Nat, NEW m \in Nat, NEW d \in Nat, IsDate(y, m, d),
         NEW k \in Int, k = DayOf(y, m, d), FirstDay <= k, k <= LastDay
  PROVE  mjdToBcdDate(k) = bcddate(y, m, d)
  <1>1. PICK z \in Nat, n \in Nat, e \in Nat :
          IsDate(z, n, e) /\ mjdToBcdDate(k) = bcddate(z, n, e) /\ DayOf(z, n, e) = k
    BY DateParts
  <1>2. y = z /\ m = n /\ d = e
    BY <1>1, Unique
  <1>3. QED
    BY <1>1, <1>2

\* The date after a date is the day after.
LEMMA DayAfter ==
  ASSUME NEW y \in Nat, NEW m \in Nat, NEW d \in Nat, IsDate(y, m, d)
  PROVE  /\ DayOf(y, m, d + 1) = DayOf(y, m, d) + 1
         /\ d = Wall!Days(y, m) /\ m < 12 => DayOf(y, m + 1, 1) = DayOf(y, m, d) + 1
         /\ d = Wall!Days(y, m) /\ m = 12 => DayOf(y + 1, 1, 1) = DayOf(y, m, d) + 1
  <1>1. DayOf(y, m, d + 1) = DayOf(y, m, d) + 1
    <2>1. PICK a \in Int, w \in Int : a = Before(Year(y, m)) /\ w = Offset(Month(m))
      <3>1. PICK u \in Int, mm \in Int : u = Year(y, m) /\ mm = Month(m)
        BY SMT DEF Year, Month
      <3>2. Before(u) \in Int /\ Offset(mm) \in Int
        BY SMT DEF Before, Offset
      <3>3. QED
        BY <3>1, <3>2
    <2>2. DayOf(y, m, d) = a + (w + d - 31) - Mjd0 /\ DayOf(y, m, d + 1) = a + (w + (d + 1) - 31) - Mjd0
      BY <2>1, Zenon DEF DayOf, Within
    <2>3. QED
      BY <2>1, <2>2, SMT DEF Mjd0
  <1>2. ASSUME d = Wall!Days(y, m), m < 12 PROVE DayOf(y, m + 1, 1) = DayOf(y, m, d) + 1
    <2>0. 1 <= m /\ m <= 12
      BY DEF IsDate
    <2>1. CASE m = 2
      <3>1. DayOf(y, 2, d) = Before(y - 1) + (367 + d - 31) - Mjd0 /\ DayOf(y, 3, 1) = Before(y) + 0 - Mjd0
        <4>1. Year(y, 2) = y - 1 /\ Month(2) = 14 /\ Year(y, 3) = y /\ Month(3) = 3
          BY SMT DEF Year, Month
        <4>2. Offset(14) = 367 /\ Offset(3) + 1 - 31 = 0
          BY SMT DEF Offset
        <4>3. QED
          BY <4>1, <4>2 DEF DayOf, Within
      <3>2. Before(y) - Before(y - 1) = IF Wall!Leaps(y) THEN 366 ELSE 365
        BY SMT DEF Before, Wall!Leaps
      <3>3. d = IF Wall!Leaps(y) THEN 29 ELSE 28
        BY <1>2, <2>1, DaysOfMonth
      <3>4. PICK a \in Int, b \in Int : a = Before(y) /\ b = Before(y - 1)
        BY SMT DEF Before
      <3>5. a = b + d + 337
        BY <3>2, <3>3, <3>4, SMT
      <3>6. Before(y) + 0 - Mjd0 = Before(y - 1) + (367 + d - 31) - Mjd0 + 1
        BY <3>4, <3>5, SMT DEF Mjd0
      <3>7. QED
        BY <2>1, <3>1, <3>6
    <2>2. CASE m # 2
      <3>1. PICK w \in Int, x \in Int : w = Offset(Month(m)) /\ x = Offset(Month(m + 1)) /\ x = w + d
        <4>1. d = IF m \in {4, 6, 9, 11} THEN 30 ELSE 31
          BY <1>2, <2>0, <2>2, DaysOfMonth, SMT
        <4>2. QED
          BY <1>2, <2>0, <2>2, <4>1, SMT DEF Offset, Month
      <3>2. PICK u \in Int, a \in Int : u = Year(y, m) /\ u = Year(y, m + 1) /\ a = Before(u)
        BY <2>0, <2>2, SMT DEF Year, Before
      <3>3. DayOf(y, m, d) = a + (w + d - 31) - Mjd0 /\ DayOf(y, m + 1, 1) = a + (x + 1 - 31) - Mjd0
        BY <3>1, <3>2 DEF DayOf, Within
      <3>4. QED
        BY <3>1, <3>3, SMT DEF Mjd0
    <2>3. QED
      BY <2>1, <2>2
  <1>3. ASSUME d = Wall!Days(y, m), m = 12 PROVE DayOf(y + 1, 1, 1) = DayOf(y, m, d) + 1
    <2>1. d = 31
      BY <1>3, DaysOfMonth, SMT
    <2>2. Year(y + 1, 1) = y /\ Month(1) = 13 /\ Year(y, 12) = y /\ Month(12) = 12
      BY SMT DEF Year, Month
    <2>3. Offset(13) = 336 /\ Offset(12) = 305
      BY SMT DEF Offset
    <2>4. DayOf(y + 1, 1, 1) = Before(y) + (336 + 1 - 31) - Mjd0 /\ DayOf(y, 12, 31) = Before(y) + (305 + 31 - 31) - Mjd0
      BY <2>2, <2>3 DEF DayOf, Within
    <2>5. PICK a \in Int : a = Before(y)
      BY SMT DEF Before
    <2>6. QED
      BY <1>3, <2>1, <2>4, <2>5, SMT DEF Mjd0
  <1> QED
    BY <1>1, <1>2, <1>3

\* mjdToBcdDate and bcdDateToMjd are inverse, and the calendar of the one is
\* that on the wall.
LEMMA Back ==
  ASSUME NEW mjd \in Int, FirstDay <= mjd, mjd <= LastDay
  PROVE  bcdDateToMjd(mjdToBcdDate(mjd)) = mjd
  <1>1. PICK y \in Nat, m \in Nat, d \in Nat :
          IsDate(y, m, d) /\ mjdToBcdDate(mjd) = bcddate(y, m, d) /\ DayOf(y, m, d) = mjd
    BY DateParts
  <1>2. y < YearLimit /\ 1 <= m /\ m <= 12 /\ 1 <= d /\ d <= Wall!Days(y, m)
    BY <1>1 DEF IsDate
  <1>3. d <= 31
    BY <1>2, DaysOfMonth, SMT
  <1>4. QED
    BY <1>1, <1>2, <1>3, MjdOf

-----------------------------------------------------------------------------
(* The centuries.                                                          *)

Early(y, m) == y = 0 /\ m < 3

\* A date of another century against the one of 2000 to 2099 the chip shows.
LEMMA Hundreds ==
  ASSUME NEW c \in Nat, 19 <= c, c <= 22, NEW y \in Nat, y < 100,
         NEW m \in Nat, 1 <= m, m <= 12, NEW d \in Nat, 1 <= d, d <= 31, m = 2 => d <= 29
  PROVE  \E k \in Int, n \in Int :
           /\ k = DayOf(100 * c + y, m, d) /\ n = DayOf(2000 + y, m, d)
           /\ Early(y, m) <=> n <= 51603
           /\ n = 51603 => y = 0 /\ m = 2 /\ d = 29
           /\ Early(y, m) => n - k = CASE c = 19 -> 36524 [] c = 20 -> 0 [] c = 21 -> -36525 [] OTHER -> -73049
           /\ ~Early(y, m) => n - k = CASE c = 19 -> 36525 [] c = 20 -> 0 [] c = 21 -> -36524 [] OTHER -> -73048
  <1>1. PICK w \in Int : w = Within(m, d) /\ w = (IF m < 3 THEN 306 + 31 * (m - 1) ELSE (3059 * (m - 2)) \div 100 - 31) + (IF m < 3 THEN d - 1 ELSE d)
    BY SMT DEF Within, Offset, Month
  <1>2. PICK u \in Int : u = IF m < 3 THEN y - 1 ELSE y
    BY SMT
  <1>3. Year(100 * c + y, m) = 100 * c + u /\ Year(2000 + y, m) = 2000 + u
    BY <1>2, SMT DEF Year
  <1>4. PICK a \in Int, b \in Int : a = Before(100 * c + u) /\ b = Before(2000 + u)
    BY SMT DEF Before
  <1>5. u = -1 => b - a = CASE c = 19 -> 36524 [] c = 20 -> 0 [] c = 21 -> -36525 [] OTHER -> -73049
    BY <1>4, SMT DEF Before
  <1>6. ASSUME u # -1
        PROVE  b - a = CASE c = 19 -> 36525 [] c = 20 -> 0 [] c = 21 -> -36524 [] OTHER -> -73048
    <2>1. u >= 0 /\ u < 100
      BY <1>2, <1>6, SMT
    <2>2. CASE c = 19
      BY <1>4, <2>1, <2>2, SMT DEF Before
    <2>3. CASE c = 20
      BY <1>4, <2>1, <2>3, SMT DEF Before
    <2>4. CASE c = 21
      BY <1>4, <2>1, <2>4, SMT DEF Before
    <2>5. CASE c = 22
      BY <1>4, <2>1, <2>5, SMT DEF Before
    <2>6. QED
      BY <2>2, <2>3, <2>4, <2>5, SMT
  <1>7. PICK k \in Int, n \in Int : k = a + w - 678881 /\ n = b + w - 678881
    BY SMT
  <1>8. k = DayOf(100 * c + y, m, d) /\ n = DayOf(2000 + y, m, d)
    BY <1>1, <1>3, <1>4, <1>7, SMT DEF DayOf, Mjd0
  <1>9. b = 730000 + 365 * u + u \div 4 + 500 - (20 + u \div 100) + (5 + u \div 400)
    BY <1>4, SMT DEF Before
  <1>10. Early(y, m) <=> n <= 51603
    BY <1>1, <1>2, <1>7, <1>9, SMT DEF Early
  <1>11. n = 51603 => y = 0 /\ m = 2 /\ d = 29
    BY <1>1, <1>2, <1>7, <1>9, SMT
  <1>12. Early(y, m) <=> u = -1
    BY <1>2, SMT DEF Early
  <1>13. QED
    BY <1>5, <1>6, <1>7, <1>8, <1>10, <1>11, <1>12, SMT

Calendar99(y, m, d, w) == [years |-> dtob(y), months |-> dtob(m), days |-> dtob(d), weekdays |-> w]

\* The registers adjustBcdDate writes for a date.
LEMMA Registered ==
  ASSUME NEW c \in Nat, c < 100, NEW y \in Nat, y < 100, NEW m \in Nat, 1 <= m, m <= 12,
         NEW d \in Nat, 1 <= d, d <= 31
  PROVE  DateRegisters(bcddate(100 * c + y, m, d)) = Calendar99(y, m, d, (DayOf(100 * c + y, m, d) + 3) % 7)
  <1>1. PICK z \in Nat : z = 100 * c + y /\ z < YearLimit /\ z % 100 = y
    BY SMT DEF YearLimit
  <1> DEFINE b == bcddate(z, m, d)
  <1>2. b.year % 256 = dtob(y) /\ b.month = dtob(m) /\ b.day = dtob(d)
    <2>1. wdtob(z) % 256 = dtob(z % 100)
      BY <1>1, Words
    <2>2. QED
      BY <1>1, <2>1 DEF bcddate
  <1>3. bcdDateToMjd(b) = DayOf(z, m, d)
    BY <1>1, MjdOf
  <1> HIDE DEF b
  <1>4. DateRegisters(b) = Calendar99(y, m, d, (DayOf(z, m, d) + 3) % 7)
    BY <1>2, <1>3 DEF DateRegisters, bcdDateToWeekday, Calendar99
  <1>5. QED
    BY <1>1, <1>4 DEF b

\* The date getBcdDateTimeNow makes of such registers: one of 2000 to 2099.
LEMMA Shown ==
  ASSUME NEW y \in Nat, y < 100, NEW m, NEW d, NEW w
  PROVE  DateNow(Calendar99(y, m, d, w)) = bcddate(2000 + y, m, d)
  <1>1. PICK z \in Nat : z = 2000 + y /\ z < YearLimit /\ z % 100 = y /\ z \div 100 = 20
    BY SMT DEF YearLimit
  <1>2. wdtob(z) = 256 * 32 + dtob(y)
    <2>1. dtob(20) = 32
      BY SMT DEF dtob
    <2>2. wdtob(z) = 256 * dtob(20) + dtob(y)
      BY <1>1 DEF wdtob
    <2>3. QED
      BY <2>1, <2>2
  <1>3. wdtob(2000 + y) = 32 * 256 + dtob(y)
    <2>1. 256 * 32 = 32 * 256
      BY SMT
    <2>2. QED
      BY <1>1, <1>2, <2>1
  <1>4. QED
    BY <1>3 DEF DateNow, Calendar99, bcddate

\* getCenturyDate on such registers, by weekday and date of 2000 to 2099.
LEMMA ReadBy ==
  ASSUME NEW r, NEW n, n = bcdDateToMjd(DateNow(r)),
         NEW weeks, weeks = (mjdToWeekday(n) + 7 - r.weekdays) % 7
  PROVE  /\ getCenturyDate(r).date =
              IF weeks = 0 THEN DateNow(r)
              ELSE mjdToBcdDate(n + (IF n <= 51603 THEN Shift(weeks) ELSE ShiftMarch(weeks)))
         /\ getCenturyDate(r).fix <=> (weeks # 0 /\ n = 51603 /\ r.months = 2 /\ r.days = 41)
  <1> DEFINE date == IF weeks = 0 THEN DateNow(r)
                     ELSE mjdToBcdDate(n + (IF n <= 51603 THEN Shift(weeks) ELSE ShiftMarch(weeks)))
             fix  == weeks # 0 /\ n = 51603 /\ r.months = 2 /\ r.days = 41
  <1>1. getCenturyDate(r) = [date |-> date, fix |-> fix]
    BY SMT DEF getCenturyDate
  <1>2. fix \in BOOLEAN
    OBVIOUS
  <1> HIDE DEF date, fix
  <1>3. getCenturyDate(r).date = date
    BY <1>1
  <1>4. getCenturyDate(r).fix = fix
    BY <1>1
  <1>5. getCenturyDate(r).fix <=> fix
    BY <1>2, <1>4
  <1> USE DEF date, fix
  <1>6. QED
    BY <1>3, <1>5, SMT

\* What is read when the chip shows the date of day k, or 29 February for the
\* first of March.
LEMMA Reads ==
  ASSUME NEW c \in Nat, 19 <= c, c <= 22, NEW y \in Nat, y < 100,
         NEW m \in Nat, 1 <= m, m <= 12, NEW d \in Nat, 1 <= d, d <= 31, m = 2 => d <= 29,
         NEW k \in Int, k = DayOf(100 * c + y, m, d), FirstCentury <= k, k <= LastCentury,
         c = 20 => IsDate(2000 + y, m, d)
  PROVE  /\ getCenturyDate(Calendar99(y, m, d, (k + 3) % 7)).date = mjdToBcdDate(k)
         /\ getCenturyDate(Calendar99(y, m, d, (k + 3) % 7)).fix <=> (c # 20 /\ y = 0 /\ m = 2 /\ d = 29)
  <1> DEFINE r == Calendar99(y, m, d, (k + 3) % 7)
  <1>1. PICK n \in Int :
           /\ n = DayOf(2000 + y, m, d)
           /\ Early(y, m) <=> n <= 51603
           /\ n = 51603 => y = 0 /\ m = 2 /\ d = 29
           /\ Early(y, m) => n - k = CASE c = 19 -> 36524 [] c = 20 -> 0 [] c = 21 -> -36525 [] OTHER -> -73049
           /\ ~Early(y, m) => n - k = CASE c = 19 -> 36525 [] c = 20 -> 0 [] c = 21 -> -36524 [] OTHER -> -73048
    BY Hundreds
  <1>2. DateNow(r) = bcddate(2000 + y, m, d)
    BY Shown
  <1>3. bcdDateToMjd(DateNow(r)) = n
    <2>1. PICK z \in Nat : z = 2000 + y /\ z < YearLimit
      BY SMT DEF YearLimit
    <2>2. QED
      BY <1>1, <1>2, <2>1, MjdOf
  <1>4. r.weekdays = (k + 3) % 7 /\ r.months = dtob(m) /\ r.days = dtob(d)
    BY DEF Calendar99
  <1> HIDE DEF r
  <1>5. PICK weeks \in Int : weeks = (((n + 3) % 7) + 7 - ((k + 3) % 7)) % 7 /\ weeks >= 0 /\ weeks <= 6
    BY SMT
  <1>6. weeks = (mjdToWeekday(n) + 7 - r.weekdays) % 7
    BY <1>4, <1>5 DEF mjdToWeekday
  <1>7. CASE c = 20
    <2>1. n = k /\ weeks = 0
      BY <1>1, <1>5, <1>7, SMT
    <2>2. getCenturyDate(r).date = DateNow(r) /\ ~getCenturyDate(r).fix
      BY <1>3, <1>6, <2>1, ReadBy
    <2>3. mjdToBcdDate(k) = bcddate(2000 + y, m, d)
      <3>1. PICK z \in Nat : z = 2000 + y
        BY SMT
      <3>2. FirstDay <= k /\ k <= LastDay
        BY SMT DEF FirstDay, LastDay, FirstCentury, LastCentury
      <3>3. IsDate(z, m, d) /\ k = DayOf(z, m, d)
        BY <1>1, <1>7, <2>1, <3>1
      <3>4. QED
        BY <3>1, <3>2, <3>3, DateOf
    <2>4. QED
      BY <1>2, <1>7, <2>2, <2>3 DEF r
  <1>8. CASE c # 20
    <2>1. weeks # 0 /\ n + (IF n <= 51603 THEN Shift(weeks) ELSE ShiftMarch(weeks)) = k
      <3>1. CASE Early(y, m) /\ c = 19
        BY <1>1, <1>5, <3>1, SMT DEF Shift
      <3>2. CASE Early(y, m) /\ c = 21
        BY <1>1, <1>5, <3>2, SMT DEF Shift
      <3>3. CASE Early(y, m) /\ c = 22
        BY <1>1, <1>5, <3>3, SMT DEF Shift
      <3>4. CASE ~Early(y, m) /\ c = 19
        BY <1>1, <1>5, <3>4, SMT DEF ShiftMarch
      <3>5. CASE ~Early(y, m) /\ c = 21
        BY <1>1, <1>5, <3>5, SMT DEF ShiftMarch
      <3>6. CASE ~Early(y, m) /\ c = 22
        BY <1>1, <1>5, <3>6, SMT DEF ShiftMarch
      <3>7. c = 19 \/ c = 21 \/ c = 22
        BY <1>8, SMT
      <3>8. QED
        BY <3>1, <3>2, <3>3, <3>4, <3>5, <3>6, <3>7
    <2>2. getCenturyDate(r).date = mjdToBcdDate(k)
      <3>1. getCenturyDate(r).date =
              IF weeks = 0 THEN DateNow(r)
              ELSE mjdToBcdDate(n + (IF n <= 51603 THEN Shift(weeks) ELSE ShiftMarch(weeks)))
        BY <1>3, <1>6, ReadBy
      <3>2. QED
        BY <2>1, <3>1, SMT
    <2>3. getCenturyDate(r).fix <=> (n = 51603 /\ m = 2 /\ d = 29)
      <3>1. getCenturyDate(r).fix <=> (weeks # 0 /\ n = 51603 /\ r.months = 2 /\ r.days = 41)
        BY <1>3, <1>6, ReadBy
      <3>2. (r.months = 2 <=> m = 2) /\ (r.days = 41 <=> d = 29)
        BY <1>4, Bytes, SMT
      <3>3. QED
        BY <2>1, <3>1, <3>2, SMT
    <2>4. y = 0 /\ m = 2 /\ d = 29 => n = 51603
      <3>1. Year(2000, 2) = 1999 /\ Month(2) = 14
        BY SMT DEF Year, Month
      <3>2. Before(1999) + (Offset(14) + 29 - 31) - Mjd0 = 51603
        BY SMT DEF Before, Offset, Mjd0
      <3>3. DayOf(2000, 2, 29) = Before(1999) + (Offset(14) + 29 - 31) - Mjd0
        BY <3>1 DEF DayOf, Within
      <3>4. QED
        BY <1>1, <3>2, <3>3, SMT
    <2>5. QED
      BY <1>1, <1>8, <2>2, <2>3, <2>4, SMT DEF r
  <1>9. QED
    BY <1>7, <1>8

\* The date (c is its century) a chip shows on day k: that day's, or 29
\* February when the century has none.
NoSuchDay(c, y, m, d) == c # 20 /\ y = 0 /\ m = 2 /\ d = 29
Shows(r, k, c, y, m, d) ==
  /\ 19 <= c /\ c <= 22 /\ y < 100 /\ 1 <= m /\ m <= 12 /\ 1 <= d /\ d <= 31
  /\ m = 2 => d <= 29
  /\ k = DayOf(100 * c + y, m, d) /\ r = Calendar99(y, m, d, (k + 3) % 7)
  /\ IsDate(100 * c + y, m, d) \/ NoSuchDay(c, y, m, d)

\* A chip just set to a day shows that day.
LEMMA Adjusted ==
  ASSUME NEW k \in Int, FirstCentury <= k, k <= LastCentury
  PROVE  \E c \in Nat, y \in Nat, m \in Nat, d \in Nat :
           Shows(DateRegisters(mjdToBcdDate(k)), k, c, y, m, d) /\ IsDate(100 * c + y, m, d)
  <1>1. FirstDay <= k /\ k <= LastDay
    BY SMT DEF FirstDay, LastDay, FirstCentury, LastCentury
  <1>2. PICK z \in Nat, m \in Nat, d \in Nat :
          IsDate(z, m, d) /\ mjdToBcdDate(k) = bcddate(z, m, d) /\ DayOf(z, m, d) = k
    BY <1>1, DateParts
  <1>3. z < YearLimit /\ 1 <= m /\ m <= 12 /\ 1 <= d /\ d <= Wall!Days(z, m)
    BY <1>2 DEF IsDate
  <1>4. d <= 31 /\ (m = 2 => d <= 29)
    BY <1>3, DaysOfMonth, SMT
  <1>5. 1900 <= z /\ z < 2300
    <2>1. PICK u \in Int, p \in Int, b \in Int :
             /\ u = z - (IF m < 3 THEN 1 ELSE 0) /\ p >= 0 /\ p <= 365
             /\ p >= 306 <=> m < 3
             /\ b = Before(u) /\ k = b + p - Mjd0
      BY <1>2, Placed
    <2>2. b = 365 * u + u \div 4 - u \div 100 + u \div 400
      BY <2>1 DEF Before
    <2>3. k = b + p - 678881
      BY <2>1 DEF Mjd0
    <2>4. QED
      BY <2>1, <2>2, <2>3, SMT DEF FirstCentury, LastCentury
  <1>6. PICK c \in Nat, y \in Nat : z = 100 * c + y /\ y < 100 /\ 19 <= c /\ c <= 22
    <2>1. z = 100 * (z \div 100) + (z % 100) /\ z \div 100 \in Nat /\ z % 100 \in Nat /\ z % 100 < 100
      BY SMT
    <2>2. 19 <= z \div 100 /\ z \div 100 <= 22
      BY <1>5, SMT
    <2>3. QED
      BY <2>1, <2>2
  <1>7. DateRegisters(bcddate(100 * c + y, m, d)) = Calendar99(y, m, d, (DayOf(100 * c + y, m, d) + 3) % 7)
    <2>1. c < 100
      BY <1>6, SMT
    <2>2. QED
      BY <1>3, <1>4, <1>6, <2>1, Registered
  <1>8. IsDate(100 * c + y, m, d) /\ k = DayOf(100 * c + y, m, d)
        /\ DateRegisters(mjdToBcdDate(k)) = Calendar99(y, m, d, (k + 3) % 7)
    BY <1>2, <1>6, <1>7
  <1>9. QED
    BY <1>3, <1>4, <1>6, <1>8 DEF Shows

\* What the chip makes of a day, its own leap years included.
LEMMA ChipDay ==
  ASSUME NEW y \in Nat, y < 100, NEW m \in Nat, 1 <= m, m <= 12,
         NEW d \in Nat, 1 <= d, d <= 31, NEW w
  PROVE  LET last == IF m = 2 THEN IF y % 4 = 0 THEN 29 ELSE 28
                     ELSE IF m \in {4, 6, 9, 11} THEN 30 ELSE 31
         IN  NextDay(Calendar99(y, m, d, w)) =
               IF d # last THEN Calendar99(y, m, d + 1, (w + 1) % 7)
               ELSE IF m < 12 THEN Calendar99(y, m + 1, 1, (w + 1) % 7)
               ELSE Calendar99((y + 1) % 100, 1, 1, (w + 1) % 7)
  <1> DEFINE r == Calendar99(y, m, d, w)
             last == IF m = 2 THEN IF y % 4 = 0 THEN 29 ELSE 28
                     ELSE IF m \in {4, 6, 9, 11} THEN 30 ELSE 31
  <1>1. /\ btod(r.years) = y /\ btod(r.months) = m /\ btod(r.days) = d
        /\ r.months = 2 <=> m = 2
    <2>1. m < 100 /\ d < 100
      BY SMT
    <2>2. /\ btod(dtob(y)) = y /\ btod(dtob(m)) = m /\ btod(dtob(d)) = d
          /\ dtob(m) = 2 <=> m = 2
      BY <2>1, Bytes
    <2>3. QED
      BY <2>2 DEF Calendar99
  <1>2. MonthDays(r) = last
    BY <1>1, SMT DEF MonthDays
  <1>3. dtob(1) = 1
    BY SMT DEF dtob
  <1>4. NextDay(r) = [r EXCEPT !.years = IF d = last /\ m = 12 THEN dtob((y + 1) % 100) ELSE @,
                               !.months = IF d = last /\ m = 12 THEN 1 ELSE IF d = last THEN dtob(m + 1) ELSE @,
                               !.days = IF d = last THEN 1 ELSE dtob(d + 1),
                               !.weekdays = (@ + 1) % 7]
    <2> HIDE DEF r, last
    <2>1. QED
      BY <1>1, <1>2 DEF NextDay
  <1>5. NextDay(r) = IF d # last THEN Calendar99(y, m, d + 1, (w + 1) % 7)
               ELSE IF m < 12 THEN Calendar99(y, m + 1, 1, (w + 1) % 7)
               ELSE Calendar99((y + 1) % 100, 1, 1, (w + 1) % 7)
    <2> HIDE DEF last
    <2>1. CASE d # last
      BY <1>4, <2>1 DEF Calendar99
    <2>2. CASE d = last /\ m < 12
      <3>1. m # 12
        BY <2>2, SMT
      <3>2. QED
        BY <1>3, <1>4, <2>2, <3>1 DEF Calendar99
    <2>3. CASE d = last /\ m = 12
      <3>1. ~ (m < 12)
        BY <2>3, SMT
      <3>2. QED
        BY <1>3, <1>4, <2>3, <3>1 DEF Calendar99
    <2>4. QED
      BY <2>1, <2>2, <2>3, SMT
  <1>6. QED
    BY <1>5

\* A chip that shows an existing date shows the next day a day later.
LEMMA ShownNext ==
  ASSUME NEW k \in Int, FirstCentury <= k, k + 1 <= LastCentury, NEW r,
         NEW c \in Nat, NEW y \in Nat, NEW m \in Nat, NEW d \in Nat,
         Shows(r, k, c, y, m, d), IsDate(100 * c + y, m, d)
  PROVE  \E cc \in Nat, yy \in Nat, mm \in Nat, dd \in Nat : Shows(NextDay(r), k + 1, cc, yy, mm, dd)
  <1> DEFINE last == IF m = 2 THEN IF y % 4 = 0 THEN 29 ELSE 28
                     ELSE IF m \in {4, 6, 9, 11} THEN 30 ELSE 31
             w == (k + 1 + 3) % 7
  <1>1. /\ 19 <= c /\ c <= 22 /\ y < 100 /\ 1 <= m /\ m <= 12 /\ 1 <= d /\ d <= 31
        /\ m = 2 => d <= 29
        /\ k = DayOf(100 * c + y, m, d) /\ r = Calendar99(y, m, d, (k + 3) % 7)
    BY DEF Shows
  <1>2. NextDay(r) = IF d # last THEN Calendar99(y, m, d + 1, w)
                     ELSE IF m < 12 THEN Calendar99(y, m + 1, 1, w)
                     ELSE Calendar99((y + 1) % 100, 1, 1, w)
    <2>1. (((k + 3) % 7) + 1) % 7 = w
      BY SMT
    <2>2. NextDay(r) = IF d # last THEN Calendar99(y, m, d + 1, (((k + 3) % 7) + 1) % 7)
                     ELSE IF m < 12 THEN Calendar99(y, m + 1, 1, (((k + 3) % 7) + 1) % 7)
                     ELSE Calendar99((y + 1) % 100, 1, 1, (((k + 3) % 7) + 1) % 7)
      BY <1>1, ChipDay
    <2> HIDE DEF last, w
    <2>3. QED
      BY <2>1, <2>2
  <1>3. PICK z \in Nat : z = 100 * c + y /\ z + 1 < YearLimit
    BY <1>1, SMT DEF YearLimit
  <1>4. /\ DayOf(z, m, d + 1) = k + 1
        /\ d = Wall!Days(z, m) /\ m < 12 => DayOf(z, m + 1, 1) = k + 1
        /\ d = Wall!Days(z, m) /\ m = 12 => DayOf(z + 1, 1, 1) = k + 1
    BY <1>1, <1>3, DayAfter
  <1>5. z < YearLimit /\ 1 <= m /\ m <= 12 /\ 1 <= d /\ d <= Wall!Days(z, m) /\ Wall!Days(z, m) \in Nat
    BY <1>1, <1>3, DaysOfMonth DEF IsDate
  <1>6. last # Wall!Days(z, m) => c # 20 /\ y = 0 /\ m = 2 /\ last = 29 /\ Wall!Days(z, m) = 28
    <2>1. Wall!Leaps(z) <=> y % 4 = 0 /\ (y # 0 \/ c = 20)
      BY <1>1, <1>3, SMT DEF Wall!Leaps
    <2>2. QED
      BY <1>1, <2>1, DaysOfMonth, SMT
  <1> HIDE DEF last, w
  <1>7. CASE d < Wall!Days(z, m)
    <2>1. d # last
      BY <1>1, <1>6, <1>7, SMT
    <2>2. NextDay(r) = Calendar99(y, m, d + 1, w)
      BY <1>2, <2>1
    <2>3. PICK e \in Nat : e = d + 1 /\ 1 <= e /\ e <= 31 /\ e <= Wall!Days(z, m)
      BY <1>5, <1>7, DaysOfMonth, SMT
    <2>4. m = 2 => e <= 29
      BY <1>5, <2>3, DaysOfMonth, SMT
    <2>5. IsDate(z, m, e)
      BY <1>5, <2>3 DEF IsDate
    <2>6. Shows(NextDay(r), k + 1, c, y, m, e)
      BY <1>1, <1>3, <1>4, <2>2, <2>3, <2>4, <2>5 DEF Shows, w
    <2>7. QED
      BY <2>6
  <1>8. CASE d = Wall!Days(z, m) /\ last # Wall!Days(z, m)
    <2>1. c # 20 /\ y = 0 /\ m = 2 /\ last = 29 /\ d = 28
      BY <1>6, <1>8
    <2>2. NextDay(r) = Calendar99(0, 2, 29, w) /\ DayOf(z, 2, 29) = k + 1
      <3>1. d # last /\ d + 1 = 29
        BY <2>1, SMT
      <3>2. QED
        BY <1>2, <1>4, <2>1, <3>1
    <2>3. Shows(NextDay(r), k + 1, c, 0, 2, 29)
      <3>1. 0 < 100 /\ 1 <= 2 /\ 2 <= 12 /\ 1 <= 29 /\ 29 <= 31 /\ 29 <= 29
        BY SMT
      <3>2. z = 100 * c + 0
        BY <1>3, <2>1
      <3>3. QED
        BY <1>1, <2>1, <2>2, <3>1, <3>2 DEF Shows, NoSuchDay, w
    <2>4. QED
      BY <2>3
  <1>9. CASE d = Wall!Days(z, m) /\ last = Wall!Days(z, m) /\ m < 12
    <2>1. PICK n \in Nat : n = m + 1 /\ 1 <= n /\ n <= 12
      BY <1>9, <1>5, SMT
    <2>2. NextDay(r) = Calendar99(y, n, 1, w) /\ DayOf(z, n, 1) = k + 1
      BY <1>2, <1>4, <1>9, <2>1
    <2>3. 1 <= 1 /\ 1 <= 31 /\ 1 <= 29 /\ 1 <= Wall!Days(z, n)
      BY <2>1, DaysOfMonth, SMT
    <2>4. IsDate(z, n, 1)
      BY <1>5, <2>1, <2>3 DEF IsDate
    <2>5. Shows(NextDay(r), k + 1, c, y, n, 1)
      BY <1>1, <1>3, <2>1, <2>2, <2>3, <2>4 DEF Shows, w
    <2>6. QED
      BY <2>5
  <1>10. CASE d = Wall!Days(z, m) /\ last = Wall!Days(z, m) /\ m = 12
    <2>1. DayOf(z + 1, 1, 1) = k + 1 /\ NextDay(r) = Calendar99((y + 1) % 100, 1, 1, w)
      <3>1. ~ (m < 12)
        BY <1>10, SMT
      <3>2. QED
        BY <1>2, <1>4, <1>10, <3>1
    <2>2. PICK cc \in Nat, yy \in Nat :
            yy = (y + 1) % 100 /\ z + 1 = 100 * cc + yy /\ yy < 100 /\ 19 <= cc /\ cc <= 22
      <3>1. CASE y < 99
        <4>1. (y + 1) % 100 = y + 1 /\ y + 1 \in Nat /\ y + 1 < 100
          BY <3>1, SMT
        <4>2. QED
          BY <1>1, <1>3, <4>1, SMT
      <3>2. CASE y = 99
        <4>1. c # 22
          <5>1. Year(2299, 12) = 2299 /\ Month(12) = 12
            BY SMT DEF Year, Month
          <5>2. DayOf(2299, 12, d) = Before(2299) + (Offset(12) + d - 31) - Mjd0
            BY <5>1 DEF DayOf, Within
          <5>3. Before(2299) + (Offset(12) + d - 31) - Mjd0 = 161085 + d
            BY SMT DEF Before, Offset, Mjd0
          <5>4. d = 31
            BY <1>10, <1>5, DaysOfMonth, SMT
          <5>5. c = 22 => z = 2299
            BY <1>3, <3>2, SMT
          <5>6. c = 22 => k = 161085 + d
            BY <1>1, <1>3, <1>10, <5>2, <5>3, <5>5
          <5>7. QED
            BY <5>4, <5>6, SMT DEF LastCentury
        <4>2. (y + 1) % 100 = 0 /\ z + 1 = 100 * (c + 1) + 0 /\ c + 1 \in Nat /\ 19 <= c + 1 /\ c + 1 <= 22 /\ 0 < 100
          BY <1>1, <1>3, <3>2, <4>1, SMT
        <4>3. QED
          BY <4>2
      <3>3. QED
        BY <1>1, <3>1, <3>2, SMT
    <2>3. 1 <= 1 /\ 1 <= 12 /\ 1 <= 31 /\ 1 <= 29 /\ 1 <= Wall!Days(z + 1, 1)
      <3>1. z + 1 \in Nat
        OBVIOUS
      <3>2. QED
        BY <3>1, DaysOfMonth, SMT
    <2>4. IsDate(z + 1, 1, 1)
      BY <1>3, <2>3 DEF IsDate
    <2>5. Shows(NextDay(r), k + 1, cc, yy, 1, 1)
      BY <2>1, <2>2, <2>3, <2>4 DEF Shows, w
    <2>6. QED
      BY <2>5
  <1>11. QED
    BY <1>1, <1>5, <1>7, <1>8, <1>9, <1>10, SMT

-----------------------------------------------------------------------------
(* Times of day.                                                           *)

\* The hour, minute and second of s, also behind n whole days.
LEMMA Clock ==
  ASSUME NEW n \in Nat, NEW s \in Nat, s < ADay, NEW e \in Nat, e = ADay * n + s
  PROVE  \E h \in Nat, m \in Nat, t \in Nat :
           /\ h < 24 /\ m < 60 /\ t < 60 /\ s = 3600 * h + 60 * m + t /\ h = s \div 3600
           /\ epochToBcdTime(e) = bcdtime(h, m, t) /\ epochToBcdTime(s) = bcdtime(h, m, t)
  <1>1. PICK h \in Nat, m \in Nat, t \in Nat :
           h < 24 /\ m < 60 /\ t < 60 /\ s = 3600 * h + 60 * m + t /\ h = s \div 3600
    <2>1. PICK h \in Nat, r \in Nat : h = s \div 3600 /\ s = 3600 * h + r /\ r < 3600 /\ h < 24
      BY SMT DEF ADay
    <2>2. \E m \in Nat, t \in Nat : r = 60 * m + t /\ t < 60 /\ m < 60
      <3>1. PICK m \in Int, t \in Int : m = r \div 60 /\ t = r % 60
        BY SMT
      <3>2. r = 60 * m + t /\ t < 60 /\ m < 60 /\ m \in Nat /\ t \in Nat
        BY <2>1, <3>1, SMT
      <3>3. QED
        BY <3>2
    <2>3. PICK m \in Nat, t \in Nat : r = 60 * m + t /\ t < 60 /\ m < 60
      BY <2>2
    <2>4. s = 3600 * h + 60 * m + t
      BY <2>1, <2>3, SMT
    <2>5. QED
      BY <2>1, <2>3, <2>4
  <1>2. (e \div 3600) % 24 = h /\ (e \div 60) % 60 = m /\ e % 60 = t
    <2>1. e \div 3600 = 24 * n + h
      BY <1>1, SMT DEF ADay
    <2>2. e \div 60 = 1440 * n + 60 * h + m
      BY <1>1, SMT DEF ADay
    <2>3. e % 60 = t
      BY <1>1, SMT DEF ADay
    <2>4. (24 * n + h) % 24 = h /\ (1440 * n + 60 * h + m) % 60 = m
      BY <1>1, SMT
    <2>5. QED
      BY <2>1, <2>2, <2>3, <2>4
  <1>3. epochToBcdTime(e) = bcdtime(h, m, t)
    BY <1>2 DEF epochToBcdTime
  <1>4. (s \div 3600) % 24 = h /\ (s \div 60) % 60 = m /\ s % 60 = t
    <2>1. s \div 3600 = h /\ s \div 60 = 60 * h + m /\ s % 60 = t
      BY <1>1, SMT
    <2>2. h % 24 = h /\ (60 * h + m) % 60 = m
      BY <1>1, SMT
    <2>3. QED
      BY <2>1, <2>2
  <1>5. epochToBcdTime(s) = bcdtime(h, m, t)
    BY <1>4 DEF epochToBcdTime
  <1>6. QED
    BY <1>1, <1>3, <1>5

\* A packed time of day is unpacked as it was packed.
LEMMA Unpacked ==
  ASSUME NEW h \in Nat, h < 24, NEW m \in Nat, m < 60, NEW t \in Nat, t < 60
  PROVE  /\ btod(bcdtime(h, m, t).hour) = h /\ btod(bcdtime(h, m, t).minute) = m
         /\ btod(bcdtime(h, m, t).second) = t
         /\ bcdTimeToEpoch(bcdtime(h, m, t)) = 3600 * h + 60 * m + t
  <1>1. h < 100 /\ m < 100 /\ t < 100
    BY SMT
  <1>2. btod(dtob(h)) = h /\ btod(dtob(m)) = m /\ btod(dtob(t)) = t
    BY <1>1, Bytes
  <1>3. /\ btod(bcdtime(h, m, t).hour) = h /\ btod(bcdtime(h, m, t).minute) = m
        /\ btod(bcdtime(h, m, t).second) = t
    BY <1>2 DEF bcdtime
  <1>4. h % 24 = h /\ m % 60 = m /\ t % 60 = t
    BY SMT
  <1>5. bcdTimeToEpoch(bcdtime(h, m, t)) = 3600 * h + 60 * m + t
    BY <1>3, <1>4 DEF bcdTimeToEpoch
  <1>6. QED
    BY <1>3, <1>5

\* What a clock with hands shows becomes the 24 hours of the day.
LEMMA Dial ==
  ASSUME NEW h \in Nat, h < 24
  PROVE  LET shown == dtob(((h + 11) % 12) + 1) + (IF h >= 12 THEN PM ELSE 0)
         IN  dtob((btod(shown % PM) % 12) + (IF (shown \div PM) % 2 = 1 THEN 12 ELSE 0)) = dtob(h)
  BY SMT DEF dtob, btod, PM

\* The time of day is packed and unpacked again, alone or behind n days.
LEMMA TimeBack ==
  ASSUME NEW n \in Nat, NEW s \in Nat, s < ADay, NEW e \in Nat, e = ADay * n + s
  PROVE  /\ epochToBcdTime(e) = epochToBcdTime(s) /\ bcdTimeToEpoch(epochToBcdTime(s)) = s
         /\ e \div ADay = n /\ e % ADay = s
  <1>1. PICK h \in Nat, m \in Nat, t \in Nat :
           /\ h < 24 /\ m < 60 /\ t < 60 /\ s = 3600 * h + 60 * m + t /\ h = s \div 3600
           /\ epochToBcdTime(e) = bcdtime(h, m, t) /\ epochToBcdTime(s) = bcdtime(h, m, t)
    BY Clock
  <1>2. bcdTimeToEpoch(bcdtime(h, m, t)) = s
    BY <1>1, Unpacked, SMT
  <1>3. e \div ADay = n /\ e % ADay = s
    BY SMT DEF ADay
  <1>4. QED
    BY <1>1, <1>2, <1>3, SMT

\* The epoch of a day and a second, and back.
LEMMA DayBack ==
  ASSUME NEW k \in Int, FirstDay <= k, k <= LastDay, NEW n \in Nat, k = n + Day0,
         NEW s \in Nat, s < ADay, NEW e \in Nat, e = ADay * n + s
  PROVE  /\ epochToMjd(e) = k
         /\ bcdToEpoch(mjdToBcdDate(k), epochToBcdTime(s)) = e
         /\ mjdToEpoch(k) = e - s
         /\ epochToWeekday(e) = mjdToWeekday(k)
  <1>1. e \div ADay = n /\ e % ADay = s /\ bcdTimeToEpoch(epochToBcdTime(s)) = s
    BY TimeBack
  <1>2. epochToMjd(e) = k
    BY <1>1, SMT DEF epochToMjd, Day0, ADay
  <1>3. bcdDateToMjd(mjdToBcdDate(k)) = k
    BY Back
  <1>4. bcdToEpoch(mjdToBcdDate(k), epochToBcdTime(s)) = e
    BY <1>1, <1>3, SMT DEF bcdToEpoch, ADay, Day0
  <1>5. mjdToEpoch(k) = e - s
    <2>1. bcdTimeToEpoch(bcdtime(0, 0, 0)) = 0
      <3>1. 0 \in Nat /\ 0 < 24 /\ 0 < 60 /\ 3600 * 0 + 60 * 0 + 0 = 0
        BY SMT
      <3>2. QED
        BY <3>1, Unpacked
    <2>2. QED
      BY <1>3, <2>1, SMT DEF mjdToEpoch, bcdToEpoch, ADay, Day0
  <1>6. epochToWeekday(e) = mjdToWeekday(k)
    <2>1. (n + 4) % 7 = (k + 3) % 7
      BY SMT DEF Day0
    <2>2. QED
      BY <1>1, <2>1, SMT DEF epochToWeekday, mjdToWeekday, ADay
  <1>7. QED
    BY <1>2, <1>4, <1>5, <1>6

-----------------------------------------------------------------------------
(* The clock that runs.                                                    *)

DateAt(k) == Decoded(mjdToBcdDate(k))
TimeAt(s) == LET t == epochToBcdTime(s) IN <<btod(t.hour), btod(t.minute), btod(t.second)>>

\* What Decoded shows of a day is its date.
LEMMA DateShown ==
  ASSUME NEW k \in Int, FirstDay <= k, k <= LastDay, NEW y \in Nat, NEW m \in Nat, NEW d \in Nat,
         IsDate(y, m, d), mjdToBcdDate(k) = bcddate(y, m, d)
  PROVE  DateAt(k) = <<y, m, d>> /\ m \in 1 .. 12 /\ d \in 1 .. 31
  <1>1. y < YearLimit /\ 1 <= m /\ m <= 12 /\ 1 <= d /\ d <= Wall!Days(y, m)
    BY DEF IsDate
  <1>2. d <= 31
    BY <1>1, DaysOfMonth, SMT
  <1>3. wbtod(wdtob(y)) = y
    BY <1>1, Words
  <1>4. btod(dtob(m)) = m /\ btod(dtob(d)) = d
    <2>1. m < 100 /\ d < 100
      BY <1>1, <1>2, SMT
    <2>2. QED
      BY <2>1, Bytes
  <1>5. DateAt(k) = <<y, m, d>>
    BY <1>3, <1>4 DEF DateAt, Decoded, bcddate
  <1>6. QED
    BY <1>1, <1>2, <1>5, SMT

\* The date of the next day is the next date of the calendar.
LEMMA Tomorrow ==
  ASSUME NEW k \in Int, FirstDay <= k, k + 1 <= LastDay
  PROVE  DateAt(k + 1) = Wall!NextDate(DateAt(k))
  <1>1. k <= LastDay /\ FirstDay <= k + 1 /\ k + 1 \in Int
    BY SMT DEF FirstDay, LastDay
  <1>2. PICK y \in Nat, m \in Nat, d \in Nat :
          IsDate(y, m, d) /\ mjdToBcdDate(k) = bcddate(y, m, d) /\ DayOf(y, m, d) = k
    BY <1>1, DateParts
  <1>3. PICK z \in Nat, n \in Nat, e \in Nat :
          IsDate(z, n, e) /\ mjdToBcdDate(k + 1) = bcddate(z, n, e) /\ DayOf(z, n, e) = k + 1
    BY <1>1, DateParts
  <1>4. DateAt(k) = <<y, m, d>> /\ DateAt(k + 1) = <<z, n, e>>
    BY <1>1, <1>2, <1>3, DateShown
  <1>5. /\ DayOf(y, m, d + 1) = k + 1
        /\ d = Wall!Days(y, m) /\ m < 12 => DayOf(y, m + 1, 1) = k + 1
        /\ d = Wall!Days(y, m) /\ m = 12 => DayOf(y + 1, 1, 1) = k + 1
    BY <1>2, DayAfter
  <1>6. y < YearLimit /\ 1 <= m /\ m <= 12 /\ 1 <= d /\ d <= Wall!Days(y, m)
    BY <1>2 DEF IsDate
  <1>7. Wall!Days(y, m) \in Nat
    BY <1>6, DaysOfMonth
  <1>8. CASE d < Wall!Days(y, m)
    <2>1. d + 1 \in Nat /\ 1 <= d + 1 /\ d + 1 <= Wall!Days(y, m)
      BY <1>7, <1>8, SMT
    <2>2. IsDate(y, m, d + 1)
      BY <1>6, <2>1 DEF IsDate
    <2>3. z = y /\ n = m /\ e = d + 1
      BY <1>3, <1>5, <2>1, <2>2, Unique
    <2>4. QED
      BY <1>4, <1>8, <2>3 DEF Wall!NextDate
  <1>9. CASE d = Wall!Days(y, m) /\ m < 12
    <2>1. m + 1 \in Nat /\ 1 <= m + 1 /\ m + 1 <= 12 /\ 1 \in Nat /\ 1 <= 1
      BY <1>9, SMT
    <2>2. 1 <= Wall!Days(y, m + 1)
      BY <2>1, DaysOfMonth, SMT
    <2>3. IsDate(y, m + 1, 1)
      BY <1>6, <2>1, <2>2 DEF IsDate
    <2>4. z = y /\ n = m + 1 /\ e = 1
      BY <1>3, <1>5, <1>9, <2>1, <2>3, Unique
    <2>5. ~ (d < Wall!Days(y, m))
      BY <1>7, <1>9, SMT
    <2>6. QED
      BY <1>4, <1>9, <2>4, <2>5 DEF Wall!NextDate
  <1>10. CASE d = Wall!Days(y, m) /\ m = 12
    <2>1. y + 1 \in Nat /\ 1 \in Nat /\ 1 <= 1 /\ 1 <= 12
      BY SMT
    <2>2. 1 <= Wall!Days(y + 1, 1)
      BY <2>1, DaysOfMonth, SMT
    <2>3. DayOf(y + 1, 1, 1) = k + 1
      BY <1>5, <1>10
    <2>4. y + 1 < YearLimit
      <3>1. SUFFICES ASSUME y + 1 >= YearLimit PROVE FALSE
        BY <2>1, SMT DEF YearLimit
      <3>2. y = 9999
        BY <3>1, <1>6, SMT DEF YearLimit
      <3>3. Year(10000, 1) = 9999 /\ Month(1) = 13
        BY SMT DEF Year, Month
      <3>4. DayOf(10000, 1, 1) = Before(9999) + (Offset(13) + 1 - 31) - Mjd0
        BY <3>3, SMT DEF DayOf, Within
      <3>5. Before(9999) + (Offset(13) + 1 - 31) - Mjd0 > LastDay
        BY SMT DEF Before, Offset, Mjd0, LastDay
      <3>6. QED
        BY <2>3, <3>2, <3>4, <3>5, SMT DEF LastDay
    <2>5. IsDate(y + 1, 1, 1)
      BY <2>1, <2>2, <2>4 DEF IsDate
    <2>6. z = y + 1 /\ n = 1 /\ e = 1
      BY <1>3, <2>1, <2>3, <2>5, Unique
    <2>7. ~ (d < Wall!Days(y, m)) /\ ~ (m < 12)
      BY <1>7, <1>10, SMT
    <2>8. QED
      BY <1>4, <1>10, <2>6, <2>7 DEF Wall!NextDate
  <1>11. QED
    BY <1>6, <1>7, <1>8, <1>9, <1>10, SMT

\* What is shown of a second is the time of day.
LEMMA TimeShown ==
  ASSUME NEW s \in Nat, s < ADay
  PROVE  \E h \in Nat, m \in Nat, t \in Nat :
           /\ h < 24 /\ m < 60 /\ t < 60 /\ s = 3600 * h + 60 * m + t
           /\ TimeAt(s) = <<h, m, t>>
  <1>1. s = ADay * 0 + s /\ 0 \in Nat
    BY SMT DEF ADay
  <1>2. PICK h \in Nat, m \in Nat, t \in Nat :
           /\ h < 24 /\ m < 60 /\ t < 60 /\ s = 3600 * h + 60 * m + t
           /\ epochToBcdTime(s) = bcdtime(h, m, t)
    BY <1>1, Clock, SMT
  <1>3. TimeAt(s) = <<h, m, t>>
    BY <1>2, Unpacked, SMT DEF TimeAt
  <1>4. QED
    BY <1>2, <1>3, SMT

\* The second after a second; the day ends with the last one.
LEMMA NextTimeOf ==
  ASSUME NEW s \in Nat, s < ADay
  PROVE  /\ (s + 1) % ADay \in Nat /\ (s + 1) % ADay < ADay
         /\ TimeAt((s + 1) % ADay) = Wall!NextTime(TimeAt(s))
         /\ TimeAt((s + 1) % ADay) = <<0, 0, 0>> <=> (s + 1) % ADay = 0
  <1>1. PICK u \in Nat : u = (s + 1) % ADay /\ u < ADay /\ (u = s + 1 \/ (u = 0 /\ s + 1 = ADay))
    BY SMT DEF ADay
  <1>2. PICK h \in Nat, m \in Nat, t \in Nat :
           /\ h < 24 /\ m < 60 /\ t < 60 /\ s = 3600 * h + 60 * m + t
           /\ TimeAt(s) = <<h, m, t>>
    BY TimeShown
  <1>3. PICK i \in Nat, n \in Nat, v \in Nat :
           /\ i < 24 /\ n < 60 /\ v < 60 /\ u = 3600 * i + 60 * n + v
           /\ TimeAt(u) = <<i, n, v>>
    BY <1>1, TimeShown
  <1>4. /\ t < 59 => i = h /\ n = m /\ v = t + 1
        /\ t = 59 /\ m < 59 => i = h /\ n = m + 1 /\ v = 0
        /\ t = 59 /\ m = 59 => i = (h + 1) % 24 /\ n = 0 /\ v = 0
        /\ (i = 0 /\ n = 0 /\ v = 0) <=> u = 0
    BY <1>1, <1>2, <1>3, SMT DEF ADay
  <1>5. TimeAt(u) = Wall!NextTime(TimeAt(s))
    <2>1. t < 59 \/ (t = 59 /\ m < 59) \/ (t = 59 /\ m = 59)
      BY <1>2, SMT
    <2>2. CASE t < 59
      <3>1. TimeAt(u) = <<h, m, t + 1>>
        BY <1>3, <1>4, <2>2
      <3>2. QED
        BY <1>2, <2>2, <3>1 DEF Wall!NextTime
    <2>3. CASE t = 59 /\ m < 59
      <3>1. TimeAt(u) = <<h, m + 1, 0>> /\ ~ (t < 59)
        BY <1>3, <1>4, <2>3
      <3>2. QED
        BY <1>2, <2>3, <3>1 DEF Wall!NextTime
    <2>4. CASE t = 59 /\ m = 59
      <3>1. TimeAt(u) = <<(h + 1) % 24, 0, 0>> /\ ~ (t < 59) /\ ~ (m < 59)
        BY <1>3, <1>4, <2>4
      <3>2. QED
        BY <1>2, <2>4, <3>1 DEF Wall!NextTime
    <2>5. QED
      BY <2>1, <2>2, <2>3, <2>4
  <1>6. TimeAt(u) = <<0, 0, 0>> <=> u = 0
    BY <1>3, <1>4, SMT
  <1>7. QED
    BY <1>1, <1>5, <1>6

\* What getCenturyDateTimeNow makes of a chip that shows day k.
LEMMA Looked ==
  ASSUME NEW k \in Int, FirstCentury <= k, k <= LastCentury, NEW r,
         NEW c \in Nat, NEW y \in Nat, NEW m \in Nat, NEW d \in Nat, Shows(r, k, c, y, m, d)
  PROVE  getCenturyDate(r).date = mjdToBcdDate(k) /\ (getCenturyDate(r).fix <=> NoSuchDay(c, y, m, d))
  <1>1. /\ 19 <= c /\ c <= 22 /\ y < 100 /\ 1 <= m /\ m <= 12 /\ 1 <= d /\ d <= 31
        /\ m = 2 => d <= 29
        /\ k = DayOf(100 * c + y, m, d) /\ r = Calendar99(y, m, d, (k + 3) % 7)
        /\ IsDate(100 * c + y, m, d) \/ NoSuchDay(c, y, m, d)
    BY DEF Shows
  <1>2. c = 20 => IsDate(2000 + y, m, d)
    <2>1. 100 * 20 = 2000
      BY SMT
    <2>2. QED
      BY <1>1, <2>1 DEF NoSuchDay
  <1>3. QED
    BY <1>1, <1>2, Reads DEF NoSuchDay

\* 29 February of a century without one is put right to 1 March, for which
\* the year stays what it is.
LEMMA PutRight ==
  ASSUME NEW k \in Int, FirstCentury <= k, k <= LastCentury, NEW r,
         NEW c \in Nat, NEW y \in Nat, NEW m \in Nat, NEW d \in Nat,
         Shows(r, k, c, y, m, d), NoSuchDay(c, y, m, d)
  PROVE  /\ DateRegisters(mjdToBcdDate(k)) = Calendar99(0, 3, 1, (k + 3) % 7)
         /\ Shows(DateRegisters(mjdToBcdDate(k)), k, c, 0, 3, 1) /\ IsDate(100 * c + 0, 3, 1)
  <1>1. /\ 19 <= c /\ c <= 22 /\ c # 20 /\ y = 0 /\ m = 2 /\ d = 29
        /\ k = DayOf(100 * c + y, m, d)
    BY DEF Shows, NoSuchDay
  <1>2. PICK z \in Nat : z = 100 * c + 0 /\ z = 100 * c + y /\ z + 1 < YearLimit
    BY <1>1, SMT DEF YearLimit
  <1>3. Wall!Days(z, 2) = 28
    <2>1. ~ Wall!Leaps(z)
      BY <1>1, <1>2, SMT DEF Wall!Leaps
    <2>2. QED
      BY <1>2, <2>1, DaysOfMonth, SMT
  <1>4. IsDate(z, 2, 28) /\ IsDate(z, 3, 1)
    <2>1. 1 <= Wall!Days(z, 3)
      BY <1>2, DaysOfMonth, SMT
    <2>2. z < YearLimit /\ 1 <= 2 /\ 2 <= 12 /\ 1 <= 28 /\ 28 <= 28 /\ 1 <= 3 /\ 3 <= 12 /\ 1 <= 1
      BY <1>2, SMT DEF YearLimit
    <2>3. QED
      BY <1>3, <2>1, <2>2 DEF IsDate
  <1>5. k = DayOf(z, 3, 1)
    <2>1. DayOf(z, 2, 28 + 1) = DayOf(z, 2, 28) + 1
      BY <1>2, <1>4, DayAfter
    <2>2. DayOf(z, 2 + 1, 1) = DayOf(z, 2, 28) + 1
      BY <1>2, <1>3, <1>4, DayAfter, SMT
    <2>3. 28 + 1 = 29 /\ 2 + 1 = 3
      BY SMT
    <2>4. k = DayOf(z, 2, 29)
      BY <1>1, <1>2
    <2>5. QED
      BY <2>1, <2>2, <2>3, <2>4
  <1>6. FirstDay <= k /\ k <= LastDay
    BY SMT DEF FirstDay, LastDay, FirstCentury, LastCentury
  <1>7. mjdToBcdDate(k) = bcddate(z, 3, 1)
    BY <1>4, <1>5, <1>6, DateOf
  <1>8. DateRegisters(bcddate(100 * c + 0, 3, 1)) = Calendar99(0, 3, 1, (DayOf(100 * c + 0, 3, 1) + 3) % 7)
    <2>1. c < 100 /\ 0 < 100 /\ 1 <= 3 /\ 3 <= 12 /\ 1 <= 1 /\ 1 <= 31
      BY <1>1, SMT
    <2>2. QED
      BY <2>1, Registered
  <1>9. DateRegisters(mjdToBcdDate(k)) = Calendar99(0, 3, 1, (k + 3) % 7)
    BY <1>2, <1>5, <1>7, <1>8
  <1>10. 0 < 100 /\ 1 <= 3 /\ 3 <= 12 /\ 1 <= 1 /\ 1 <= 31 /\ 1 <= 29
    BY SMT
  <1>11. QED
    BY <1>1, <1>2, <1>4, <1>5, <1>9, <1>10 DEF Shows

\* What of four registers has been taken over.
LEMMA CopiedParts ==
  ASSUME NEW y, NEW m, NEW d, NEW w, NEW yy, NEW mm, NEW dd, NEW other
  PROVE  /\ Copied(other, Calendar99(y, m, d, w), 4) = Calendar99(y, m, d, w)
         /\ Copied(Calendar99(y, m, d, w), other, 0) = Calendar99(y, m, d, w)
         /\ Copied(Calendar99(y, mm, dd, w), Calendar99(y, m, d, w), 3) = Calendar99(y, m, d, w)
  <1>1. 4 >= 1 /\ 4 >= 2 /\ 4 >= 3 /\ ~ (0 >= 1) /\ ~ (0 >= 2) /\ ~ (0 >= 3) /\ 0 # 4
        /\ 3 >= 1 /\ 3 >= 2 /\ 3 >= 3 /\ 3 # 4
    BY SMT
  <1>2. QED
    BY <1>1 DEF Copied, Calendar99

\* The chip shows the day it is, and an existing date once a pass got through,
\* as long as no correction was cut in two.
Days == /\ day \in Int /\ FirstCentury <= day /\ day <= LastCentury
        /\ sec \in Nat /\ sec < ADay
        /\ slipped \in BOOLEAN
ShowsDay == \E c \in Nat, y \in Nat, m \in Nat, d \in Nat :
          Shows(cal, day, c, y, m, d) /\ (pass = "whole" => IsDate(100 * c + y, m, d))
CInv == Days /\ (~ slipped => ShowsDay)

\* The clock is set right.
LEMMA InitRight == InitCentury => CInv
  <1> SUFFICES ASSUME InitCentury PROVE CInv
    OBVIOUS
  <1>1. day \in Int /\ FirstCentury <= day /\ day <= LastCentury
    <2>1. CASE day \in Starts
      <3>1. day \in Int /\ FirstCentury <= day /\ day + RunDays <= LastCentury /\ RunDays \in Nat
        BY <2>1, CenturyAssumption
      <3>2. QED
        BY <3>1, SMT DEF LastCentury
    <2>2. CASE day \in Watched
      <3>1. day \in Int /\ FirstCentury <= day /\ day < LastCentury
        BY <2>2, CenturyAssumption
      <3>2. QED
        BY <3>1, SMT DEF LastCentury
    <2>3. QED
      BY <2>1, <2>2 DEF InitCentury
  <1>2. sec \in Nat /\ sec < ADay
    <2>1. CASE sec = 0
      BY <2>1, SMT DEF ADay
    <2>2. CASE sec \in {3600 * h : h \in Hours}
      <3>1. PICK h \in Hours : sec = 3600 * h
        BY <2>2, SMT
      <3>2. h \in 0 .. 23
        BY CenturyAssumption, <3>1
      <3>3. QED
        BY <3>1, <3>2, SMT DEF ADay
    <2>3. QED
      BY <2>1, <2>2, SMT DEF InitCentury
  <1>3. cal = DateRegisters(mjdToBcdDate(day)) /\ pass = "none" /\ slipped = FALSE
    BY DEF InitCentury
  <1>4. PICK c \in Nat, y \in Nat, m \in Nat, d \in Nat :
          Shows(DateRegisters(mjdToBcdDate(day)), day, c, y, m, d)
    BY <1>1, Adjusted
  <1>5. ShowsDay
    BY <1>3, <1>4 DEF ShowsDay
  <1>6. QED
    BY <1>1, <1>2, <1>3, <1>5 DEF CInv, Days

\* A new day: the last one ended with an existing date, or a date is lost.
LEMMA NewDayRight ==
  ASSUME CInv, day + 1 <= LastCentury, NewDay,
         sec' \in Nat, sec' < ADay
  PROVE  CInv'
  <1>1. /\ day \in Int /\ FirstCentury <= day /\ day <= LastCentury /\ slipped \in BOOLEAN
        /\ day' = day + 1 /\ cal' = NextDay(cal) /\ pass' = "none"
        /\ slipped' = (slipped \/ (pass # "whole" /\ getCenturyDate(cal).fix))
    BY DEF CInv, Days, NewDay
  <1>2. Days'
    <2>1. day' \in Int /\ FirstCentury <= day' /\ day' <= LastCentury
      BY <1>1, SMT DEF FirstCentury
    <2>2. slipped' \in BOOLEAN
      BY <1>1, Zenon
    <2>3. QED
      BY <2>1, <2>2 DEF Days
  <1>3. ASSUME ~ slipped' PROVE ShowsDay'
    <2>1. ~ slipped /\ (pass = "whole" \/ ~ getCenturyDate(cal).fix)
      BY <1>1, <1>3, Zenon
    <2>2. PICK c \in Nat, y \in Nat, m \in Nat, d \in Nat :
            Shows(cal, day, c, y, m, d) /\ (pass = "whole" => IsDate(100 * c + y, m, d))
      BY <2>1 DEF CInv, ShowsDay
    <2>3. IsDate(100 * c + y, m, d)
      <3>1. CASE pass = "whole"
        BY <2>2, <3>1
      <3>2. CASE ~ getCenturyDate(cal).fix
        <4>1. ~ NoSuchDay(c, y, m, d)
          BY <1>1, <2>2, <3>2, Looked
        <4>2. QED
          BY <2>2, <4>1 DEF Shows
      <3>3. QED
        BY <2>1, <3>1, <3>2
    <2>4. PICK cc \in Nat, yy \in Nat, mm \in Nat, dd \in Nat : Shows(NextDay(cal), day + 1, cc, yy, mm, dd)
      BY <1>1, <2>2, <2>3, ShownNext
    <2>5. Shows(cal', day', cc, yy, mm, dd)
      BY <1>1, <2>4
    <2>6. QED
      BY <1>1, <2>5 DEF ShowsDay
  <1>4. QED
    BY <1>2, <1>3 DEF CInv

\* What a pass does to the chip.
LEMMA LookStep ==
  ASSUME Look
  PROVE  \E n \in 0 .. 4, k \in 0 .. 4 :
           /\ Fixes(n) => cal' = Copied(cal, DateRegisters(getCenturyDate(Copied(held, cal, n)).date), k)
           /\ ~ Fixes(n) => cal' = cal /\ k = 4
           /\ slipped' = (slipped \/ Slips(n, k))
           /\ pass' = "whole" => pass = "whole" \/ (n = 4 /\ k = 4)
  <1>1. PICK n \in 0 .. 4, k \in 0 .. 4 :
          /\ Poll(n, k)
          /\ k < 4 => Fixes(n)
          /\ pass' = IF n = 4 /\ k = 4 THEN "whole" ELSE IF pass = "none" THEN "broken" ELSE pass
          /\ slipped' = (slipped \/ Slips(n, k))
    BY DEF Look
  <1>2. Fixes(n) => cal' = Copied(cal, DateRegisters(getCenturyDate(Copied(held, cal, n)).date), k)
    BY <1>1 DEF Poll, Fixes
  <1>3. ~ Fixes(n) => cal' = cal
    BY <1>1 DEF Poll, Fixes
  <1>4. ~ Fixes(n) => k = 4
    BY <1>1, SMT
  <1>5. pass' = "whole" => pass = "whole" \/ (n = 4 /\ k = 4)
    BY <1>1
  <1>6. QED
    BY <1>1, <1>2, <1>3, <1>4, <1>5

\* A pass keeps it right: only 29 February of a century without one is put
\* right, and what is written of it is nothing, or the date but for its year.
LEMMA LookRight == ASSUME CInv, Look PROVE CInv'
  <1>1. /\ day \in Int /\ FirstCentury <= day /\ day <= LastCentury
        /\ sec \in Nat /\ sec < ADay /\ slipped \in BOOLEAN
    BY DEF CInv, Days
  <1>2. day' = day /\ sec' = sec
    BY DEF Look
  <1>3. PICK n \in 0 .. 4, k \in 0 .. 4 :
          /\ Fixes(n) => cal' = Copied(cal, DateRegisters(getCenturyDate(Copied(held, cal, n)).date), k)
          /\ ~ Fixes(n) => cal' = cal /\ k = 4
          /\ slipped' = (slipped \/ Slips(n, k))
          /\ pass' = "whole" => pass = "whole" \/ (n = 4 /\ k = 4)
    BY LookStep
  <1>4. slipped' \in BOOLEAN
    BY <1>3, Zenon
  <1>5. ASSUME ~ slipped' PROVE ShowsDay'
    <2>1. ~ slipped /\ ~ Slips(n, k)
      BY <1>3, <1>5, Zenon
    <2>2. PICK c \in Nat, y \in Nat, m \in Nat, d \in Nat :
            Shows(cal, day, c, y, m, d) /\ (pass = "whole" => IsDate(100 * c + y, m, d))
      BY <2>1 DEF CInv, ShowsDay
    <2>3. /\ getCenturyDate(cal).date = mjdToBcdDate(day)
          /\ getCenturyDate(cal).fix <=> NoSuchDay(c, y, m, d)
      BY <1>1, <2>2, Looked
    <2>4. cal = Calendar99(y, m, d, (day + 3) % 7)
      BY <2>2 DEF Shows
    <2>5. Copied(held, cal, 4) = cal /\ \A new : Copied(cal, new, 0) = cal
      BY <2>4, CopiedParts
    <2>6. CASE Fixes(n)
      <3>1. n = 4 /\ k \in {0, 3, 4}
        BY <2>1, <2>6, SMT DEF Slips
      <3>2. getCenturyDate(cal).fix
        BY <2>5, <2>6, <3>1 DEF Fixes
      <3>3. /\ DateRegisters(mjdToBcdDate(day)) = Calendar99(0, 3, 1, (day + 3) % 7)
            /\ Shows(DateRegisters(mjdToBcdDate(day)), day, c, 0, 3, 1) /\ IsDate(100 * c + 0, 3, 1)
        BY <1>1, <2>2, <2>3, <3>2, PutRight
      <3>4. cal' = Copied(cal, DateRegisters(mjdToBcdDate(day)), k)
        BY <1>3, <2>3, <2>5, <2>6, <3>1
      <3>5. CASE k = 0
        <4>1. cal' = cal
          BY <2>5, <3>4, <3>5
        <4>2. pass' = "whole" => IsDate(100 * c + y, m, d)
          BY <1>3, <2>2, <3>5, SMT
        <4>3. QED
          BY <1>2, <2>2, <4>1, <4>2 DEF ShowsDay
      <3>6. CASE k = 3 \/ k = 4
        <4>1. y = 0
          BY <2>3, <3>2 DEF NoSuchDay
        <4>2. cal' = DateRegisters(mjdToBcdDate(day))
          <5>1. CASE k = 3
            BY <2>4, <3>3, <3>4, <4>1, <5>1, CopiedParts
          <5>2. CASE k = 4
            BY <3>3, <3>4, <5>2, CopiedParts
          <5>3. QED
            BY <3>6, <5>1, <5>2
        <4>3. QED
          BY <1>2, <3>3, <4>2 DEF ShowsDay
      <3>7. QED
        BY <3>1, <3>5, <3>6
    <2>7. CASE ~ Fixes(n)
      <3>1. cal' = cal
        BY <1>3, <2>7
      <3>2. pass' = "whole" => IsDate(100 * c + y, m, d)
        <4>1. n = 4 => ~ NoSuchDay(c, y, m, d)
          BY <2>3, <2>5, <2>7 DEF Fixes
        <4>2. n = 4 => IsDate(100 * c + y, m, d)
          BY <2>2, <4>1 DEF Shows
        <4>3. QED
          BY <1>3, <2>2, <4>2
      <3>3. QED
        BY <1>2, <2>2, <3>1, <3>2 DEF ShowsDay
    <2>8. QED
      BY <2>6, <2>7
  <1>6. QED
    BY <1>1, <1>2, <1>4, <1>5 DEF CInv, Days

\* A midnight nobody watches.
LEMMA MidnightRight == ASSUME CInv, Midnight PROVE CInv' /\ day + 1 <= LastCentury
  <1>1. day \in Int /\ sec \in Nat /\ sec < ADay
    BY DEF CInv, Days
  <1>2. NewDay /\ sec' = sec
    BY DEF Midnight
  <1>3. day + 1 <= LastCentury
    <2>1. PICK s \in Starts : day \in s .. s + RunDays - 1
      BY DEF Midnight
    <2>2. s \in Int /\ RunDays \in Nat /\ s + RunDays <= LastCentury
      BY CenturyAssumption
    <2>3. QED
      BY <1>1, <2>1, <2>2, SMT DEF LastCentury
  <1>4. sec' \in Nat /\ sec' < ADay
    BY <1>1, <1>2
  <1>5. QED
    BY <1>2, <1>3, <1>4, NewDayRight

\* A second of a watched day.
LEMMA TickRight == ASSUME CInv, Second PROVE CInv' /\ day + 1 <= LastCentury
  <1>1. /\ day \in Int /\ FirstCentury <= day /\ day <= LastCentury /\ sec \in Nat /\ sec < ADay
    BY DEF CInv, Days
  <1>2. /\ sec' = (sec + 1) % ADay
        /\ IF sec' = 0 THEN NewDay ELSE UNCHANGED <<day, cal, held, pass, breaks, slipped>>
    BY DEF Second
  <1>3. day + 1 <= LastCentury
    <2>0. day \in Watched
      BY DEF Second, Followed
    <2>1. day < LastCentury
      BY <2>0, CenturyAssumption
    <2>2. QED
      BY <1>1, <2>1, SMT DEF LastCentury
  <1>4. sec' \in Nat /\ sec' < ADay
    BY <1>1, <1>2, NextTimeOf
  <1>5. CASE sec' = 0
    <2>1. NewDay
      BY <1>2, <1>5
    <2>2. QED
      BY <1>2, <1>3, <1>4, <2>1, NewDayRight
  <1>6. CASE sec' # 0
    <2>1. day' = day /\ cal' = cal /\ pass' = pass /\ slipped' = slipped
      BY <1>2, <1>6
    <2>2. QED
      BY <1>3, <1>4, <2>1 DEF CInv, Days, ShowsDay
  <1>7. QED
    BY <1>5, <1>6

\* Every step keeps the chip right.
LEMMA NextRight == ASSUME CInv, [NextCentury]_cvars PROVE CInv'
  <1>1. CASE UNCHANGED cvars
    BY <1>1 DEF CInv, Days, ShowsDay, cvars
  <1>2. QED
    BY <1>1, LookRight, MidnightRight, TickRight DEF NextCentury

\* The chip is right for ever.
LEMMA Always == SpecCentury => []CInv
  <1>1. InitCentury => CInv
    BY InitRight
  <1>2. CInv /\ [NextCentury]_cvars => CInv'
    BY NextRight
  <1>3. QED
    BY <1>1, <1>2, PTL DEF SpecCentury

\* On every such day the conversions have their inverses.
LEMMA DayKnown ==
  ASSUME CInv
  PROVE  /\ day \in Int /\ FirstDay <= day /\ day <= LastDay
         /\ sec \in Nat /\ sec < ADay
         /\ bcdDateToMjd(mjdToBcdDate(day)) = day
         /\ bcdTimeToEpoch(epochToBcdTime(sec)) = sec
  <1>1. /\ day \in Int /\ FirstCentury <= day /\ day <= LastCentury
        /\ sec \in Nat /\ sec < ADay
    BY DEF CInv, Days
  <1>2. FirstDay <= day /\ day <= LastDay
    BY <1>1, SMT DEF FirstDay, LastDay, FirstCentury, LastCentury
  <1>3. sec = ADay * 0 + sec /\ 0 \in Nat
    BY <1>1, SMT DEF ADay
  <1>4. bcdTimeToEpoch(epochToBcdTime(sec)) = sec
    BY <1>1, <1>3, TimeBack
  <1>5. QED
    BY <1>1, <1>2, <1>4, Back

\* What getCenturyDateTimeNow and getCenturyEpochNow return is the date and the
\* epoch it is, on every day and second from 1900 to 2299, whatever day the
\* clock was set and however long it has run since, as long as no transfer that
\* broke off has cut a correction of 29 February in two.
THEOREM CenturyIsKept == SpecCentury => []CenturyKept
  <1>1. CInv => CenturyKept
    <2> SUFFICES ASSUME CInv, ~ slipped
                 PROVE  /\ getCenturyDate(cal).date = mjdToBcdDate(day)
                        /\ getCenturyEpochNow(cal, epochToBcdTime(sec)) = Epoch
      BY DEF CenturyKept
    <2>1. /\ day \in Int /\ FirstCentury <= day /\ day <= LastCentury
      BY DEF CInv, Days
    <2>2. PICK c \in Nat, y \in Nat, m \in Nat, d \in Nat : Shows(cal, day, c, y, m, d)
      BY DEF CInv, ShowsDay
    <2>3. getCenturyDate(cal).date = mjdToBcdDate(day)
      BY <2>1, <2>2, Looked
    <2>4. getCenturyEpochNow(cal, epochToBcdTime(sec)) = Epoch
      <3>1. getCenturyEpochNow(cal, epochToBcdTime(sec))
              = bcdToEpoch(mjdToBcdDate(day), epochToBcdTime(sec))
        BY <2>3 DEF getCenturyEpochNow, bcdDateTimeToEpoch
      <3>2. bcdToEpoch(mjdToBcdDate(day), epochToBcdTime(sec)) = Epoch
        <4>1. /\ bcdDateToMjd(mjdToBcdDate(day)) = day
              /\ bcdTimeToEpoch(epochToBcdTime(sec)) = sec
          BY DayKnown
        <4>2. QED
          BY <4>1, SMT DEF bcdToEpoch, Epoch, ADay
      <3>3. QED
        BY <3>1, <3>2
    <2>5. QED
      BY <2>3, <2>4
  <1>2. QED
    BY <1>1, Always, PTL

\* The conversions of bcddatetime undo one another: MJD, packed date, epoch,
\* datetime_t, and the hour of a 12-hour clock, on all of these days.
THEOREM RoundTrips == SpecCentury => []RoundTrip
  <1>1. CInv => RoundTrip
    <2> SUFFICES ASSUME CInv PROVE RoundTrip
      OBVIOUS
    <2>1. /\ day \in Int /\ FirstDay <= day /\ day <= LastDay
          /\ sec \in Nat /\ sec < ADay
          /\ bcdDateToMjd(mjdToBcdDate(day)) = day
          /\ bcdTimeToEpoch(epochToBcdTime(sec)) = sec
      BY DayKnown
    <2>2. bcdDateToWeekday(mjdToBcdDate(day)) = mjdToWeekday(day)
      BY <2>1 DEF bcdDateToWeekday, mjdToWeekday
    <2>3. /\ bcdDateTimeToDateTime(Packed) = [date |-> day, time |-> sec]
          /\ dateTimeToBcdDateTime([date |-> day, time |-> sec]) = Packed
      BY <2>1 DEF bcdDateTimeToDateTime, dateTimeToBcdDateTime, Packed
    <2>4. bcdDateTime12to24(OnDial) = Packed
      <3>1. sec = ADay * 0 + sec /\ 0 \in Nat
        BY <2>1, SMT DEF ADay
      <3>2. PICK h \in Nat, m \in Nat, t \in Nat :
              /\ h < 24 /\ m < 60 /\ t < 60 /\ sec = 3600 * h + 60 * m + t /\ h = sec \div 3600
              /\ epochToBcdTime(sec) = bcdtime(h, m, t)
        BY <2>1, <3>1, Clock
      <3>3. h \in Nat /\ h < 24 /\ epochToBcdTime(sec) = bcdtime(h, m, t) /\ h = sec \div 3600
        BY <3>2, SMT
      <3>4. sec >= 43200 <=> h >= 12
        BY <2>1, <3>2, SMT
      <3> DEFINE shown == dtob(((h + 11) % 12) + 1) + (IF h >= 12 THEN PM ELSE 0)
      <3>5. HourOnDial = shown
        BY <3>3, <3>4, SMT DEF HourOnDial
      <3>6. dtob((btod(shown % PM) % 12) + (IF (shown \div PM) % 2 = 1 THEN 12 ELSE 0)) = dtob(h)
        BY <3>3, Dial
      <3> HIDE DEF shown
      <3> DEFINE w == [hour |-> shown, minute |-> dtob(m), second |-> dtob(t), wday |-> 0]
      <3>7. bcdTime12to24(w) = bcdtime(h, m, t)
        <4>1. w.hour = shown
          OBVIOUS
        <4>2. bcdTime12to24(w) = [w EXCEPT !.hour = dtob(h), !.wday = 0]
          BY <3>6, <4>1, Zenon DEF bcdTime12to24
        <4>3. QED
          BY <4>2 DEF bcdtime
      <3>8. OnDial = [date |-> mjdToBcdDate(day), time |-> w]
        BY <3>3, <3>5 DEF OnDial, Packed, bcdtime
      <3> HIDE DEF w
      <3>9. QED
        BY <3>3, <3>7, <3>8 DEF bcdDateTime12to24, Packed
    <2>5. ASSUME Unix
          PROVE  /\ epochToBcdDateTime(Epoch) = Packed
                 /\ bcdDateTimeToEpoch(Packed) = Epoch
                 /\ epochToDateTime(Epoch) = [date |-> day, time |-> sec]
                 /\ mjdToEpoch(day) = Epoch - sec
                 /\ epochToWeekday(Epoch) = mjdToWeekday(day)
      <3>1. PICK n \in Nat : day = n + Day0
        BY <2>1, <2>5, SMT DEF Unix, Day0
      <3>2. PICK e \in Nat : e = ADay * n + sec /\ e = Epoch
        BY <2>1, <3>1, SMT DEF Epoch, ADay, Day0
      <3>3. /\ epochToMjd(e) = day
            /\ bcdToEpoch(mjdToBcdDate(day), epochToBcdTime(sec)) = e
            /\ mjdToEpoch(day) = e - sec
            /\ epochToWeekday(e) = mjdToWeekday(day)
        BY <2>1, <3>1, <3>2, DayBack
      <3>4. epochToBcdTime(e) = epochToBcdTime(sec) /\ e % ADay = sec
        BY <2>1, <3>2, TimeBack
      <3>5. epochToBcdDateTime(e) = Packed
        BY <3>3, <3>4 DEF epochToBcdDateTime, epochToBcdDate, Packed
      <3>6. bcdDateTimeToEpoch(Packed) = e
        BY <3>3 DEF bcdDateTimeToEpoch, Packed
      <3>7. epochToDateTime(e) = [date |-> day, time |-> sec]
        BY <3>3, <3>4, SMT DEF epochToDateTime, ADay
      <3>8. QED
        BY <3>2, <3>3, <3>5, <3>6, <3>7, Zenon
    <2>6. bcdTimeToSeconds(epochToBcdDayTime(ADay * (day % 100) + sec)) = ADay * (day % 100) + sec
      <3>1. PICK n \in Nat : n = day % 100 /\ n < 100
        BY <2>1, SMT
      <3>2. PICK e \in Nat : e = ADay * n + sec
        BY <2>1, SMT DEF ADay
      <3>3. /\ epochToBcdTime(e) = epochToBcdTime(sec) /\ e \div ADay = n
        BY <2>1, <3>2, TimeBack
      <3>4. btod(dtob(n)) = n
        BY <3>1, Bytes
      <3> DEFINE t == epochToBcdTime(sec)
                 u == [t EXCEPT !.wday = dtob(n)]
      <3>5. epochToBcdDayTime(e) = u
        BY <3>3, SMT DEF epochToBcdDayTime, ADay
      <3>6. t = [hour |-> t.hour, minute |-> t.minute, second |-> t.second, wday |-> 0]
        BY DEF epochToBcdTime, bcdtime
      <3> HIDE DEF t
      <3>7. u.wday = dtob(n) /\ u.hour = t.hour /\ u.minute = t.minute /\ u.second = t.second
        BY <3>6
      <3> HIDE DEF u
      <3>8. bcdTimeToEpoch(u) = bcdTimeToEpoch(t)
        BY <3>7 DEF bcdTimeToEpoch
      <3>9. bcdTimeToSeconds(u) = e
        <4>1. bcdTimeToEpoch(t) = sec
          BY <2>1 DEF t
        <4>2. QED
          BY <3>2, <3>4, <3>7, <3>8, <4>1, SMT DEF bcdTimeToSeconds, ADay
      <3>10. QED
        BY <3>1, <3>2, <3>5, <3>9
    <2>7. QED
      BY <2>1, <2>2, <2>3, <2>4, <2>5, <2>6 DEF RoundTrip
  <1>2. QED
    BY <1>1, Always, PTL

\* The weekdays take turns.
LEMMA NextWeekday ==
  ASSUME NEW k \in Int
  PROVE  mjdToWeekday(k + 1) = (mjdToWeekday(k) + 1) % 7 /\ mjdToWeekday(k) \in 0 .. 6
  BY SMT DEF mjdToWeekday

\* The days and seconds that mjdToBcdDate, mjdToWeekday and epochToBcdTime show
\* go forward as the calendar and the clock on the wall do: no date is left out,
\* shown twice or made up, whichever of the years up to 2299 has a leap day.
THEOREM CalendarIsWall == SpecCentury => Calendar
  <1>1. CInv => /\ DateAt(day) \in Int \X (1 .. 12) \X (1 .. 31)
                /\ TimeAt(sec) \in (0 .. 23) \X (0 .. 59) \X (0 .. 59)
                /\ mjdToWeekday(day) \in 0 .. 6
    <2> SUFFICES ASSUME CInv
                 PROVE  /\ DateAt(day) \in Int \X (1 .. 12) \X (1 .. 31)
                        /\ TimeAt(sec) \in (0 .. 23) \X (0 .. 59) \X (0 .. 59)
                        /\ mjdToWeekday(day) \in 0 .. 6
      OBVIOUS
    <2>1. day \in Int /\ FirstDay <= day /\ day <= LastDay /\ sec \in Nat /\ sec < ADay
      BY DayKnown
    <2>2. PICK y \in Nat, m \in Nat, d \in Nat :
            IsDate(y, m, d) /\ mjdToBcdDate(day) = bcddate(y, m, d) /\ DayOf(y, m, d) = day
      BY <2>1, DateParts
    <2>3. DateAt(day) = <<y, m, d>> /\ m \in 1 .. 12 /\ d \in 1 .. 31
      BY <2>1, <2>2, DateShown
    <2>4. PICK h \in Nat, n \in Nat, t \in Nat : h < 24 /\ n < 60 /\ t < 60 /\ TimeAt(sec) = <<h, n, t>>
      BY <2>1, TimeShown
    <2>5. h \in 0 .. 23 /\ n \in 0 .. 59 /\ t \in 0 .. 59
      BY <2>4, SMT
    <2>6. QED
      BY <2>1, <2>3, <2>4, <2>5, NextWeekday
  <1>2. CInv /\ InitCentury
          => /\ Decoded(mjdToBcdDate(day)) \in Int \X (1 .. 12) \X (1 .. 31)
             /\ (LET t == epochToBcdTime(sec) IN <<btod(t.hour), btod(t.minute), btod(t.second)>>)
                   \in (0 .. 23) \X (0 .. 59) \X (0 .. 59)
             /\ mjdToWeekday(day) \in 0 .. 6
    BY <1>1 DEF DateAt, TimeAt
  <1>3. CInv /\ [NextCentury]_cvars => [Wall!Second \/ Wall!Sleep]_(Wall!wvars)
    <2> SUFFICES ASSUME CInv, [NextCentury]_cvars PROVE [Wall!Second \/ Wall!Sleep]_(Wall!wvars)
      OBVIOUS
    <2>1. /\ day \in Int /\ FirstDay <= day /\ day <= LastDay /\ sec \in Nat /\ sec < ADay
          /\ FirstCentury <= day
      BY DayKnown DEF CInv, Days
    <2>2. ASSUME day' = day, sec' = sec PROVE UNCHANGED Wall!wvars
      BY <2>2 DEF Wall!wvars
    <2>3. ASSUME day + 1 <= LastCentury, day' = day + 1 PROVE Wall!PassDay
      <3>1. day + 1 <= LastDay
        BY <2>1, <2>3, SMT DEF LastCentury, LastDay
      <3>2. DateAt(day + 1) = Wall!NextDate(DateAt(day))
        BY <2>1, <3>1, Tomorrow
      <3>3. mjdToWeekday(day + 1) = (mjdToWeekday(day) + 1) % 7
        BY <2>1, NextWeekday
      <3>4. QED
        BY <2>3, <3>2, <3>3 DEF Wall!PassDay, DateAt
    <2>4. CASE UNCHANGED cvars
      BY <2>2, <2>4 DEF cvars
    <2>5. CASE Look
      BY <2>2, <2>5 DEF Look
    <2>6. CASE Midnight
      <3>1. day' = day + 1 /\ sec' = sec
        BY <2>6 DEF Midnight, NewDay
      <3>2. Wall!PassDay
        BY <2>3, <2>6, <3>1, MidnightRight
      <3>3. Wall!Sleep
        BY <3>1, <3>2 DEF Wall!Sleep
      <3>4. QED
        BY <3>3
    <2>7. CASE Second
      <3>1. /\ sec' = (sec + 1) % ADay
            /\ IF sec' = 0 THEN NewDay ELSE UNCHANGED <<day, cal, held, pass, breaks, slipped>>
        BY <2>7 DEF Second
      <3>2. /\ TimeAt(sec') = Wall!NextTime(TimeAt(sec))
            /\ TimeAt(sec') = <<0, 0, 0>> <=> sec' = 0
        BY <2>1, <3>1, NextTimeOf
      <3>3. CASE sec' = 0
        <4>1. Wall!PassDay
          BY <2>3, <2>7, <3>1, <3>3, TickRight DEF NewDay
        <4>2. Wall!Second
          BY <3>2, <3>3, <4>1 DEF Wall!Second, TimeAt
        <4>3. QED
          BY <4>2
      <3>4. CASE sec' # 0
        <4>1. day' = day
          BY <3>1, <3>4
        <4>2. Wall!Second
          BY <3>2, <3>4, <4>1 DEF Wall!Second, TimeAt
        <4>3. QED
          BY <4>2
      <3>5. QED
        BY <3>3, <3>4
    <2>8. QED
      BY <2>4, <2>5, <2>6, <2>7 DEF NextCentury
  <1>4. QED
    BY <1>2, <1>3, Always, PTL DEF SpecCentury, Calendar, Wall!Spec

-----------------------------------------------------------------------------
(* The registers of the chip.                                              *)

\* There is a value for each register.
Filled(f) == DOMAIN f = Names

\* Between the two transfers of activeAlarm only the clock goes on, and the
\* shadow no longer has the alarm that the second of them clears.
Halfway == more => call \in {"activeAlarm", "tick"} /\ "AF" \notin shadow.c2

IInv == Filled(chip) /\ Filled(shadow) /\ Halfway /\ PeriodCovers

-----------------------------------------------------------------------------
(* The registers of a transfer.                                            *)

LEMMA AllNames ==
  Names = TimeRegisters \cup AlarmRegisters \cup {"c1", "c2", "offset", "ram", "t", "mode"}
  BY DEF Names, Registers, TimeRegisters, AlarmRegisters

LEMMA Stretches ==
  /\ \A k \in Sent(1) : From(1, k) \subseteq {"c2"}
  /\ \A k \in Sent(4) : From(0, k) \subseteq {"c1", "c2", "offset", "ram"}
  /\ \A k \in Sent(7) : From(4, k) \subseteq TimeRegisters
  /\ \A k \in Sent(3) : From(4, k) \subseteq TimeRegisters
  /\ \A k \in Sent(4) : From(7, k) \subseteq TimeRegisters
  /\ \A k \in Sent(5) : From(11, k) \subseteq AlarmRegisters
  /\ \A k \in Sent(4) : From(16, k) \subseteq {"t", "mode", "c1", "c2"}
  /\ {"t", "mode"} \subseteq From(16, 4)
  <1>1. \A k \in Sent(1) : From(1, k) \subseteq {"c2"}
    BY DEF Sent, From, Registers
  <1>2. \A k \in Sent(4) : From(0, k) \subseteq {"c1", "c2", "offset", "ram"}
    BY DEF Sent, From, Registers
  <1>3. \A k \in Sent(7) : From(4, k) \subseteq TimeRegisters
    BY DEF Sent, From, Registers, TimeRegisters
  <1>4. \A k \in Sent(3) : From(4, k) \subseteq TimeRegisters
    BY DEF Sent, From, Registers, TimeRegisters
  <1>5. \A k \in Sent(4) : From(7, k) \subseteq TimeRegisters
    BY DEF Sent, From, Registers, TimeRegisters
  <1>6. \A k \in Sent(5) : From(11, k) \subseteq AlarmRegisters
    BY DEF Sent, From, Registers, AlarmRegisters
  <1>7. \A k \in Sent(4) : From(16, k) \subseteq {"t", "mode", "c1", "c2"}
    BY DEF Sent, From, Registers
  <1>8. {"t", "mode"} \subseteq From(16, 4)
    <2>1. 16 \in 16 .. 19 /\ 17 \in 16 .. 19 /\ Registers[17] = "t" /\ Registers[18] = "mode"
      BY DEF Registers
    <2>2. QED
      BY <2>1 DEF From
  <1>9. QED
    BY <1>1, <1>2, <1>3, <1>4, <1>5, <1>6, <1>7, <1>8

\* What a transfer of the registers rs from s makes of c.
LEMMA WrittenKeeps ==
  ASSUME NEW c, NEW s, NEW rs
  PROVE  /\ Filled(Written(c, s, rs))
         /\ \A r \in Names \ rs : Written(c, s, rs)[r] = c[r]
         /\ "AF" \in c.c2 /\ "AF" \in s.c2 => "AF" \in Written(c, s, rs).c2
         /\ \A r \in (Names \cap rs) \ {"c2"} : Written(c, s, rs)[r] = s[r]
  BY AllNames DEF Filled, Written, Latch, Events

-----------------------------------------------------------------------------
(* The time goes on.                                                       *)

LEMMA TickKeeps ==
  ASSUME NEW c, Filled(c)
  PROVE  /\ Filled(Ticked(c))
         /\ \A r \in Names \ (TimeRegisters \cup {"c2"}) : Ticked(c)[r] = c[r]
         /\ "AF" \in c.c2 => "AF" \in Ticked(c).c2
  <1>1. ASSUME NEW d, Filled(d)
        PROVE  Filled(NextDay(d)) /\ \A r \in Names \ TimeRegisters : NextDay(d)[r] = d[r]
    BY <1>1, AllNames DEF Filled, NextDay, TimeRegisters
  <1>2. Filled(NextSecond(c)) /\ \A r \in Names \ TimeRegisters : NextSecond(c)[r] = c[r]
    <2> DEFINE s == btod(c.seconds % 128)
               in == [c EXCEPT
                        !.seconds = 128 * (c.seconds \div 128) + dtob((s + 1) % 60),
                        !.minutes = IF s = 59 THEN dtob((btod(c.minutes) + 1) % 60) ELSE @,
                        !.hours = IF s = 59 /\ btod(c.minutes) = 59
                                    THEN HourRegister(c, (Hour24(c) + 1) % 24) ELSE @]
    <2>1. NextSecond(c) = in \/ NextSecond(c) = NextDay(in)
      BY DEF NextSecond
    <2>2. Filled(in) /\ \A r \in Names \ TimeRegisters : in[r] = c[r]
      <3> HIDE DEF s
      <3>1. QED
        BY AllNames DEF Filled, TimeRegisters
    <2> HIDE DEF in
    <2>3. Filled(NextDay(in)) /\ \A r \in Names \ TimeRegisters : NextDay(in)[r] = in[r]
      BY <2>2, <1>1
    <2>4. QED
      BY <2>1, <2>2, <2>3
  <1>3. QED
    BY <1>2, AllNames DEF Ticked, Filled, TimeRegisters

-----------------------------------------------------------------------------
(* Every step: the chip stays whole, only the registers of the call        *)
(* change, and an alarm that both chip and shadow have is cleared by the   *)
(* calls about it alone.                                                   *)

OnlyIn(rs) ==
  /\ Filled(chip') /\ Filled(shadow')
  /\ \A r \in Names \ rs : chip'[r] = chip[r]
Keeps == "AF" \in chip.c2 /\ "AF" \in shadow.c2 => "AF" \in chip'.c2

LEMMA Transfer ==
  ASSUME NEW s, NEW a, NEW n, NEW rs, Filled(s), _write_register(s, a, n),
         \A k \in Sent(n) : From(a, k) \subseteq rs
  PROVE  OnlyIn(rs) /\ shadow' = s /\ ("AF" \in chip.c2 /\ "AF" \in s.c2 => "AF" \in chip'.c2)
  <1>1. PICK k \in Sent(n) : shadow' = s /\ chip' = Written(chip, s, From(a, k))
    BY DEF _write_register
  <1>2. QED
    BY <1>1, WrittenKeeps DEF OnlyIn

LEMMA UpdateStep ==
  ASSUME IInv, Update
  PROVE  OnlyIn(Owned(call')) /\ Keeps
  BY DEF IInv, Update, Calls, update, _read_register, OnlyIn, Keeps, Filled

LEMMA SaveStep ==
  ASSUME IInv, Save
  PROVE  OnlyIn(Owned(call')) /\ Keeps
  <1> DEFINE rs == {"c1", "c2", "offset", "ram"}
  <1>1. ASSUME NEW s, Filled(s), saveSettings(s), s.c2 \cap {"AF"} = shadow.c2 \cap {"AF"}
        PROVE  OnlyIn(rs) /\ Keeps
    <2> DEFINE u == [s EXCEPT !.c1 = @ \ {"SR"}]
    <2>1. Filled(u) /\ ("AF" \in shadow.c2 => "AF" \in u.c2)
      BY <1>1, AllNames DEF Filled
    <2>2. _write_register(u, 0, 4)
      BY <1>1 DEF saveSettings
    <2> HIDE DEF u
    <2>3. OnlyIn(rs) /\ ("AF" \in chip.c2 /\ "AF" \in u.c2 => "AF" \in chip'.c2)
      BY <2>1, <2>2, Stretches, Transfer
    <2>4. QED
      BY <2>1, <2>3 DEF Keeps
  <1>2. CASE start \/ stop
    <2>1. \A on : /\ Filled(setRunning(on))
                  /\ setRunning(on).c2 \cap {"AF"} = shadow.c2 \cap {"AF"}
      BY AllNames DEF IInv, Filled, setRunning
    <2>2. QED
      BY <1>1, <1>2, <2>1 DEF start, stop, Save, Calls, Owned
  <1>3. CASE \E on \in BOOLEAN :
               saveSettings([Flag("c2", "MI", on) EXCEPT !.c1 = On(@, "CAP_SEL", on), !.offset = 1])
    <2>1. PICK on \in BOOLEAN :
            saveSettings([Flag("c2", "MI", on) EXCEPT !.c1 = On(@, "CAP_SEL", on), !.offset = 1])
      BY <1>3
    <2> DEFINE s == [Flag("c2", "MI", on) EXCEPT !.c1 = On(@, "CAP_SEL", on), !.offset = 1]
    <2>2. Filled(s) /\ s.c2 \cap {"AF"} = shadow.c2 \cap {"AF"}
      BY AllNames DEF IInv, Filled, Flag, On
    <2>3. saveSettings(s)
      BY <2>1
    <2> HIDE DEF s
    <2>4. OnlyIn(rs) /\ Keeps
      BY <1>1, <2>2, <2>3
    <2>5. QED
      BY <2>4 DEF Save, Calls, Owned
  <1>4. QED
    BY <1>2, <1>3 DEF Save

LEMMA AdjustStep ==
  ASSUME IInv, Adjust
  PROVE  OnlyIn(Owned(call')) /\ Keeps
  <1>1. \A s, t, d : Filled(s) => /\ Filled(TimeIn(s, t)) /\ TimeIn(s, t).c2 = s.c2
                                 /\ Filled(DateIn(s, d)) /\ DateIn(s, d).c2 = s.c2
    <2> TAKE s, t, d
    <2>1. ASSUME Filled(s) PROVE Filled(TimeIn(s, t)) /\ TimeIn(s, t).c2 = s.c2
      BY <2>1, AllNames DEF Filled, TimeIn
    <2>2. ASSUME Filled(s) PROVE Filled(DateIn(s, d)) /\ DateIn(s, d).c2 = s.c2
      BY <2>2, AllNames DEF Filled, DateIn
    <2>3. QED
      BY <2>1, <2>2
  <1>2. ASSUME NEW s, NEW a, NEW n, Filled(s), s.c2 = shadow.c2, _write_register(s, a, n),
               \A k \in Sent(n) : From(a, k) \subseteq TimeRegisters
        PROVE  OnlyIn(TimeRegisters) /\ Keeps
    BY <1>2, Transfer DEF Keeps
  <1>3. ASSUME NEW b, adjustBcdDateTime(b) PROVE OnlyIn(TimeRegisters) /\ Keeps
    BY <1>1, <1>2, <1>3, Stretches DEF adjustBcdDateTime, IInv
  <1>4. ASSUME NEW d, adjustBcdDate(d) PROVE OnlyIn(TimeRegisters) /\ Keeps
    BY <1>1, <1>2, <1>4, Stretches DEF adjustBcdDate, IInv
  <1>5. ASSUME NEW t, adjustBcdTime(t) PROVE OnlyIn(TimeRegisters) /\ Keeps
    BY <1>1, <1>2, <1>5, Stretches DEF adjustBcdTime, IInv
  <1>6. OnlyIn(TimeRegisters) /\ Keeps
    BY <1>3, <1>4, <1>5 DEF Adjust, adjustEpoch
  <1>7. QED
    BY <1>6 DEF Adjust, Calls, Owned

LEMMA AlarmStep ==
  ASSUME IInv, SetAlarm \/ ActiveAlarm \/ ActiveAlarm2 \/ ClearAlarm
  PROVE  /\ OnlyIn(Owned(call'))
         /\ call' \notin {"clearAlarmFlag", "activeAlarm", "reset"} => Keeps
  <1>1. CASE SetAlarm
    <2>1. \A t, on : Filled(setAlarmSettings(t, on))
      BY AllNames DEF setAlarmSettings, IInv, Filled
    <2>2. Filled(shadow') /\ chip' = chip
      BY <1>1, <2>1 DEF SetAlarm
    <2>3. QED
      BY <2>2 DEF IInv, OnlyIn, Keeps
  <1>2. CASE ActiveAlarm
    <2>1. PICK on \in BOOLEAN : _write_register(AlarmFlags(on), 11, 5)
      BY <1>2 DEF ActiveAlarm, activeAlarm
    <2>2. Filled(AlarmFlags(on))
      BY AllNames DEF IInv, Filled, AlarmFlags
    <2>3. OnlyIn(AlarmRegisters)
      BY <2>1, <2>2, Stretches, Transfer
    <2>4. QED
      BY <1>2, <2>3 DEF ActiveAlarm, Calls, Owned, OnlyIn
  <1>3. CASE ActiveAlarm2
    <2>1. OnlyIn({"c2"})
      BY <1>3, Stretches, Transfer DEF ActiveAlarm2, WriteControl2, IInv
    <2>2. Keeps /\ call' \in {"activeAlarm", "tick"}
      BY <1>3 DEF ActiveAlarm2, IInv, Halfway, Keeps
    <2>3. QED
      BY <2>1, <2>2 DEF Owned, OnlyIn
  <1>4. CASE ClearAlarm
    <2>1. Filled([shadow EXCEPT !.c2 = @ \ {"AF"}])
      BY AllNames DEF IInv, Filled
    <2>2. OnlyIn({"c2"})
      BY <1>4, <2>1, Stretches, Transfer DEF ClearAlarm, clearAlarmFlag, WriteControl2
    <2>3. QED
      BY <1>4, <2>2 DEF ClearAlarm, Calls, Owned
  <1>5. QED
    BY <1>1, <1>2, <1>3, <1>4

LEMMA FlagStep ==
  ASSUME IInv, ClearTimer \/ ClockOut
  PROVE  OnlyIn(Owned(call')) /\ Keeps
  <1>1. CASE ClearTimer
    <2> DEFINE s == [shadow EXCEPT !.c2 = @ \ {"TF"}]
    <2>1. Filled(s) /\ ("AF" \in shadow.c2 => "AF" \in s.c2)
      BY AllNames DEF IInv, Filled
    <2>2. _write_register(s, 1, 1)
      BY <1>1 DEF ClearTimer, clearTimerFlag, WriteControl2
    <2> HIDE DEF s
    <2>3. OnlyIn({"c2"}) /\ ("AF" \in chip.c2 /\ "AF" \in s.c2 => "AF" \in chip'.c2)
      BY <2>1, <2>2, Stretches, Transfer
    <2>4. QED
      BY <1>1, <2>1, <2>3 DEF ClearTimer, Calls, Owned, Keeps
  <1>2. CASE ClockOut
    <2>1. PICK cof : WriteControl2([shadow EXCEPT !.c2 = (@ \ {"COF0", "COF1", "COF2"}) \cup cof])
      BY <1>2 DEF ClockOut, changeClockOutFrequency
    <2> DEFINE s == [shadow EXCEPT !.c2 = (@ \ {"COF0", "COF1", "COF2"}) \cup cof]
    <2>2. Filled(s) /\ ("AF" \in shadow.c2 => "AF" \in s.c2)
      BY AllNames DEF IInv, Filled
    <2>3. _write_register(s, 1, 1)
      BY <2>1 DEF WriteControl2
    <2> HIDE DEF s
    <2>4. OnlyIn({"c2"}) /\ ("AF" \in chip.c2 /\ "AF" \in s.c2 => "AF" \in chip'.c2)
      BY <2>2, <2>3, Stretches, Transfer
    <2>5. QED
      BY <1>2, <2>2, <2>4 DEF ClockOut, Calls, Owned, Keeps
  <1>3. QED
    BY <1>1, <1>2

LEMMA TimerWrite ==
  ASSUME NEW s, Filled(s), s.c2 = shadow.c2, WriteTimer(s)
  PROVE  OnlyIn({"t", "mode", "c1", "c2"}) /\ Keeps
  <1> DEFINE u == [s EXCEPT !.c2 = @ \ {"TF"}]
  <1>1. Filled(u) /\ ("AF" \in shadow.c2 => "AF" \in u.c2)
    BY AllNames DEF Filled
  <1>2. _write_register(u, 16, 4)
    BY DEF WriteTimer
  <1> HIDE DEF u
  <1>3. /\ OnlyIn({"t", "mode", "c1", "c2"})
        /\ "AF" \in chip.c2 /\ "AF" \in u.c2 => "AF" \in chip'.c2
    BY <1>1, <1>2, Stretches, Transfer
  <1>4. QED
    BY <1>1, <1>3 DEF Keeps

LEMMA TimerStep ==
  ASSUME IInv, Countdown \/ Timer
  PROVE  OnlyIn(Owned(call')) /\ Keeps
  <1> DEFINE Good(s) == Filled(s) /\ s.c2 = shadow.c2
  <1>1. \A s, on, interrupt : Good(s) => Good(TimerFlags(s, on, interrupt))
    BY AllNames DEF Filled, TimerFlags
  <1>2. \A s, v, m : Good(s) => Good([s EXCEPT !.t = v, !.mode = m])
    BY AllNames DEF Filled
  <1>3. Good(shadow)
    BY DEF IInv
  <1>4. \E s : Good(s) /\ WriteTimer(s)
    <2>1. ASSUME NEW p, NEW pulse, startCountdownTimer(p, pulse)
          PROVE  \E s : Good(s) /\ WriteTimer(s)
      <3> DEFINE c == Programmed(p)
                 s == [shadow EXCEPT !.t = c.t,
                         !.mode = On((@ \ {"TCF0", "TCF1"}) \cup c.clock, "TI_TP", pulse)]
      <3>1. Good(s)
        BY <1>2, <1>3
      <3>2. WriteTimer(TimerFlags(s, c.t # 0, c.t # 0))
        BY <2>1 DEF startCountdownTimer
      <3> HIDE DEF s, c, Good
      <3>3. QED
        BY <1>1, <3>1, <3>2
    <2>2. ASSUME NEW on, NEW interrupt, activeTimer(on, interrupt)
          PROVE  \E s : Good(s) /\ WriteTimer(s)
      BY <1>1, <1>3, <2>2 DEF activeTimer
    <2>3. ASSUME NEW s, activateTimer(s)
          PROVE  \E u : Good(u) /\ WriteTimer(u)
      <3> DEFINE u == [shadow EXCEPT !.t = s.value, !.mode = s.mode]
      <3>1. Good(u)
        BY AllNames DEF IInv, Filled
      <3>2. WriteTimer(u)
        BY <2>3 DEF activateTimer
      <3> HIDE DEF u, Good
      <3>3. QED
        BY <3>1, <3>2
    <2>4. QED
      BY <2>1, <2>2, <2>3 DEF Countdown, Timer
  <1>5. QED
    BY <1>4, TimerWrite DEF Countdown, Timer, Calls, Owned

LEMMA ClockStep ==
  ASSUME IInv, Tick \/ Expire
  PROVE  OnlyIn(Owned(call')) /\ Keeps
  <1>1. CASE Tick
    BY <1>1, TickKeeps DEF Tick, IInv, Owned, OnlyIn, Keeps
  <1>2. CASE Expire
    BY <1>2, AllNames DEF Expire, Expired, IInv, Owned, OnlyIn, Keeps, Filled
  <1>3. QED
    BY <1>1, <1>2

LEMMA ResetStep ==
  ASSUME IInv, Reset
  PROVE  OnlyIn(Owned(call')) /\ call' = "reset"
  BY DEF Reset, Calls, reset, ResetChip, IInv, Filled, OnlyIn, Owned

LEMMA EveryStep ==
  ASSUME IInv, NextXrtc
  PROVE  /\ OnlyIn(Owned(call'))
         /\ call' \notin {"clearAlarmFlag", "activeAlarm", "reset"} => Keeps
  BY UpdateStep, SaveStep, AdjustStep, AlarmStep, FlagStep, TimerStep, ClockStep, ResetStep
  DEF NextXrtc

-----------------------------------------------------------------------------
(* The period.                                                             *)

\* A period counted by the timer's one byte covers what was asked for.
Unit(clock) == IF "TCF0" \in clock THEN 60 ELSE 1
Most(p)     == IF p > 15300 THEN 15300 ELSE p

LEMMA Covered ==
  ASSUME NEW p \in Nat
  PROVE  /\ Programmed(p).clock \subseteq {"TCF0", "TCF1"} /\ "TCF1" \in Programmed(p).clock
         /\ Programmed(p).t \in Nat
         /\ Most(p) > 0 <=> Programmed(p).t # 0
         /\ Most(p) <= Programmed(p).t * Unit(Programmed(p).clock)
         /\ Programmed(p).t * Unit(Programmed(p).clock) < Most(p) + 60
  <1> DEFINE w == Most(p)
             q == (w + 59) \div 60
             c == CountDown(w)
  <1>1. w \in Nat /\ w <= 15300 /\ Programmed(p) = c
    BY DEF Most, Programmed
  <1> SUFFICES /\ c.clock \subseteq {"TCF0", "TCF1"} /\ "TCF1" \in c.clock
               /\ c.t \in Nat /\ (w > 0 <=> c.t # 0)
               /\ w <= c.t * Unit(c.clock) /\ c.t * Unit(c.clock) < w + 60
    BY <1>1
  <1> HIDE DEF w
  <1>2. q \in Int /\ 60 * q <= w + 59 /\ w + 59 < 60 * q + 60
    BY <1>1
  <1>3. CASE w <= 255
    BY <1>1, <1>3 DEF CountDown, Unit
  <1>4. CASE w > 255
    <2>1. c.t = q /\ c.clock = {"TCF0", "TCF1"}
      BY <1>1, <1>4 DEF CountDown
    <2> HIDE DEF c, q
    <2>2. Unit(c.clock) = 60 /\ q \in Nat \ {0}
      BY <1>1, <1>2, <1>4, <2>1 DEF Unit
    <2>3. QED
      BY <1>1, <1>2, <1>4, <2>1, <2>2
  <1>5. QED
    BY <1>1, <1>3, <1>4

\* What startCountdownTimer leaves in the chip when its transfer is whole.
Mode(c, pulse) == On(On(On((shadow.mode \ {"TCF0", "TCF1"}) \cup c.clock, "TI_TP", pulse),
                        "TE", c.t # 0), "TIE", c.t # 0)

LEMMA Flags ==
  ASSUME NEW s, Filled(s), NEW on
  PROVE  LET u == [TimerFlags(s, on, on) EXCEPT !.c2 = @ \ {"TF"}]
         IN  u.t = (IF on THEN s.t ELSE 0) /\ u.mode = On(On(s.mode, "TE", on), "TIE", on)
  <1>2. /\ Filled(TimerFlags(s, on, on))
        /\ TimerFlags(s, on, on).t = IF on THEN s.t ELSE 0
        /\ TimerFlags(s, on, on).mode = On(On(s.mode, "TE", on), "TIE", on)
    BY AllNames DEF TimerFlags, Filled
  <1>3. \A f, v : Filled(f) => [f EXCEPT !.c2 = v].t = f.t /\ [f EXCEPT !.c2 = v].mode = f.mode
    BY AllNames DEF Filled
  <1>4. QED
    BY <1>2, <1>3

LEMMA Counted ==
  ASSUME IInv, NEW p \in Nat, NEW pulse \in BOOLEAN, startCountdownTimer(p, pulse), ok'
  PROVE  chip'.t = Programmed(p).t /\ chip'.mode = Mode(Programmed(p), pulse)
  <1> DEFINE c == Programmed(p)
             s == [shadow EXCEPT !.t = c.t,
                     !.mode = On((@ \ {"TCF0", "TCF1"}) \cup c.clock, "TI_TP", pulse)]
             u == [TimerFlags(s, c.t # 0, c.t # 0) EXCEPT !.c2 = @ \ {"TF"}]
  <1>1. WriteTimer(TimerFlags(s, c.t # 0, c.t # 0))
    BY DEF startCountdownTimer
  <1>2. /\ Filled(s) /\ s.t = c.t
        /\ s.mode = On((shadow.mode \ {"TCF0", "TCF1"}) \cup c.clock, "TI_TP", pulse)
    <2> HIDE DEF c
    <2>1. QED
      BY AllNames DEF IInv, Filled
  <1> HIDE DEF s, c
  <1>3. u.t = c.t /\ u.mode = Mode(c, pulse)
    <2>1. /\ u.t = IF c.t # 0 THEN s.t ELSE 0
          /\ u.mode = On(On(s.mode, "TE", c.t # 0), "TIE", c.t # 0)
      BY <1>2, Flags, Zenon
    <2> HIDE DEF u
    <2>2. QED
      BY <1>2, <2>1 DEF Mode
  <1>4. _write_register(u, 16, 4)
    BY <1>1, Zenon DEF WriteTimer
  <1> HIDE DEF u
  <1>5. PICK k \in Sent(4) : chip' = Written(chip, u, From(16, k)) /\ ok' = (k = 4)
    BY <1>4 DEF _write_register, Result
  <1>6. k = 4
    BY <1>5, Zenon
  <1>7. /\ "t" \in (Names \cap From(16, 4)) \ {"c2"}
        /\ "mode" \in (Names \cap From(16, 4)) \ {"c2"}
    BY Stretches, AllNames
  <1>8. chip'.t = u.t /\ chip'.mode = u.mode
    BY <1>5, <1>6, <1>7, WrittenKeeps
  <1>9. QED
    BY <1>3, <1>8 DEF c

LEMMA PeriodStep ==
  ASSUME IInv, NextXrtc
  PROVE  PeriodCovers'
  <1>1. CASE call' \in {"timer", "reset"} /\ asked' = -1
    BY <1>1 DEF PeriodCovers
  <1>2. CASE call' \notin {"timer", "reset"} /\ asked' = asked
    <2>1. chip'.t = chip.t /\ chip'.mode = chip.mode
      BY <1>2, EveryStep, AllNames DEF OnlyIn, Owned, TimeRegisters, AlarmRegisters
    <2>2. QED
      BY <1>2, <2>1 DEF PeriodCovers, Counts, IInv
  <1>3. CASE Countdown /\ ok'
    <2>1. PICK p \in Periods, pulse \in BOOLEAN : startCountdownTimer(p, pulse) /\ asked' = p
      BY <1>3 DEF Countdown
    <2>2. p \in Nat
      BY <2>1, XrtcAssumption
    <2> DEFINE c == Programmed(p)
    <2>3. chip'.t = c.t /\ chip'.mode = Mode(c, pulse)
      BY <1>3, <2>1, <2>2, Counted
    <2>4. /\ c.clock \subseteq {"TCF0", "TCF1"} /\ "TCF1" \in c.clock
          /\ c.t \in Nat
          /\ Most(p) > 0 <=> c.t # 0
          /\ Most(p) <= c.t * Unit(c.clock) /\ c.t * Unit(c.clock) < Most(p) + 60
      BY <2>2, Covered
    <2> HIDE DEF c
    <2>5. /\ "TCF0" \in chip'.mode <=> "TCF0" \in c.clock
          /\ "TCF1" \in chip'.mode
          /\ "TE" \in chip'.mode <=> c.t # 0
          /\ "TIE" \in chip'.mode <=> c.t # 0
      BY <2>3, <2>4 DEF On, Mode
    <2>6. Unit(chip'.mode) = Unit(c.clock) /\ (c.t > 0 <=> c.t # 0)
      BY <2>4, <2>5 DEF Unit
    <2>7. /\ "TCF1" \in chip'.mode
          /\ Most(p) <= chip'.t * Unit(chip'.mode) /\ chip'.t * Unit(chip'.mode) < Most(p) + 60
          /\ Most(p) > 0 <=> ("TE" \in chip'.mode /\ chip'.t > 0)
          /\ Most(p) > 0 <=> "TIE" \in chip'.mode
      BY <2>3, <2>4, <2>5, <2>6
    <2>8. QED
      BY <2>1, <2>7 DEF PeriodCovers, Counts, Most, Unit
  <1>4. CASE Reset \/ Timer \/ (Countdown /\ ~ ok')
    BY <1>1, <1>4, Zenon DEF Reset, Timer, Countdown, Calls
  <1>5. CASE Update \/ Save \/ Adjust \/ SetAlarm \/ ActiveAlarm \/ ClearAlarm \/ ClearTimer \/ ClockOut
             \/ Tick \/ Expire
    BY <1>2, <1>5 DEF Update, Save, Adjust, SetAlarm, ActiveAlarm, ClearAlarm, ClearTimer, ClockOut,
                      Tick, Expire, Calls
  <1>6. CASE ActiveAlarm2
    BY <1>2, <1>6 DEF ActiveAlarm2, IInv, Halfway
  <1>7. QED
    BY <1>3, <1>4, <1>5, <1>6 DEF NextXrtc

-----------------------------------------------------------------------------
(* The invariant.                                                          *)

LEMMA HalfwayStep ==
  ASSUME IInv, NextXrtc
  PROVE  Halfway'
  <1>1. CASE ActiveAlarm
    <2>1. PICK on \in BOOLEAN : _write_register(AlarmFlags(on), 11, 5)
      BY <1>1 DEF ActiveAlarm, activeAlarm
    <2>2. Filled(AlarmFlags(on)) /\ "AF" \notin AlarmFlags(on).c2
      BY AllNames DEF IInv, Filled, AlarmFlags, On
    <2>3. shadow' = AlarmFlags(on)
      BY <2>1 DEF _write_register
    <2>4. QED
      BY <1>1, <2>2, <2>3 DEF ActiveAlarm, Calls, Halfway
  <1>2. CASE Tick \/ Expire
    BY <1>2 DEF Tick, Expire, IInv, Halfway
  <1>3. CASE ActiveAlarm2
    BY <1>3 DEF ActiveAlarm2, Halfway
  <1>4. CASE Update \/ Reset \/ Save \/ Adjust \/ SetAlarm \/ ClearAlarm \/ Countdown \/ Timer
             \/ ClearTimer \/ ClockOut
    <2>1. ~ more /\ more' = more
      BY <1>4, Zenon DEF Update, Reset, Save, Adjust, SetAlarm, ClearAlarm, Countdown, Timer,
                  ClearTimer, ClockOut, Calls
    <2>2. QED
      BY <2>1 DEF Halfway
  <1>5. QED
    BY <1>1, <1>2, <1>3, <1>4 DEF NextXrtc

LEMMA Begun ==
  ASSUME InitXrtc
  PROVE  IInv
  <1>1. \A b : Filled(ChipAt(b))
    <2> TAKE b
    <2>1. Filled(ResetChip)
      BY DEF Filled, ResetChip
    <2>2. \A s, t, d : Filled(s) => Filled(TimeIn(s, t)) /\ Filled(DateIn(s, d))
      <3> TAKE s, t, d
      <3>1. ASSUME Filled(s) PROVE Filled(TimeIn(s, t))
        BY <3>1, AllNames DEF Filled, TimeIn
      <3>2. ASSUME Filled(s) PROVE Filled(DateIn(s, d))
        BY <3>2, AllNames DEF Filled, DateIn
      <3>3. QED
        BY <3>1, <3>2
    <2>3. Filled(DateIn(TimeIn(ResetChip, b.time), b.date))
      BY <2>1, <2>2
    <2>4. QED
      BY <2>3, AllNames DEF ChipAt, Filled
  <1>2. \A b, t : Filled(ArmedAt(b, t))
    BY <1>1, AllNames DEF ArmedAt, Filled
  <1>3. Filled(chip) /\ Filled(shadow)
    BY <1>1, <1>2 DEF InitXrtc
  <1>4. QED
    BY <1>3 DEF InitXrtc, IInv, Halfway, PeriodCovers

LEMMA Invariance == SpecXrtc => []IInv
  <1>1. InitXrtc => IInv
    BY Begun
  <1>2. IInv /\ [NextXrtc]_xvars => IInv'
    <2>1. CASE NextXrtc
      BY <2>1, EveryStep, PeriodStep, HalfwayStep DEF IInv, OnlyIn, Filled
    <2>2. CASE UNCHANGED xvars
      BY <2>2 DEF xvars, dvars, IInv, Filled, Halfway, PeriodCovers, Counts
    <2>3. QED
      BY <2>1, <2>2
  <1>3. QED
    BY <1>1, <1>2, PTL DEF SpecXrtc

-----------------------------------------------------------------------------

\* Whatever is called, in whatever order, and wherever a transfer breaks off,
\* a call changes only registers that are its own.
THEOREM OnlyItsOwnAlways == SpecXrtc => OnlyItsOwn
  <1>1. IInv /\ [NextXrtc]_xvars => [\A r \in Names : chip'[r] # chip[r] => r \in Owned(call')]_xvars
    BY EveryStep DEF OnlyIn
  <1>2. QED
    BY <1>1, Invariance, PTL DEF SpecXrtc, OnlyItsOwn

\* An alarm that update() has shown is cleared by no call but those about it.
THEOREM SeenAlarmKeptAlways == SpecXrtc => SeenAlarmKept
  <1>1. IInv /\ [NextXrtc]_xvars =>
          [("AF" \in chip.c2 /\ "AF" \in shadow.c2 /\ "AF" \notin chip'.c2)
             => call' \in {"clearAlarmFlag", "activeAlarm", "reset"}]_xvars
    BY EveryStep DEF Keeps
  <1>2. QED
    BY <1>1, Invariance, PTL DEF SpecXrtc, SeenAlarmKept

\* Every period of 16 bits, counted in seconds or in minutes by a timer of
\* eight, covers what was asked for, and no other call disturbs it.
THEOREM PeriodCoversAlways == SpecXrtc => []PeriodCovers
  <1>1. IInv => PeriodCovers
    BY DEF IInv
  <1>2. QED
    BY <1>1, Invariance, PTL

-----------------------------------------------------------------------------
(* The clock chip as a clock of date and time: what its registers show,    *)
(* what a second makes of it, and what setting it leaves.                  *)

\* The epoch a chip or a shadow shows in 24-hour mode.
EpochOf(c) == bcdDateTimeToEpoch(
  [time |-> [second |-> c.seconds % 128, minute |-> c.minutes, hour |-> c.hours, wday |-> 0],
   date |-> [day |-> c.days, month |-> c.months, year |-> 32 * 256 + c.years]])

IsTime(h, i, s) == h < 24 /\ i < 60 /\ s < 60
HoldsDate(c, y, m, d) ==
  y < 100 /\ IsDate(2000 + y, m, d) /\ c.years = dtob(y) /\ c.months = dtob(m) /\ c.days = dtob(d)
HoldsTime(c, h, i, s) ==
  /\ IsTime(h, i, s) /\ c.hours = dtob(h) /\ c.minutes = dtob(i)
  /\ c.seconds = dtob(s) \/ c.seconds = 128 + dtob(s)
Instant(y, m, d, h, i, s) == ADay * (DayOf(2000 + y, m, d) - Day0) + (3600 * h + 60 * i + s)

\* The registers hold a date of 2000 to 2099 and a time.
Valid(c) ==
  /\ \E y \in Nat, m \in Nat, d \in Nat : HoldsDate(c, y, m, d)
  /\ \E h \in Nat, i \in Nat, s \in Nat : HoldsTime(c, h, i, s)

Y2000 == ADay * (51544 - Day0)
Y2100 == ADay * (88069 - Day0)

\* The seconds register, with or without the mark of a stopped oscillator.
LEMMA SecondsByte ==
  ASSUME NEW s \in Nat, s < 60, NEW b, b = dtob(s) \/ b = 128 + dtob(s)
  PROVE  /\ b \in Nat /\ b % 128 = dtob(s) /\ btod(b % 128) = s
         /\ 128 * (b \div 128) = IF b < 128 THEN 0 ELSE 128
         /\ b < 128 => b = dtob(s)
         /\ dtob(s) \in Nat /\ dtob(s) < 128
  BY SMT DEF dtob, btod

\* What the registers show, as a date and a time.
LEMMA Holding ==
  ASSUME NEW c, NEW y \in Nat, NEW m \in Nat, NEW d \in Nat, HoldsDate(c, y, m, d),
         NEW h \in Nat, NEW i \in Nat, NEW s \in Nat, HoldsTime(c, h, i, s)
  PROVE  EpochOf(c) = Instant(y, m, d, h, i, s)
  <1>1. y < 100 /\ IsDate(2000 + y, m, d) /\ c.years = dtob(y) /\ c.months = dtob(m) /\ c.days = dtob(d)
    BY DEF HoldsDate
  <1>2. h < 24 /\ i < 60 /\ s < 60 /\ c.hours = dtob(h) /\ c.minutes = dtob(i) /\ c.seconds % 128 = dtob(s)
    BY SecondsByte DEF HoldsTime, IsTime
  <1> DEFINE t == [second |-> c.seconds % 128, minute |-> c.minutes, hour |-> c.hours, wday |-> 0]
             b == [day |-> c.days, month |-> c.months, year |-> 32 * 256 + c.years]
  <1>3. t = bcdtime(h, i, s)
    BY <1>2 DEF bcdtime
  <1>4. bcdTimeToEpoch(t) = 3600 * h + 60 * i + s
    BY <1>2, <1>3, Unpacked
  <1>5. b = bcddate(2000 + y, m, d)
    <2>1. DateNow(Calendar99(y, m, d, 0)) = bcddate(2000 + y, m, d)
      BY <1>1, Shown
    <2>2. DateNow(Calendar99(y, m, d, 0)) = b
      BY <1>1 DEF DateNow, Calendar99
    <2>3. QED
      BY <2>1, <2>2
  <1>6. bcdDateToMjd(b) = DayOf(2000 + y, m, d)
    <2>1. PICK z \in Nat : z = 2000 + y
      BY SMT
    <2>2. z < YearLimit /\ 1 <= m /\ m <= 12 /\ 1 <= d /\ d <= Wall!Days(z, m)
      BY <1>1, <2>1 DEF IsDate
    <2>3. d <= 31
      BY <2>1, <2>2, DaysOfMonth, SMT
    <2>4. QED
      BY <1>5, <2>1, <2>2, <2>3, MjdOf
  <1>7. EpochOf(c) = 86400 * (bcdDateToMjd(b) - Day0) + bcdTimeToEpoch(t)
    BY DEF EpochOf, bcdDateTimeToEpoch, bcdToEpoch
  <1> HIDE DEF t, b
  <1>8. QED
    BY <1>4, <1>6, <1>7 DEF Instant, ADay

\* A day is an integer, and the days from 2000 to 2099 lie between two.
LEMMA DayBounds ==
  ASSUME NEW z \in Nat, NEW m \in Nat, NEW d \in Nat, IsDate(z, m, d)
  PROVE  /\ DayOf(z, m, d) \in Int
         /\ 2000 <= z /\ z < 2100 <=> 51544 <= DayOf(z, m, d) /\ DayOf(z, m, d) < 88069
  <1>1. PICK u \in Int, p \in Int, b \in Int :
          /\ u = z - (IF m < 3 THEN 1 ELSE 0) /\ p >= 0 /\ p <= 365
          /\ p >= 306 <=> m < 3
          /\ b = Before(u) /\ DayOf(z, m, d) = b + p - Mjd0
    BY Placed
  <1>2. b = 365 * u + u \div 4 - u \div 100 + u \div 400
    BY <1>1 DEF Before
  <1>3. DayOf(z, m, d) = b + p - 678881
    BY <1>1 DEF Mjd0
  <1>4. PICK k \in Int : k = DayOf(z, m, d)
    BY <1>1, <1>3
  <1>5. 2000 <= z /\ z < 2100 <=> 51544 <= k /\ k < 88069
    BY <1>1, <1>2, <1>3, <1>4, SMT
  <1>6. QED
    BY <1>4, <1>5

\* Between those days the year has two digits, and no instant lies outside.
LEMMA InCentury ==
  ASSUME NEW y \in Nat, NEW m \in Nat, NEW d \in Nat, y < 100, IsDate(2000 + y, m, d),
         NEW h \in Nat, NEW i \in Nat, NEW s \in Nat, IsTime(h, i, s)
  PROVE  /\ Instant(y, m, d, h, i, s) \in Int
         /\ Y2000 <= Instant(y, m, d, h, i, s) /\ Instant(y, m, d, h, i, s) < Y2100
  <1>1. PICK z \in Nat : z = 2000 + y /\ 2000 <= z /\ z < 2100
    BY SMT
  <1>2. PICK k \in Int : k = DayOf(2000 + y, m, d) /\ 51544 <= k /\ k < 88069
    BY <1>1, DayBounds
  <1>3. h < 24 /\ i < 60 /\ s < 60
    BY DEF IsTime
  <1>4. PICK t \in Nat : t = 3600 * h + 60 * i + s /\ t < 86400
    BY <1>3, SMT
  <1>5. Instant(y, m, d, h, i, s) = 86400 * (k - 40587) + t
    BY <1>2, <1>4 DEF Instant, ADay, Day0
  <1>6. QED
    BY <1>2, <1>4, <1>5, SMT DEF Y2000, Y2100, ADay, Day0

\* A day later the registers hold the next date; after the last one the first.
LEMMA DayOn ==
  ASSUME NEW c, Filled(c), NEW y \in Nat, NEW m \in Nat, NEW d \in Nat, HoldsDate(c, y, m, d)
  PROVE  /\ Filled(NextDay(c))
         /\ \A r \in {"seconds", "minutes", "hours", "c1"} : NextDay(c)[r] = c[r]
         /\ \E z \in Nat, n \in Nat, e \in Nat :
              /\ HoldsDate(NextDay(c), z, n, e)
              /\ DayOf(2000 + z, n, e) = DayOf(2000 + y, m, d) + 1 \/ (y = 99 /\ m = 12 /\ d = 31)
  <1> DEFINE last == IF m = 2 THEN IF y % 4 = 0 THEN 29 ELSE 28
                     ELSE IF m \in {4, 6, 9, 11} THEN 30 ELSE 31
  <1>1. y < 100 /\ IsDate(2000 + y, m, d) /\ c.years = dtob(y) /\ c.months = dtob(m) /\ c.days = dtob(d)
    BY DEF HoldsDate
  <1>2. PICK x \in Nat : x = 2000 + y
    BY SMT
  <1>3. x < YearLimit /\ 1 <= m /\ m <= 12 /\ 1 <= d /\ d <= Wall!Days(x, m) /\ Wall!Days(x, m) \in Nat
    BY <1>1, <1>2, DaysOfMonth DEF IsDate
  <1>4. last = Wall!Days(x, m) /\ last \in Nat /\ 28 <= last /\ last <= 31 /\ (m = 12 => last = 31)
    <2>1. Wall!Leaps(x) <=> y % 4 = 0
      BY <1>1, <1>2, SMT DEF Wall!Leaps
    <2>2. QED
      BY <1>1, <1>3, <2>1, DaysOfMonth, SMT
  <1>5. btod(c.years) = y /\ btod(c.months) = m /\ btod(c.days) = d /\ (c.months = 2 <=> m = 2)
    BY <1>1, <1>3, <1>4, Bytes, SMT
  <1>6. MonthDays(c) = last
    BY <1>5, SMT DEF MonthDays
  <1> HIDE DEF last
  <1>7. /\ Filled(NextDay(c))
        /\ \A r \in {"seconds", "minutes", "hours", "c1"} : NextDay(c)[r] = c[r]
        /\ NextDay(c).years = IF d = last /\ m = 12 THEN dtob((y + 1) % 100) ELSE c.years
        /\ NextDay(c).months = IF d = last /\ m = 12 THEN 1 ELSE IF d = last THEN dtob(m + 1) ELSE c.months
        /\ NextDay(c).days = IF d = last THEN 1 ELSE dtob(d + 1)
    BY <1>5, <1>6, AllNames DEF NextDay, Filled, TimeRegisters
  <1>8. /\ DayOf(x, m, d + 1) = DayOf(x, m, d) + 1
        /\ d = Wall!Days(x, m) /\ m < 12 => DayOf(x, m + 1, 1) = DayOf(x, m, d) + 1
        /\ d = Wall!Days(x, m) /\ m = 12 => DayOf(x + 1, 1, 1) = DayOf(x, m, d) + 1
    <2>1. IsDate(x, m, d)
      BY <1>1, <1>2
    <2>2. QED
      BY <2>1, DayAfter
  <1>9. dtob(1) = 1
    BY SMT DEF dtob
  <1> DEFINE Next == \E z \in Nat, n \in Nat, e \in Nat :
                       /\ HoldsDate(NextDay(c), z, n, e)
                       /\ DayOf(2000 + z, n, e) = DayOf(2000 + y, m, d) + 1 \/ (y = 99 /\ m = 12 /\ d = 31)
  <1>10. CASE d < last
    <2>1. PICK e \in Nat : e = d + 1 /\ 1 <= e /\ e <= Wall!Days(x, m)
      BY <1>3, <1>4, <1>10, SMT
    <2>2. d # last
      BY <1>4, <1>10, SMT
    <2>3. IsDate(2000 + y, m, e)
      BY <1>2, <1>3, <2>1 DEF IsDate
    <2>4. HoldsDate(NextDay(c), y, m, e)
      BY <1>1, <1>7, <2>1, <2>2, <2>3 DEF HoldsDate
    <2>5. DayOf(2000 + y, m, e) = DayOf(2000 + y, m, d) + 1
      BY <1>2, <1>8, <2>1
    <2>6. Next
      BY <2>4, <2>5
    <2>7. QED
      BY <1>7, <2>6
  <1>11. CASE d = last /\ m < 12
    <2>1. PICK n \in Nat : n = m + 1 /\ 1 <= n /\ n <= 12 /\ m # 12
      BY <1>3, <1>11, SMT
    <2>2. 1 <= 1 /\ 1 <= Wall!Days(x, n)
      BY <2>1, DaysOfMonth, SMT
    <2>3. IsDate(2000 + y, n, 1)
      BY <1>2, <1>3, <2>1, <2>2 DEF IsDate
    <2>4. HoldsDate(NextDay(c), y, n, 1)
      BY <1>1, <1>7, <1>9, <1>11, <2>1, <2>3 DEF HoldsDate
    <2>5. DayOf(2000 + y, n, 1) = DayOf(2000 + y, m, d) + 1
      BY <1>2, <1>4, <1>8, <1>11, <2>1
    <2>6. Next
      BY <2>4, <2>5
    <2>7. QED
      BY <1>7, <2>6
  <1>12. CASE d = last /\ m = 12
    <2>1. PICK z \in Nat : z = (y + 1) % 100 /\ z < 100 /\ (y # 99 => 2000 + z = x + 1)
      BY <1>1, <1>2, SMT
    <2>2. PICK w \in Nat : w = 2000 + z /\ w < YearLimit
      BY <2>1, SMT DEF YearLimit
    <2>3. 1 <= 1 /\ 1 <= 12 /\ 1 <= Wall!Days(w, 1)
      BY <2>2, DaysOfMonth, SMT
    <2>4. IsDate(2000 + z, 1, 1)
      BY <2>2, <2>3 DEF IsDate
    <2>5. HoldsDate(NextDay(c), z, 1, 1)
      BY <1>7, <1>9, <1>12, <2>1, <2>4 DEF HoldsDate
    <2>6. DayOf(2000 + z, 1, 1) = DayOf(2000 + y, m, d) + 1 \/ (y = 99 /\ m = 12 /\ d = 31)
      <3>1. CASE y = 99
        BY <1>4, <1>12, <3>1
      <3>2. CASE y # 99
        BY <1>2, <1>4, <1>8, <1>12, <2>1, <3>2
      <3>3. QED
        BY <3>1, <3>2
    <2>7. Next
      BY <2>5, <2>6
    <2>8. QED
      BY <1>7, <2>7
  <1>13. QED
    <2>1. d < last \/ d = last
      BY <1>3, <1>4, SMT
    <2>2. m < 12 \/ m = 12
      BY <1>3, SMT
    <2>3. QED
      BY <1>10, <1>11, <1>12, <2>1, <2>2

\* A second later a clock that runs shows the next instant, and one that is
\* stopped the same.
LEMMA SecondOn ==
  ASSUME NEW c, Filled(c), Valid(c), "12_24" \notin c.c1
  PROVE  /\ Filled(Ticked(c)) /\ Valid(Ticked(c)) /\ Ticked(c).c1 = c.c1
         /\ Ticked(c).seconds < 128 <=> c.seconds < 128
         /\ EpochOf(c) \in Int /\ EpochOf(Ticked(c)) \in Int
         /\ "STOP" \in c.c1 => Ticked(c) = c
         /\ "STOP" \notin c.c1 /\ EpochOf(c) + 1 < Y2100 => EpochOf(Ticked(c)) = EpochOf(c) + 1
         /\ EpochOf(Ticked(c)) <= EpochOf(c) + 1
  <1>1. PICK y \in Nat, m \in Nat, d \in Nat : HoldsDate(c, y, m, d)
    BY DEF Valid
  <1>2. PICK h \in Nat, i \in Nat, s \in Nat : HoldsTime(c, h, i, s)
    BY DEF Valid
  <1>3. y < 100 /\ IsDate(2000 + y, m, d)
    BY <1>1 DEF HoldsDate
  <1>4. /\ h < 24 /\ i < 60 /\ s < 60 /\ IsTime(h, i, s)
        /\ c.hours = dtob(h) /\ c.minutes = dtob(i) /\ (c.seconds = dtob(s) \/ c.seconds = 128 + dtob(s))
    BY <1>2 DEF HoldsTime, IsTime
  <1>5. EpochOf(c) = Instant(y, m, d, h, i, s)
    BY <1>1, <1>2, Holding
  <1>6. Instant(y, m, d, h, i, s) \in Int
    BY <1>3, <1>4, InCentury
  <1>7. CASE "STOP" \in c.c1
    BY <1>5, <1>6, <1>7 DEF Ticked
  <1>8. CASE "STOP" \notin c.c1
    <2> DEFINE t == NextSecond(c)
               u == [t EXCEPT !.c2 = IF Rings(t) THEN @ \cup {"AF"} ELSE @]
    <2>1. Ticked(c) = u
      BY <1>8 DEF Ticked
    <2>2. Filled(u) /\ u.c1 = c.c1
      BY <2>1, TickKeeps, AllNames DEF TimeRegisters
    <2> DEFINE in == [c EXCEPT !.seconds = 128 * (c.seconds \div 128) + dtob((s + 1) % 60),
                         !.minutes = IF s = 59 THEN dtob((i + 1) % 60) ELSE @,
                         !.hours = IF s = 59 /\ i = 59 THEN dtob((h + 1) % 24) ELSE @]
    <2>3. t = IF s = 59 /\ i = 59 /\ h = 23 THEN NextDay(in) ELSE in
      <3>1. btod(c.seconds % 128) = s /\ btod(c.minutes) = i
        BY <1>4, SecondsByte, Bytes, SMT
      <3>2. Hour24(c) = h
        BY <1>4, Bytes, SMT DEF Hour24
      <3>3. HourRegister(c, (h + 1) % 24) = dtob((h + 1) % 24)
        BY DEF HourRegister
      <3> DEFINE next(S, M, H, r) ==
                   LET k == [c EXCEPT !.seconds = 128 * (c.seconds \div 128) + dtob((S + 1) % 60),
                                      !.minutes = IF S = 59 THEN dtob((M + 1) % 60) ELSE @,
                                      !.hours = IF S = 59 /\ M = 59 THEN r ELSE @]
                   IN  IF S = 59 /\ M = 59 /\ H = 23 THEN NextDay(k) ELSE k
      <3>4. t = next(btod(c.seconds % 128), btod(c.minutes), Hour24(c), HourRegister(c, (Hour24(c) + 1) % 24))
        BY Zenon DEF NextSecond
      <3>5. next(s, i, h, dtob((h + 1) % 24)) = IF s = 59 /\ i = 59 /\ h = 23 THEN NextDay(in) ELSE in
        BY Zenon
      <3> HIDE DEF t, in, next
      <3>6. t = next(s, i, h, dtob((h + 1) % 24))
        BY <3>1, <3>2, <3>3, <3>4, Zenon
      <3>7. QED
        BY <3>5, <3>6
    <2>4. PICK a \in Nat, b \in Nat, e \in Nat :
            /\ a = (s + 1) % 60
            /\ b = IF s = 59 THEN (i + 1) % 60 ELSE i
            /\ e = IF s = 59 /\ i = 59 THEN (h + 1) % 24 ELSE h
            /\ IsTime(e, b, a)
            /\ 3600 * e + 60 * b + a = IF s = 59 /\ i = 59 /\ h = 23 THEN 0 ELSE 3600 * h + 60 * i + s + 1
      BY <1>4, SMT DEF IsTime
    <2>5. /\ Filled(in) /\ in.c1 = c.c1
          /\ in.years = c.years /\ in.months = c.months /\ in.days = c.days
          /\ in.seconds = 128 * (c.seconds \div 128) + dtob(a)
          /\ in.minutes = dtob(b) /\ in.hours = dtob(e)
      BY <1>4, <2>4, AllNames DEF Filled, TimeRegisters
    <2>6. HoldsDate(in, y, m, d)
      BY <1>1, <2>5 DEF HoldsDate
    <2>7. HoldsTime(in, e, b, a) /\ (in.seconds < 128 <=> c.seconds < 128)
      <3>1. a < 60
        BY <2>4 DEF IsTime
      <3>2. /\ 128 * (c.seconds \div 128) = IF c.seconds < 128 THEN 0 ELSE 128
            /\ dtob(a) \in Nat /\ dtob(a) < 128
        BY <1>4, <3>1, SecondsByte
      <3>3. /\ in.seconds = dtob(a) \/ in.seconds = 128 + dtob(a)
            /\ in.seconds < 128 <=> c.seconds < 128
        BY <2>5, <3>2, SMT
      <3>4. QED
        BY <2>4, <2>5, <3>3 DEF HoldsTime
    <2> HIDE DEF in
    <2>8. DayOf(2000 + y, m, d) \in Int
      <3>1. PICK z \in Nat : z = 2000 + y
        BY SMT
      <3>2. QED
        BY <1>3, <3>1, DayBounds
    <2>9. \E z \in Nat, n \in Nat, f \in Nat :
            /\ HoldsDate(t, z, n, f) /\ HoldsTime(t, e, b, a) /\ (t.seconds < 128 <=> c.seconds < 128)
            /\ Filled(t)
            /\ \/ Instant(z, n, f, e, b, a) = Instant(y, m, d, h, i, s) + 1
               \/ y = 99 /\ m = 12 /\ d = 31 /\ h = 23 /\ i = 59 /\ s = 59
      <3>1. CASE s = 59 /\ i = 59 /\ h = 23
        <4>1. t = NextDay(in)
          BY <2>3, <3>1
        <4> HIDE DEF t
        <4>2. PICK z \in Nat, n \in Nat, f \in Nat :
                /\ HoldsDate(t, z, n, f)
                /\ DayOf(2000 + z, n, f) = DayOf(2000 + y, m, d) + 1 \/ (y = 99 /\ m = 12 /\ d = 31)
          BY <2>5, <2>6, <4>1, DayOn
        <4>3. Filled(t) /\ t.seconds = in.seconds /\ t.minutes = in.minutes /\ t.hours = in.hours
          BY <2>5, <2>6, <4>1, DayOn
        <4>4. HoldsTime(t, e, b, a) /\ (t.seconds < 128 <=> c.seconds < 128)
          BY <2>7, <4>3 DEF HoldsTime
        <4>5. ASSUME DayOf(2000 + z, n, f) = DayOf(2000 + y, m, d) + 1
              PROVE  Instant(z, n, f, e, b, a) = Instant(y, m, d, h, i, s) + 1
          <5>1. 3600 * e + 60 * b + a = 0 /\ 3600 * h + 60 * i + s = 86399
            BY <2>4, <3>1, SMT
          <5>2. PICK k \in Int : k = DayOf(2000 + y, m, d)
            BY <2>8
          <5>3. /\ Instant(z, n, f, e, b, a) = 86400 * (k + 1 - 40587) + 0
                /\ Instant(y, m, d, h, i, s) = 86400 * (k - 40587) + 86399
            BY <4>5, <5>1, <5>2 DEF Instant, ADay, Day0
          <5>4. QED
            BY <5>2, <5>3, SMT
        <4>6. QED
          BY <3>1, <4>2, <4>3, <4>4, <4>5
      <3>2. CASE ~ (s = 59 /\ i = 59 /\ h = 23)
        <4>1. t = in
          BY <2>3, <3>2
        <4> HIDE DEF t
        <4>2. Instant(y, m, d, e, b, a) = Instant(y, m, d, h, i, s) + 1
          <5>1. PICK v \in Nat : v = 3600 * h + 60 * i + s /\ 3600 * e + 60 * b + a = v + 1
            BY <1>4, <2>4, <3>2, SMT
          <5>2. PICK k \in Int : k = DayOf(2000 + y, m, d)
            BY <2>8
          <5>3. /\ Instant(y, m, d, e, b, a) = 86400 * (k - 40587) + (v + 1)
                /\ Instant(y, m, d, h, i, s) = 86400 * (k - 40587) + v
            BY <5>1, <5>2 DEF Instant, ADay, Day0
          <5>4. QED
            BY <5>1, <5>2, <5>3, SMT
        <4>3. QED
          BY <2>5, <2>6, <2>7, <4>1, <4>2
      <3>3. QED
        BY <3>1, <3>2
    <2> HIDE DEF t
    <2>10. PICK z \in Nat, n \in Nat, f \in Nat :
            /\ HoldsDate(t, z, n, f) /\ HoldsTime(t, e, b, a) /\ (t.seconds < 128 <=> c.seconds < 128)
            /\ Filled(t)
            /\ \/ Instant(z, n, f, e, b, a) = Instant(y, m, d, h, i, s) + 1
               \/ y = 99 /\ m = 12 /\ d = 31 /\ h = 23 /\ i = 59 /\ s = 59
      BY <2>9
    <2>11. \A r \in TimeRegisters : u[r] = t[r]
      BY <2>10, AllNames DEF Filled, TimeRegisters
    <2> HIDE DEF u
    <2>12. HoldsDate(u, z, n, f) /\ HoldsTime(u, e, b, a) /\ (u.seconds < 128 <=> c.seconds < 128)
      BY <2>10, <2>11 DEF HoldsDate, HoldsTime, TimeRegisters
    <2>13. EpochOf(u) = Instant(z, n, f, e, b, a)
      BY <2>12, Holding
    <2>14. Instant(z, n, f, e, b, a) \in Int /\ Instant(z, n, f, e, b, a) < Y2100
      BY <2>10, InCentury DEF HoldsDate, HoldsTime
    <2>15. y = 99 /\ m = 12 /\ d = 31 /\ h = 23 /\ i = 59 /\ s = 59 => Instant(y, m, d, h, i, s) + 1 = Y2100
      <3>1. Year(2099, 12) = 2099 /\ Month(12) = 12 /\ 2000 + 99 = 2099
        BY SMT DEF Year, Month
      <3>2. DayOf(2099, 12, 31) = Before(2099) + (Offset(12) + 31 - 31) - Mjd0
        BY <3>1 DEF DayOf, Within
      <3>3. Before(2099) + (Offset(12) + 31 - 31) - Mjd0 = 88068
        BY SMT DEF Before, Offset, Mjd0
      <3>4. Instant(99, 12, 31, 23, 59, 59) = 86400 * (88068 - 40587) + (3600 * 23 + 60 * 59 + 59)
        BY <3>1, <3>2, <3>3 DEF Instant, ADay, Day0
      <3>5. Instant(99, 12, 31, 23, 59, 59) + 1 = Y2100
        BY <3>4, SMT DEF Y2100, ADay, Day0
      <3>6. QED
        BY <3>5
    <2>16. Valid(u)
      BY <2>12 DEF Valid
    <2>17. Y2100 \in Int
      BY SMT DEF Y2100, ADay, Day0
    <2>18. /\ EpochOf(c) + 1 < Y2100 => EpochOf(u) = EpochOf(c) + 1
           /\ EpochOf(u) <= EpochOf(c) + 1
      BY <1>5, <1>6, <2>10, <2>13, <2>14, <2>15, <2>17
    <2>19. QED
      BY <1>5, <1>6, <1>8, <2>1, <2>2, <2>12, <2>13, <2>14, <2>16, <2>18
  <1>9. QED
    BY <1>7, <1>8

-----------------------------------------------------------------------------
(* Setting the clock.                                                      *)

\* An instant of those years in packed decimals.
PacksDate(e, y, m, d) ==
  /\ y < 100 /\ IsDate(2000 + y, m, d) /\ epochToBcdDate(e) = bcddate(2000 + y, m, d)
  /\ DayOf(2000 + y, m, d) = epochToMjd(e)
PacksTime(e, h, i, s) ==
  IsTime(h, i, s) /\ epochToBcdTime(e) = bcdtime(h, i, s) /\ 3600 * h + 60 * i + s = e % 86400

LEMMA Packing ==
  ASSUME NEW e \in Nat, 51544 <= epochToMjd(e), epochToMjd(e) < 88069
  PROVE  /\ \E y \in Nat, m \in Nat, d \in Nat : PacksDate(e, y, m, d)
         /\ \E h \in Nat, i \in Nat, s \in Nat : PacksTime(e, h, i, s)
  <1>1. PICK n \in Nat, t \in Nat : e = ADay * n + t /\ t < ADay /\ e % 86400 = t
    BY SMT DEF ADay
  <1>2. PICK k \in Int : k = epochToMjd(e) /\ 51544 <= k /\ k < 88069
    BY SMT DEF epochToMjd, Day0
  <1>3. FirstDay <= k /\ k <= LastDay
    BY <1>2, SMT DEF FirstDay, LastDay
  <1>4. PICK z \in Nat, m \in Nat, d \in Nat :
          IsDate(z, m, d) /\ mjdToBcdDate(k) = bcddate(z, m, d) /\ DayOf(z, m, d) = k
    BY <1>3, DateParts
  <1>5. 2000 <= z /\ z < 2100
    BY <1>2, <1>4, DayBounds
  <1>6. PICK y \in Nat : z = 2000 + y /\ y < 100
    <2>1. z - 2000 \in Nat /\ z = 2000 + (z - 2000) /\ z - 2000 < 100
      BY <1>5, SMT
    <2>2. QED
      BY <2>1
  <1>7. PacksDate(e, y, m, d)
    BY <1>2, <1>4, <1>6 DEF PacksDate, epochToBcdDate
  <1>8. PICK h \in Nat, i \in Nat, s \in Nat :
           /\ h < 24 /\ i < 60 /\ s < 60 /\ t = 3600 * h + 60 * i + s
           /\ epochToBcdTime(e) = bcdtime(h, i, s)
    BY <1>1, Clock
  <1>9. PacksTime(e, h, i, s)
    BY <1>1, <1>8 DEF PacksTime, IsTime
  <1>10. QED
    BY <1>7, <1>9

LEMMA Packed2000 ==
  ASSUME NEW e \in Nat, 51544 <= epochToMjd(e), epochToMjd(e) < 88069,
         NEW y \in Nat, NEW m \in Nat, NEW d \in Nat, PacksDate(e, y, m, d),
         NEW h \in Nat, NEW i \in Nat, NEW s \in Nat, PacksTime(e, h, i, s)
  PROVE  /\ epochToBcdDateTime(e) = [date |-> bcddate(2000 + y, m, d), time |-> bcdtime(h, i, s)]
         /\ Instant(y, m, d, h, i, s) = e
  <1>1. PICK n \in Nat, t \in Nat : e = 86400 * n + t /\ t < 86400 /\ e \div 86400 = n /\ e % 86400 = t
    BY SMT
  <1>2. Instant(y, m, d, h, i, s) = 86400 * (n + 40587 - 40587) + t
    BY <1>1 DEF PacksDate, PacksTime, Instant, ADay, Day0, epochToMjd
  <1>3. Instant(y, m, d, h, i, s) = e
    BY <1>1, <1>2, SMT
  <1>4. QED
    BY <1>3 DEF PacksDate, PacksTime, epochToBcdDateTime

\* Packed and unpacked, it is the same.
LEMMA EpochBack ==
  ASSUME NEW e \in Nat, 51544 <= epochToMjd(e), epochToMjd(e) < 88069
  PROVE  bcdDateTimeToEpoch(epochToBcdDateTime(e)) = e
  <1>1. PICK n \in Nat, t \in Nat : e = ADay * n + t /\ t < ADay /\ e \div 86400 = n
    BY SMT DEF ADay
  <1>2. PICK k \in Int : k = epochToMjd(e) /\ k = n + Day0 /\ FirstDay <= k /\ k <= LastDay
    BY <1>1, SMT DEF epochToMjd, Day0, FirstDay, LastDay
  <1>3. bcdToEpoch(mjdToBcdDate(k), epochToBcdTime(t)) = e
    BY <1>1, <1>2, DayBack
  <1>4. epochToBcdTime(e) = epochToBcdTime(t)
    BY <1>1, TimeBack
  <1>5. QED
    BY <1>2, <1>3, <1>4 DEF bcdDateTimeToEpoch, epochToBcdDateTime, epochToBcdDate

\* What adjustBcdDateTime sends for a date and a time.
Sending(c, b) == DateIn(TimeIn(c, b.time), b.date)

LEMMA SendingHolds ==
  ASSUME NEW c, Filled(c), NEW y \in Nat, NEW m \in Nat, NEW d \in Nat,
         y < 100, IsDate(2000 + y, m, d), NEW h \in Nat, NEW i \in Nat, NEW s \in Nat, IsTime(h, i, s),
         NEW b, b = [date |-> bcddate(2000 + y, m, d), time |-> bcdtime(h, i, s)]
  PROVE  /\ Filled(Sending(c, b)) /\ Sending(c, b).c1 = c.c1
         /\ HoldsDate(Sending(c, b), y, m, d) /\ HoldsTime(Sending(c, b), h, i, s)
         /\ Sending(c, b).seconds < 128
  <1>1. h < 24 /\ i < 60 /\ s < 60
    BY DEF IsTime
  <1>2. 1 <= m /\ m <= 12 /\ 1 <= d /\ d <= 31
    <2>1. PICK x \in Nat : x = 2000 + y
      BY SMT
    <2>2. QED
      BY <2>1, DaysOfMonth, SMT DEF IsDate
  <1>3. /\ dtob(s) % 128 = dtob(s) /\ dtob(s) < 128 /\ dtob(i) % 128 = dtob(i) /\ dtob(h) % 64 = dtob(h)
    BY <1>1, SMT DEF dtob
  <1>4. dtob(d) % 64 = dtob(d) /\ dtob(m) % 32 = dtob(m)
    BY <1>2, SMT DEF dtob
  <1>5. wdtob(2000 + y) % 256 = dtob(y)
    <2>1. PICK x \in Nat : x = 2000 + y /\ x < YearLimit /\ x % 100 = y
      BY SMT DEF YearLimit
    <2>2. QED
      BY <2>1, Words
  <1>6. /\ b.time.second = dtob(s) /\ b.time.minute = dtob(i) /\ b.time.hour = dtob(h)
        /\ b.date.day = dtob(d) /\ b.date.month = dtob(m) /\ b.date.year = wdtob(2000 + y)
    BY DEF bcddate, bcdtime
  <1> DEFINE u == TimeIn(c, b.time)
             f == DateIn(u, b.date)
  <1>7. /\ Filled(u) /\ u.c1 = c.c1
        /\ u.seconds = dtob(s) /\ u.minutes = dtob(i) /\ u.hours = dtob(h)
    BY <1>3, <1>6, AllNames DEF TimeIn, Filled, TimeRegisters
  <1> HIDE DEF u
  <1>8. /\ Filled(f) /\ f.c1 = c.c1
        /\ f.seconds = dtob(s) /\ f.minutes = dtob(i) /\ f.hours = dtob(h)
        /\ f.days = dtob(d) /\ f.months = dtob(m) /\ f.years = dtob(y)
    BY <1>4, <1>5, <1>6, <1>7, AllNames DEF DateIn, Filled, TimeRegisters
  <1>9. f = Sending(c, b)
    BY DEF Sending, u
  <1> HIDE DEF f
  <1>10. QED
    BY <1>3, <1>8, <1>9 DEF HoldsDate, HoldsTime

\* A transfer of the time that is whole.
LEMMA TimeStretch == From(4, 7) = TimeRegisters
  BY DEF From, Registers, TimeRegisters

\* Another register than the time's is sent as it was.
LEMMA SendingKeeps ==
  ASSUME NEW c, Filled(c), NEW b
  PROVE  Filled(Sending(c, b)) /\ Sending(c, b).c1 = c.c1
  <1> DEFINE u == TimeIn(c, b.time)
  <1>1. Filled(u) /\ u.c1 = c.c1
    BY AllNames DEF TimeIn, Filled
  <1> HIDE DEF u
  <1>2. Filled(DateIn(u, b.date)) /\ DateIn(u, b.date).c1 = u.c1
    BY <1>1, AllNames DEF DateIn, Filled
  <1>3. QED
    BY <1>1, <1>2 DEF Sending, u

\* The time is that of its registers.
LEMMA SameTime ==
  ASSUME NEW c, NEW w, \A r \in TimeRegisters : w[r] = c[r]
  PROVE  EpochOf(w) = EpochOf(c) /\ (Valid(c) => Valid(w))
  <1>1. /\ w.seconds = c.seconds /\ w.minutes = c.minutes /\ w.hours = c.hours
        /\ w.days = c.days /\ w.months = c.months /\ w.years = c.years
    BY DEF TimeRegisters
  <1>2. EpochOf(w) = EpochOf(c)
    BY <1>1 DEF EpochOf
  <1>3. Valid(c) => Valid(w)
    BY <1>1 DEF Valid, HoldsDate, HoldsTime
  <1>4. QED
    BY <1>2, <1>3

-----------------------------------------------------------------------------
(* The run of the sketch.                                                  *)

\* The second of the pass, and the local instant of a second.
Asked    == IF late THEN now - 1 ELSE now
Local(n) == Epoch0 + n + TZ_OFFSET

\* What the time is at each second of the run.
LEMMA Instants ==
  ASSUME NEW n \in 0 .. Seconds - 1
  PROVE  /\ Local(n) \in Nat /\ 51544 <= epochToMjd(Local(n)) /\ epochToMjd(Local(n)) < 88069
         /\ Y2000 + 86400 <= Local(n) /\ Local(n) < Y2100
         /\ bcdDateTimeToEpoch(Stamps[n]) + TZ_OFFSET = Local(n)
         /\ Local(n) = Local(0) + n /\ Local(0) \in Nat
  <1>1. PICK a \in Nat, q \in Nat : a = Epoch0 /\ q = Seconds /\ n \in Nat /\ n <= q - 1
    BY GpsAssumption, SMT
  <1>2. (a + 32400) \div 86400 + 40587 > 51544 /\ (a + 32400 + q - 1) \div 86400 + 40587 < 88069
    BY <1>1, GpsAssumption DEF epochToMjd, TZ_OFFSET, Day0
  <1>3. /\ (a + n + 32400) \div 86400 + 40587 >= 51544
        /\ (a + n + 32400) \div 86400 + 40587 < 88069
        /\ a + n \in Nat
        /\ (a + n) \div 86400 + 40587 >= 51544
        /\ (a + n) \div 86400 + 40587 < 88069
        /\ 86400 * (51544 - 40587) + 86400 <= a + n + 32400
        /\ a + n + 32400 < 86400 * (88069 - 40587)
    BY <1>1, <1>2, SMT
  <1>4. Local(n) = a + n + 32400 /\ Local(n) \in Nat /\ Local(0) = a + 0 + 32400
    BY <1>1, <1>3, SMT DEF Local, TZ_OFFSET
  <1>5. 51544 <= epochToMjd(Local(n)) /\ epochToMjd(Local(n)) < 88069
    BY <1>3, <1>4 DEF epochToMjd, Day0
  <1>6. Y2000 + 86400 <= Local(n) /\ Local(n) < Y2100
    BY <1>3, <1>4 DEF Y2000, Y2100, ADay, Day0
  <1>7. PICK e \in Nat : e = a + n /\ 51544 <= epochToMjd(e) /\ epochToMjd(e) < 88069
    BY <1>3 DEF epochToMjd, Day0
  <1>8. bcdDateTimeToEpoch(epochToBcdDateTime(e)) = e
    BY <1>7, EpochBack
  <1>9. Stamps[n] = epochToBcdDateTime(e)
    BY <1>1, <1>7 DEF Stamps
  <1>10. bcdDateTimeToEpoch(Stamps[n]) + TZ_OFFSET = Local(n)
    BY <1>4, <1>7, <1>8, <1>9 DEF TZ_OFFSET
  <1>11. QED
    BY <1>1, <1>4, <1>5, <1>6, <1>10

\* What is sent for the time of a second holds it, and so do registers that
\* are as that, the mark of the oscillator apart.
LEMMA StampHeld ==
  ASSUME NEW n \in 0 .. Seconds - 1, NEW c, Filled(c), NEW f, f = Sending(c, epochToBcdDateTime(Local(n))),
         NEW w, w.seconds \in {f.seconds, f.seconds + 128},
         \A r \in {"minutes", "hours", "days", "months", "years"} : w[r] = f[r]
  PROVE  Valid(w) /\ EpochOf(w) = Local(n)
  <1>1. PICK e \in Nat : e = Local(n) /\ 51544 <= epochToMjd(e) /\ epochToMjd(e) < 88069
    BY Instants
  <1>2. /\ \E y \in Nat, m \in Nat, d \in Nat : PacksDate(e, y, m, d)
        /\ \E h \in Nat, i \in Nat, s \in Nat : PacksTime(e, h, i, s)
    BY <1>1, Packing
  <1>3. PICK y \in Nat, m \in Nat, d \in Nat : PacksDate(e, y, m, d)
    BY <1>2
  <1>4. PICK h \in Nat, i \in Nat, s \in Nat : PacksTime(e, h, i, s)
    BY <1>2
  <1> DEFINE b == epochToBcdDateTime(e)
  <1>5. y < 100 /\ IsDate(2000 + y, m, d) /\ IsTime(h, i, s)
    BY <1>3, <1>4 DEF PacksDate, PacksTime
  <1>6. /\ b = [date |-> bcddate(2000 + y, m, d), time |-> bcdtime(h, i, s)]
        /\ Instant(y, m, d, h, i, s) = e
    BY <1>1, <1>3, <1>4, Packed2000
  <1> HIDE DEF b
  <1>7. f = Sending(c, b)
    BY <1>1 DEF b
  <1>8. HoldsDate(f, y, m, d) /\ HoldsTime(f, h, i, s) /\ f.seconds < 128
    BY <1>5, <1>6, <1>7, SendingHolds
  <1>9. f.seconds = dtob(s)
    <2>1. PICK v \in Nat : v = dtob(s)
      BY SMT DEF dtob
    <2>2. f.seconds = v \/ f.seconds = 128 + v
      BY <1>8, <2>1 DEF HoldsTime
    <2>3. QED
      BY <1>8, <2>1, <2>2, SMT
  <1>10. w.seconds = dtob(s) \/ w.seconds = 128 + dtob(s)
    <2>1. PICK v \in Nat : v = dtob(s)
      BY SMT DEF dtob
    <2>2. v + 128 = 128 + v
      BY SMT
    <2>3. QED
      BY <1>9, <2>1, <2>2
  <1>11. HoldsDate(w, y, m, d) /\ HoldsTime(w, h, i, s)
    BY <1>8, <1>10 DEF HoldsDate, HoldsTime
  <1>12. EpochOf(w) = Local(n)
    BY <1>1, <1>6, <1>11, Holding
  <1>13. QED
    BY <1>11, <1>12 DEF Valid

-----------------------------------------------------------------------------
(* The invariant of the sketch.                                            *)

GTypes ==
  /\ now \in 0 .. Seconds - 1 /\ late \in BOOLEAN /\ fresh \in BOOLEAN /\ sure \in BOOLEAN
  /\ timed \in BOOLEAN
  /\ pc \in {"read", "update", "compare", "stop", "adjust", "start", "refresh"}

\* The driver takes the chip for one of 12 hours only where it is one.
GChip == Filled(chip) /\ Filled(shadow) /\ ("12_24" \in shadow.c1 => "12_24" \in chip.c1)

\* A pass whose sentence had a time has the stamp of the second it began in,
\* and a pass takes no more than one.
GStamp == pc # "read" => (timed => gpsdata.stamp = Stamps[Asked]) /\ (late => now >= 1)

\* A whole update() has read the chip as it is or was a second ago.
GShadow ==
  pc = "compare" /\ fresh =>
    \E c : /\ Filled(c) /\ c.c1 = shadow.c1 /\ \A r \in TimeRegisters : c[r] = shadow[r]
           /\ chip = c \/ (late /\ chip = Ticked(c))

\* The clock is sure to be right where a pass begins, and to show the time
\* once it has been set, whether it already runs or not.
GSure ==
  sure /\ pc \notin {"stop", "adjust"} =>
    /\ "12_24" \notin chip.c1 /\ Valid(chip)
    /\ pc # "start" => Right
    /\ pc = "start" => EpochOf(chip) \in {Local(Asked), Local(now)}

GInv == GTypes /\ GChip /\ GStamp /\ GShadow /\ GSure

\* Right is about the epoch the chip shows.
LEMMA RightOf ==
  ASSUME NEW e \in Int, NEW n \in Nat
  PROVE  e - TZ_OFFSET - Epoch0 \in {n - 1, n} <=> e \in {Local(n) - 1, Local(n)}
  <1>1. PICK a \in Nat : a = Epoch0
    BY GpsAssumption
  <1>2. PICK t \in Int : t = Local(n) /\ t = a + n + TZ_OFFSET
    BY <1>1 DEF Local, TZ_OFFSET
  <1>3. e - TZ_OFFSET - a \in {n - 1, n} <=> e \in {t - 1, t}
    BY <1>2, SMT DEF TZ_OFFSET
  <1>4. QED
    BY <1>1, <1>2, <1>3

LEMMA RightIs ==
  ASSUME now \in Nat, EpochOf(chip) \in Int
  PROVE  Right <=> "STOP" \notin chip.c1 /\ EpochOf(chip) \in {Local(now) - 1, Local(now)}
  <1>1. ChipEpoch = EpochOf(chip)
    BY DEF ChipEpoch, EpochOf
  <1>2. QED
    BY <1>1, RightOf DEF Right

-----------------------------------------------------------------------------
(* The steps of the sketch.                                                *)

\* What is parsed is a sentence.
LEMMA FirstOf ==
  ASSUME NEW b \in Buffers, First(b) # 0
  PROVE  \E on, place : b[First(b)] = Sentence(on, place)
  <1> DEFINE found == {i \in DOMAIN b : b[i].rmc}
             One(s) == \E on, place : s = Sentence(on, place)
  <1>1. found # {} /\ First(b) = CHOOSE i \in found : \A j \in found : i <= j
    BY DEF First
  <1>2. \A i \in DOMAIN b : i \in {1, 2} /\ (b[i] = Noise \/ One(b[i]))
    <2>1. One(Cold) /\ \A place : One(Fix(place))
      BY DEF Cold, Fix
    <2>2. CASE \E s : b = <<s>> /\ (s = Noise \/ One(s))
      <3> HIDE DEF One
      <3>1. QED
        BY <2>2
    <2>3. CASE \E s, t : b = <<s, t>> /\ (s = Noise \/ One(s)) /\ One(t)
      <3> HIDE DEF One
      <3>1. QED
        BY <2>3
    <2>4. \/ \E s : b = <<s>> /\ (s = Noise \/ One(s))
          \/ \E s, t : b = <<s, t>> /\ (s = Noise \/ One(s)) /\ One(t)
      <3>1. CASE b = <<Noise>>
        BY <3>1
      <3>2. CASE b \in {<<Sentence(on, place)>> : on \in Shapes, place \in Places}
        BY <3>2
      <3>3. CASE b \in UNION {{<<Noise, Fix(place)>>, <<Cold, Fix(place)>>} : place \in Places}
        <4> HIDE DEF One
        <4>1. QED
          BY <2>1, <3>3
      <3>4. QED
        BY <3>1, <3>2, <3>3 DEF Buffers
    <2>5. QED
      BY <2>2, <2>3, <2>4
  <1>3. \E i \in found : \A j \in found : i <= j
    <2>1. found \subseteq {1, 2}
      BY <1>2
    <2> HIDE DEF found
    <2>2. CASE 1 \in found
      <3>1. 1 <= 1 /\ 1 <= 2
        BY SMT
      <3>2. QED
        BY <2>1, <2>2, <3>1
    <2>3. CASE 1 \notin found
      <3>1. found = {2}
        BY <1>1, <2>1, <2>3
      <3>2. 2 <= 2
        BY SMT
      <3>3. QED
        BY <3>1, <3>2
    <2>4. QED
      BY <2>2, <2>3
  <1>4. First(b) \in found
    <2> HIDE DEF found
    <2>1. QED
      BY <1>1, <1>3
  <1>5. ~ Noise.rmc
    BY DEF Noise
  <1>6. b[First(b)].rmc /\ (b[First(b)] = Noise \/ One(b[First(b)]))
    <2> HIDE DEF One
    <2>1. QED
      BY <1>2, <1>4
  <1>7. QED
    BY <1>5, <1>6

\* A pass that goes on by a sentence with a time has the stamp of its second.
LEMMA Stamped ==
  ASSUME now \in 0 .. Seconds - 1, NEW b \in Buffers, NEW g, Updated(g, b).good,
         b[First(b)].time # None
  PROVE  Updated(g, b).data.stamp = Stamps[now]
  <1> DEFINE s == b[First(b)]
  <1>1. First(b) # 0
    BY DEF Updated
  <1>2. Updated(g, b) = Parse(g, s)
    BY <1>1 DEF Updated
  <1>3. PICK on, place : s = Sentence(on, place)
    BY <1>1, FirstOf
  <1>4. s.time # None
    OBVIOUS
  <1> HIDE DEF s
  <1>5. Stamps[now] = [date |-> epochToBcdDate(Epoch0 + now), time |-> epochToBcdTime(Epoch0 + now)]
    BY DEF Stamps, epochToBcdDateTime
  <1>6. s.whole
    BY <1>2, <1>4 DEF Parse
  <1>7. Parse(g, s).good <=> s.date # None
    BY <1>6 DEF Parse
  <1>8. s.date # None
    BY <1>2, <1>7
  <1>9. s.time = Stamps[now].time /\ s.date = Stamps[now].date
    BY <1>3, <1>4, <1>8 DEF Sentence
  <1>10. Parse(g, s).data.stamp = [time |-> IF s.time = None THEN g.stamp.time ELSE s.time,
                                   date |-> IF s.date = None THEN g.stamp.date ELSE s.date]
    BY <1>6 DEF Parse
  <1>11. QED
    BY <1>2, <1>4, <1>5, <1>8, <1>9, <1>10

LEMMA InitStep == ASSUME InitGps PROVE GInv
  <1>1. GTypes
    <2>1. 0 \in 0 .. Seconds - 1
      BY GpsAssumption
    <2>2. QED
      BY <2>1 DEF InitGps, GTypes
  <1>2. Filled(chip)
    BY GpsAssumption DEF InitGps, ResetChip, Filled
  <1>3. Filled(shadow) /\ shadow.c1 = {}
    BY AllNames DEF InitGps, Filled
  <1>4. QED
    BY <1>1, <1>2, <1>3 DEF GInv, GChip, GStamp, GShadow, GSure, InitGps

LEMMA ReadStep == ASSUME GInv, ReadAny \/ ReadMidway PROVE GInv'
  <1>1. /\ pc = "read" /\ late' = FALSE /\ pc' \in {"read", "update"} /\ timed' \in BOOLEAN
        /\ UNCHANGED <<chip, shadow, now, fresh, sure>>
    BY DEF ReadAny, Read, ReadMidway, dvars, GInv, GTypes
  <1>2. GTypes' /\ GChip' /\ GShadow'
    BY <1>1 DEF GInv, GTypes, GChip, GShadow
  <1>3. GSure'
    BY <1>1 DEF GInv, GSure, Right, ChipEpoch, Valid, HoldsDate, HoldsTime
  <1>4. GStamp'
    <2>1. CASE ReadMidway
      BY <1>1, <2>1 DEF ReadMidway, GStamp
    <2>2. CASE ReadAny
      <3>1. PICK b \in Buffers : Read(b)
        BY <2>2 DEF ReadAny
      <3>2. pc' # "read" /\ timed' => /\ gpsdata' = Updated(gpsdata, b).data /\ Updated(gpsdata, b).good
                                      /\ b[First(b)].time # None
        BY <3>1 DEF Read
      <3>3. pc' # "read" /\ timed' => gpsdata'.stamp = Stamps[now]
        BY <3>2, Stamped DEF GInv, GTypes
      <3>4. QED
        BY <1>1, <3>3 DEF GStamp, Asked
    <2>3. QED
      BY <2>1, <2>2
  <1>5. QED
    BY <1>2, <1>3, <1>4 DEF GInv

\* A transfer from the chip.
LEMMA UpdateOn ==
  ASSUME GChip, update
  PROVE  /\ chip' = chip /\ GChip'
         /\ ok' \in BOOLEAN /\ (ok' => \A r \in Names : shadow'[r] = chip[r])
  <1>1. PICK k \in Sent(18) : /\ shadow' = [r \in Names |-> IF r \in From(11, k) THEN chip[r] ELSE shadow[r]]
                              /\ ok' = (k = 18) /\ chip' = chip
    BY DEF update, _read_register, Result
  <1>2. GChip'
    BY <1>1, AllNames DEF GChip, Filled
  <1>3. From(11, 18) = Names
    BY SMT DEF From, Names
  <1>4. ok' => \A r \in Names : shadow'[r] = chip[r]
    BY <1>1, <1>3
  <1>5. QED
    BY <1>1, <1>2, <1>4

LEMMA FetchStep == ASSUME GInv, Fetch PROVE GInv'
  <1>1. /\ pc = "update" /\ pc' = "compare" /\ update /\ fresh' = ok'
        /\ UNCHANGED <<now, late, gpsdata, timed, sure>>
    BY DEF Fetch
  <1>2. /\ chip' = chip /\ GChip'
        /\ ok' \in BOOLEAN /\ (ok' => \A r \in Names : shadow'[r] = chip[r])
    BY <1>1, UpdateOn DEF GInv
  <1>3. GTypes'
    BY <1>1, <1>2 DEF GInv, GTypes
  <1>4. GStamp'
    BY <1>1 DEF GInv, GStamp, Asked
  <1>5. GShadow'
    <2>1. ASSUME ok' PROVE /\ Filled(chip) /\ chip.c1 = shadow'.c1
                           /\ \A r \in TimeRegisters : chip[r] = shadow'[r]
      BY <1>2, <2>1, AllNames DEF GInv, GChip
    <2>2. QED
      BY <1>1, <1>2, <2>1 DEF GShadow
  <1>6. GSure'
    BY <1>1, <1>2 DEF GInv, GSure, Right, ChipEpoch, Valid, HoldsDate, HoldsTime
  <1>7. QED
    BY <1>2, <1>3, <1>4, <1>5, <1>6 DEF GInv

LEMMA RefreshStep == ASSUME GInv, Refresh PROVE GInv'
  <1>1. /\ pc = "refresh" /\ pc' = "read" /\ update
        /\ UNCHANGED <<now, late, gpsdata, timed, fresh, sure>>
    BY DEF Refresh
  <1>2. chip' = chip /\ GChip'
    BY <1>1, UpdateOn DEF GInv
  <1>3. GTypes' /\ GStamp' /\ GShadow'
    BY <1>1 DEF GInv, GTypes, GStamp, GShadow
  <1>4. GSure'
    BY <1>1, <1>2 DEF GInv, GSure, Right, ChipEpoch, Valid, HoldsDate, HoldsTime
  <1>5. QED
    BY <1>2, <1>3, <1>4 DEF GInv

\* The time of the pass, behind "read".
LEMMA TimeOfPass ==
  ASSUME GTypes, GStamp, pc # "read"
  PROVE  /\ Asked \in 0 .. Seconds - 1 /\ (Asked = now \/ (late /\ Asked = now - 1))
         /\ timed => gps_time = Local(Asked)
  <1>1. Asked \in 0 .. Seconds - 1 /\ (Asked = now \/ (late /\ Asked = now - 1))
    BY GpsAssumption, SMT DEF GTypes, GStamp, Asked
  <1>2. timed => gps_time = Local(Asked)
    BY <1>1, Instants DEF gps_time, GStamp
  <1>3. QED
    BY <1>1, <1>2

\* What the clock shows at the end of a pass, from what it showed in it.
LEMMA PassOver ==
  ASSUME now \in Nat, NEW a \in Nat, a = now \/ a = now - 1, NEW e \in Int,
         e = Local(a) \/ e = Local(now)
  PROVE  e \in {Local(now) - 1, Local(now)}
  <1>1. PICK n \in Nat, l \in Nat : n = now /\ l = Epoch0
    BY GpsAssumption
  <1>2. Local(a) = l + a + 32400 /\ Local(n) = l + n + 32400
    BY <1>1 DEF Local, TZ_OFFSET
  <1>3. e = l + a + 32400 \/ e = l + n + 32400
    BY <1>1, <1>2
  <1>4. e = l + n + 32400 - 1 \/ e = l + n + 32400
    BY <1>1, <1>3, SMT
  <1>5. QED
    BY <1>1, <1>2, <1>4

LEMMA CompareStep == ASSUME GInv, Compare PROVE GInv'
  <1>1. /\ pc = "compare" /\ pc' \in {"stop", "read"} /\ fresh' = FALSE
        /\ UNCHANGED <<chip, shadow, now, late, gpsdata, timed>>
        /\ pc' = "stop" => sure' = sure
        /\ pc' = "read" => sure' = (/\ fresh /\ shadow.c1 \cap {"STOP", "12_24"} = {}
                                    /\ HoldsAs(gps_time) /\ timed)
    BY DEF Compare, dvars
  <1>2. GTypes'
    <2>1. sure' \in BOOLEAN
      BY <1>1 DEF GInv, GTypes
    <2>2. QED
      BY <1>1, <2>1 DEF GInv, GTypes
  <1>3. GChip' /\ GShadow'
    BY <1>1 DEF GInv, GChip, GShadow
  <1>4. GStamp'
    BY <1>1 DEF GInv, GStamp, Asked
  <1>5. GSure'
    <2>1. CASE pc' = "stop" \/ ~ sure'
      BY <2>1 DEF GSure
    <2>2. CASE pc' = "read" /\ sure'
      <3>1. /\ fresh /\ timed /\ "STOP" \notin shadow.c1 /\ "12_24" \notin shadow.c1 /\ HoldsAs(gps_time)
        BY <1>1, <2>2
      <3>2. PICK a \in 0 .. Seconds - 1 : a = Asked /\ gps_time = Local(a) /\ (a = now \/ (late /\ a = now - 1))
        BY <1>1, <3>1, TimeOfPass DEF GInv
      <3>3. Valid(shadow) /\ EpochOf(shadow) = Local(a)
        <4> DEFINE f == Sending(shadow, epochToBcdDateTime(Local(a)))
        <4>1. /\ shadow.seconds \in {f.seconds, f.seconds + 128}
              /\ \A r \in {"minutes", "hours", "days", "months", "years"} : shadow[r] = f[r]
          BY <3>1, <3>2 DEF HoldsAs, Sending
        <4>2. Filled(shadow)
          BY DEF GInv, GChip
        <4> HIDE DEF f
        <4>3. f = Sending(shadow, epochToBcdDateTime(Local(a)))
          BY DEF f
        <4>4. QED
          BY <4>1, <4>2, <4>3, StampHeld
      <3>4. PICK c : /\ Filled(c) /\ c.c1 = shadow.c1 /\ \A r \in TimeRegisters : c[r] = shadow[r]
                     /\ chip = c \/ (late /\ chip = Ticked(c))
        BY <1>1, <3>1 DEF GInv, GShadow
      <3>5. Valid(c) /\ EpochOf(c) = Local(a) /\ "STOP" \notin c.c1 /\ "12_24" \notin c.c1
        BY <3>1, <3>3, <3>4, SameTime
      <3>6. /\ Valid(Ticked(c)) /\ Ticked(c).c1 = c.c1
            /\ EpochOf(c) \in Int /\ EpochOf(Ticked(c)) \in Int
            /\ EpochOf(c) + 1 < Y2100 => EpochOf(Ticked(c)) = EpochOf(c) + 1
        BY <3>4, <3>5, SecondOn
      <3>7. Valid(chip) /\ chip.c1 = c.c1 /\ EpochOf(chip) \in Int
        BY <3>4, <3>5, <3>6
      <3>8. EpochOf(chip) = Local(a) \/ EpochOf(chip) = Local(now)
        <4>1. CASE chip = c
          BY <3>5, <4>1
        <4>2. CASE late /\ chip = Ticked(c)
          <5>1. a = now - 1
            BY <3>2, <4>2 DEF Asked
          <5>2. PICK n \in Nat, l \in Nat :
                  /\ n = now /\ l = Local(0) /\ Local(n) = l + n /\ Local(a) = l + a /\ Local(n) < Y2100
            <6>1. 0 \in 0 .. Seconds - 1 /\ now \in 0 .. Seconds - 1 /\ now \in Nat
              BY GpsAssumption DEF GInv, GTypes
            <6>2. QED
              BY <3>2, <6>1, Instants
          <5>3. l + a + 1 = l + n
            BY <5>1, <5>2, SMT
          <5>4. QED
            BY <3>5, <3>6, <4>2, <5>2, <5>3
        <4>3. QED
          BY <3>4, <4>1, <4>2
      <3>9. EpochOf(chip) \in {Local(now) - 1, Local(now)}
        <4>1. now \in Nat /\ a \in Nat /\ (a = now \/ a = now - 1)
          BY <3>2 DEF GInv, GTypes
        <4>2. QED
          BY <3>7, <3>8, <4>1, PassOver
      <3>10. Right
        <4>1. now \in Nat /\ "STOP" \notin chip.c1
          BY <3>5, <3>7 DEF GInv, GTypes
        <4>2. QED
          BY <3>7, <3>9, <4>1, RightIs
      <3>11. QED
        BY <1>1, <2>2, <3>5, <3>7, <3>10 DEF GSure, Right, ChipEpoch, Valid, HoldsDate, HoldsTime
    <2>3. QED
      BY <1>1, <2>1, <2>2
  <1>6. QED
    BY <1>2, <1>3, <1>4, <1>5 DEF GInv

\* stop and start leave the time alone, and the 12 hours to a chip of 24.
LEMMA SaveOn ==
  ASSUME GChip, NEW on \in BOOLEAN, saveSettings(setRunning(on))
  PROVE  /\ GChip'
         /\ \A r \in TimeRegisters : chip'[r] = chip[r]
         /\ "12_24" \notin chip.c1 => "12_24" \notin chip'.c1
         /\ ok' \in BOOLEAN /\ (ok' /\ on => "STOP" \notin chip'.c1)
  <1> DEFINE s == [setRunning(on) EXCEPT !.c1 = @ \ {"SR"}]
  <1>1. Filled(s) /\ ("12_24" \in s.c1 <=> "12_24" \in shadow.c1) /\ (on => "STOP" \notin s.c1)
    <2>1. /\ Filled(setRunning(on)) /\ ("12_24" \in setRunning(on).c1 <=> "12_24" \in shadow.c1)
          /\ on => "STOP" \notin setRunning(on).c1
      BY AllNames DEF GChip, Filled, setRunning, On
    <2>2. QED
      BY <2>1, AllNames DEF Filled
  <1>2. _write_register(s, 0, 4)
    BY Zenon DEF saveSettings
  <1> HIDE DEF s
  <1>3. PICK k \in Sent(4) : /\ shadow' = s /\ chip' = Written(chip, s, From(0, k)) /\ ok' = (k = 4)
    BY <1>2 DEF _write_register, Result
  <1>4. Filled(chip') /\ \A r \in Names \ From(0, k) : chip'[r] = chip[r]
    BY <1>3, WrittenKeeps
  <1>5. \A r \in TimeRegisters : chip'[r] = chip[r]
    BY <1>3, <1>4, Stretches, AllNames DEF TimeRegisters
  <1>6. chip'.c1 \in {chip.c1, s.c1} /\ (k = 4 => chip'.c1 = s.c1)
    <2>1. "c1" \in From(0, 4)
      <3>1. 0 \in 0 .. 3 /\ Registers[1] = "c1"
        BY DEF Registers
      <3>2. QED
        BY <3>1 DEF From
    <2>2. "c1" \in Names
      BY AllNames
    <2>3. QED
      BY <1>3, <2>1, <2>2, WrittenKeeps
  <1>7. QED
    BY <1>1, <1>3, <1>4, <1>5, <1>6 DEF GChip

LEMMA StopStep == ASSUME GInv, Stop PROVE GInv'
  <1>1. /\ pc = "stop" /\ pc' = "adjust" /\ saveSettings(setRunning(FALSE))
        /\ UNCHANGED <<now, late, gpsdata, timed, fresh, sure>>
    BY DEF Stop, stop
  <1>2. GChip'
    BY <1>1, SaveOn DEF GInv
  <1>3. GTypes' /\ GStamp' /\ GShadow' /\ GSure'
    BY <1>1 DEF GInv, GTypes, GStamp, GShadow, GSure, Asked
  <1>4. QED
    BY <1>2, <1>3 DEF GInv

LEMMA SetStep == ASSUME GInv, Set PROVE GInv'
  <1>1. /\ pc = "adjust" /\ pc' = "start" /\ adjustEpoch(gps_time)
        /\ sure' = (ok' /\ "12_24" \notin chip.c1 /\ timed)
        /\ UNCHANGED <<now, late, gpsdata, timed, fresh>>
    BY DEF Set
  <1> DEFINE b == IF is12hourMode THEN bcdDateTime24to12(epochToBcdDateTime(gps_time))
                  ELSE epochToBcdDateTime(gps_time)
             f == Sending(shadow, b)
  <1>2. _write_register(f, 4, 7)
    BY <1>1, Zenon DEF adjustEpoch, adjustBcdDateTime, Sending
  <1>3. Filled(f) /\ f.c1 = shadow.c1
    BY SendingKeeps DEF GInv, GChip
  <1>4. "12_24" \notin chip.c1 => f = Sending(shadow, epochToBcdDateTime(gps_time))
    BY DEF GInv, GChip, is12hourMode
  <1> HIDE DEF b, f
  <1>5. PICK k \in Sent(7) : shadow' = f /\ chip' = Written(chip, f, From(4, k)) /\ ok' = (k = 7)
    BY <1>2 DEF _write_register, Result
  <1>6. /\ Filled(chip') /\ chip'.c1 = chip.c1
        /\ k = 7 => \A r \in TimeRegisters : chip'[r] = f[r]
    <2>1. /\ Filled(chip') /\ \A r \in Names \ From(4, k) : chip'[r] = chip[r]
          /\ \A r \in (Names \cap From(4, k)) \ {"c2"} : chip'[r] = f[r]
      BY <1>5, WrittenKeeps
    <2>2. From(4, k) \subseteq TimeRegisters /\ "c1" \notin TimeRegisters /\ "c2" \notin TimeRegisters
      BY <1>5, Stretches DEF TimeRegisters
    <2>3. QED
      BY <2>1, <2>2, TimeStretch, AllNames
  <1>7. GChip'
    BY <1>3, <1>5, <1>6 DEF GInv, GChip
  <1>8. GTypes'
    BY <1>1, <1>5 DEF GInv, GTypes
  <1>9. Asked' = Asked
    BY <1>1 DEF Asked
  <1>10. GStamp' /\ GShadow'
    BY <1>1, <1>9 DEF GInv, GStamp, GShadow
  <1>11. ASSUME sure' PROVE Valid(chip') /\ EpochOf(chip') = Local(Asked)
    <2>1. k = 7 /\ "12_24" \notin chip.c1 /\ timed
      BY <1>1, <1>5, <1>11
    <2>2. PICK a \in 0 .. Seconds - 1 : a = Asked /\ gps_time = Local(a)
      BY <1>1, <2>1, TimeOfPass DEF GInv
    <2>3. f = Sending(shadow, epochToBcdDateTime(Local(a))) /\ Filled(shadow)
      BY <1>4, <2>1, <2>2 DEF GInv, GChip
    <2>4. Valid(f) /\ EpochOf(f) = Local(a)
      BY <2>3, StampHeld
    <2>5. QED
      BY <1>6, <2>1, <2>2, <2>4, SameTime
  <1>12. GSure'
    <2>1. ASSUME sure' PROVE "12_24" \notin chip'.c1
      BY <1>1, <1>6, <2>1
    <2>2. Local(Asked)' = Local(Asked')
      BY DEF Local
    <2>3. sure' => EpochOf(chip') = Local(Asked')
      BY <1>9, <1>11
    <2>4. QED
      BY <1>1, <1>11, <2>1, <2>2, <2>3 DEF GSure, Valid, HoldsDate, HoldsTime, EpochOf
  <1>13. QED
    BY <1>7, <1>8, <1>10, <1>12 DEF GInv

LEMMA StartStep == ASSUME GInv, Start PROVE GInv'
  <1>1. /\ pc = "start" /\ pc' = "refresh" /\ saveSettings(setRunning(TRUE)) /\ sure' = (sure /\ ok')
        /\ UNCHANGED <<now, late, gpsdata, timed, fresh>>
    BY DEF Start, start
  <1>2. /\ GChip' /\ \A r \in TimeRegisters : chip'[r] = chip[r]
        /\ "12_24" \notin chip.c1 => "12_24" \notin chip'.c1
        /\ ok' \in BOOLEAN /\ (ok' => "STOP" \notin chip'.c1)
    BY <1>1, SaveOn DEF GInv
  <1>3. EpochOf(chip') = EpochOf(chip) /\ (Valid(chip) => Valid(chip'))
    BY <1>2, SameTime
  <1>4. GTypes'
    BY <1>1, <1>2 DEF GInv, GTypes
  <1>5. GStamp' /\ GShadow'
    BY <1>1 DEF GStamp, GShadow, GInv, Asked
  <1>6. ASSUME sure' PROVE "12_24" \notin chip'.c1 /\ Valid(chip') /\ Right'
    <2>1. /\ "STOP" \notin chip'.c1 /\ "12_24" \notin chip.c1 /\ Valid(chip)
          /\ EpochOf(chip) \in {Local(Asked), Local(now)}
      BY <1>1, <1>2, <1>6 DEF GInv, GSure
    <2>2. PICK a \in 0 .. Seconds - 1 : a = Asked /\ (a = now \/ a = now - 1)
      BY <1>1, TimeOfPass DEF GInv
    <2>3. EpochOf(chip) \in Int
      BY <2>1, SecondOn DEF GInv, GChip
    <2>4. EpochOf(chip) \in {Local(now) - 1, Local(now)}
      <3>1. now \in Nat /\ a \in Nat
        BY DEF GInv, GTypes
      <3>2. QED
        BY <2>1, <2>2, <2>3, <3>1, PassOver
    <2>5. EpochOf(chip') - TZ_OFFSET - Epoch0 \in {now - 1, now}
      <3>1. EpochOf(chip') \in Int /\ now \in Nat
        BY <1>3, <2>3 DEF GInv, GTypes
      <3>2. QED
        BY <1>3, <2>4, <3>1, RightOf
    <2>6. QED
      BY <1>1, <1>2, <1>3, <2>1, <2>5 DEF Right, ChipEpoch, EpochOf
  <1>7. GSure'
    BY <1>1, <1>6 DEF GSure, Valid, HoldsDate, HoldsTime
  <1>8. QED
    BY <1>2, <1>4, <1>5, <1>7 DEF GInv

\* A second begins: what is known of the pass becomes a second old.
LEMMA SecondStep == ASSUME GInv, SecondBegins PROVE GInv'
  <1>1. /\ ~ late /\ late' = TRUE /\ now' = (now + 1) % Seconds
        /\ chip' = (IF now' = 0 THEN OtherTime ELSE Ticked(chip))
        /\ sure' = (sure /\ now' # 0) /\ (now' # 0 \/ pc = "read")
        /\ UNCHANGED <<shadow, gpsdata, timed, fresh, pc>>
    BY DEF SecondBegins
  <1>2. PICK q \in Nat, n \in Nat : q = Seconds /\ q > 0 /\ n = now /\ n <= q - 1
    BY GpsAssumption DEF GInv, GTypes
  <1>3. now' \in 0 .. Seconds - 1 /\ (now' = 0 \/ (now' = n + 1 /\ n + 1 <= q - 1))
    BY <1>1, <1>2, SMT
  <1>4. GTypes'
    BY <1>1, <1>3 DEF GInv, GTypes
  <1>5. GChip'
    <2>1. Filled(OtherTime) /\ OtherTime.c1 = chip.c1
      BY TimeStretch, AllNames DEF OtherTime, Filled, TimeRegisters
    <2>2. Filled(Ticked(chip)) /\ Ticked(chip).c1 = chip.c1
      BY TickKeeps, AllNames DEF GInv, GChip, TimeRegisters
    <2>3. QED
      BY <1>1, <2>1, <2>2 DEF GInv, GChip
  <1>6. CASE now' = 0
    <2>1. pc' = "read" /\ ~ sure'
      BY <1>1, <1>6
    <2>2. QED
      BY <1>4, <1>5, <2>1 DEF GInv, GStamp, GShadow, GSure
  <1>7. CASE now' # 0
    <2>1. now' = n + 1 /\ n + 1 \in 0 .. Seconds - 1 /\ n \in 0 .. Seconds - 1 /\ chip' = Ticked(chip)
      BY <1>1, <1>2, <1>3, <1>7
    <2>2. Asked = n /\ Asked' = n
      BY <1>1, <1>2, <2>1, SMT DEF Asked
    <2>3. GStamp'
      <3>1. n + 1 >= 1
        BY <1>2, SMT
      <3>2. QED
        BY <1>1, <2>1, <2>2, <3>1 DEF GInv, GStamp
    <2>4. GShadow'
      <3>1. ASSUME pc = "compare", fresh
            PROVE  \E c : /\ Filled(c) /\ c.c1 = shadow.c1 /\ \A r \in TimeRegisters : c[r] = shadow[r]
                          /\ chip' = Ticked(c)
        BY <1>1, <2>1, <3>1 DEF GInv, GShadow
      <3>2. QED
        BY <1>1, <3>1 DEF GShadow
    <2>5. ASSUME sure, pc \notin {"stop", "adjust"}
          PROVE  /\ "12_24" \notin chip'.c1 /\ Valid(chip')
                 /\ pc # "start" => Right'
                 /\ pc = "start" => EpochOf(chip') \in {Local(n), Local(n + 1)}
      <3>1. "12_24" \notin chip.c1 /\ Valid(chip) /\ Filled(chip)
        BY <2>5 DEF GInv, GSure, GChip
      <3>2. /\ Valid(chip') /\ chip'.c1 = chip.c1
            /\ EpochOf(chip) \in Int /\ EpochOf(chip') \in Int
            /\ "STOP" \in chip.c1 => chip' = chip
            /\ "STOP" \notin chip.c1 /\ EpochOf(chip) + 1 < Y2100 => EpochOf(chip') = EpochOf(chip) + 1
        BY <2>1, <3>1, SecondOn
      <3>3. PICK e \in Int, l \in Nat :
              /\ e = EpochOf(chip) /\ l = Local(0) /\ Local(n) = l + n /\ Local(n + 1) = l + (n + 1)
              /\ l + (n + 1) < Y2100
        BY <2>1, <3>2, Instants
      <3>4. Y2100 \in Int
        BY SMT DEF Y2100, ADay, Day0
      <3>5. pc # "start" => Right'
        <4> SUFFICES ASSUME pc # "start" PROVE Right'
          OBVIOUS
        <4>1. "STOP" \notin chip.c1 /\ e \in {Local(n) - 1, Local(n)}
          BY <1>2, <2>5, <3>2, <3>3, RightIs DEF GInv, GSure
        <4>2. e + 1 \in {l + (n + 1) - 1, l + (n + 1)} /\ e + 1 < Y2100
          BY <1>2, <3>3, <3>4, <4>1, SMT
        <4>3. EpochOf(chip') = e + 1
          BY <3>2, <3>3, <4>1, <4>2
        <4>4. EpochOf(chip') - TZ_OFFSET - Epoch0 \in {now' - 1, now'}
          <5>1. PICK p \in Nat, g \in Int : p = n + 1 /\ g = e + 1
            BY <1>2, SMT
          <5>2. g \in {Local(p) - 1, Local(p)}
            BY <3>3, <4>2, <5>1
          <5>3. g - TZ_OFFSET - Epoch0 \in {p - 1, p}
            BY <5>2, RightOf
          <5>4. EpochOf(chip') = g /\ now' = p
            BY <2>1, <4>3, <5>1
          <5>5. QED
            BY <5>3, <5>4
        <4>5. QED
          BY <3>2, <4>1, <4>4 DEF Right, ChipEpoch, EpochOf
      <3>6. ASSUME pc = "start" PROVE EpochOf(chip') \in {Local(n), Local(n + 1)}
        <4>1. e = l + n
          BY <1>2, <2>2, <2>5, <3>3, <3>6 DEF GInv, GSure
        <4>2. CASE "STOP" \in chip.c1
          BY <3>2, <3>3, <4>1, <4>2
        <4>3. CASE "STOP" \notin chip.c1
          <5>1. e + 1 = l + (n + 1)
            BY <1>2, <3>3, <4>1, SMT
          <5>2. QED
            BY <3>2, <3>3, <4>3, <5>1
        <4>4. QED
          BY <4>2, <4>3
      <3>7. QED
        BY <3>1, <3>2, <3>5, <3>6
    <2>6. GSure'
      <3>1. Local(Asked)' = Local(n) /\ Local(now)' = Local(n + 1)
        BY <2>1, <2>2 DEF Local
      <3>2. EpochOf(chip)' = EpochOf(chip') /\ Valid(chip)' = Valid(chip')
        BY DEF EpochOf, Valid, HoldsDate, HoldsTime
      <3>3. QED
        BY <1>1, <2>5, <3>1, <3>2 DEF GSure
    <2>7. QED
      BY <1>4, <1>5, <2>3, <2>4, <2>6 DEF GInv
  <1>8. QED
    BY <1>6, <1>7

LEMMA NextStep == ASSUME GInv, [NextGps]_gvars PROVE GInv'
  <1>1. CASE UNCHANGED gvars
    <2>1. UNCHANGED <<chip, shadow, now, late, gpsdata, timed, fresh, sure, pc>>
      BY <1>1 DEF gvars, dvars
    <2>2. GTypes' /\ GChip' /\ GStamp' /\ GShadow'
      BY <2>1 DEF GInv, GTypes, GChip, GStamp, GShadow, Asked
    <2>3. GSure'
      BY <2>1 DEF GInv, GSure, Right, ChipEpoch, Asked, Valid, HoldsDate, HoldsTime
    <2>4. QED
      BY <2>2, <2>3 DEF GInv
  <1>2. QED
    BY <1>1, ReadStep, FetchStep, CompareStep, StopStep, SetStep, StartStep, RefreshStep, SecondStep
    DEF NextGps, Pass

\* Once a pass has compared the clock as right, or has set and started it, in
\* 24-hour mode and by a sentence with a time, the clock runs and is no more
\* than the second of the pass behind: whatever registers a transfer that breaks
\* off leaves, whatever the battery has kept, whatever columns are empty, for
\* as long as the run lasts, wherever it begins from 2000 to 2099.
THEOREM SyncedAlways == SpecGps => []Synced
  <1>1. InitGps => GInv
    BY InitStep
  <1>2. GInv /\ [NextGps]_gvars => GInv'
    BY NextStep
  <1>3. GInv => Synced
    BY DEF GInv, GSure, Synced
  <1>4. QED
    BY <1>1, <1>2, <1>3, PTL DEF SpecGps

-----------------------------------------------------------------------------
(* The coordinates.                                                        *)

HasMark(g) == "newCoordinate" \in DOMAIN g
FInv == HasMark(gpsdata) /\ FixIsCurrent

\* What is parsed has status A or V, and tells a position with A.
LEMMA Told ==
  ASSUME NEW on, NEW place, NEW s, s = Sentence(on, place)
  PROVE  /\ s.status \in {"A", "V"}
         /\ s.status = "A" => Position(s) = <<Signed(s.latitude, s.south), Signed(s.longitude, s.west)>>
  <1>1. s.status \in {"A", "V"}
    BY DEF Sentence
  <1>2. "A" # "V"
    OBVIOUS
  <1>3. QED
    BY <1>1, <1>2 DEF Position

LEMMA FixStep == ASSUME FInv, [NextGps]_gvars PROVE FInv'
  <1>1. CASE UNCHANGED <<gpsdata, heard>>
    BY <1>1 DEF FInv, FixIsCurrent
  <1>2. CASE ReadAny
    <2>1. PICK b \in Buffers : Read(b)
      BY <1>2 DEF ReadAny
    <2>2. CASE First(b) = 0
      BY <1>1, <2>1, <2>2 DEF Read, Updated, FInv
    <2>3. CASE First(b) # 0
      <3> DEFINE s == b[First(b)]
      <3>1. PICK on, place : s = Sentence(on, place)
        BY <2>3, FirstOf
      <3>2. heard' = Position(s) /\ gpsdata' = Parse(gpsdata, s).data
        BY <2>1, <2>3 DEF Read, Updated
      <3> HIDE DEF s
      <3>3. s.status \in {"A", "V"}
        BY <3>1, Told
      <3>4. CASE s.time # None /\ ~ s.whole
        <4>1. gpsdata' = [gpsdata EXCEPT !.newCoordinate = FALSE, !.newStamp = FALSE]
          BY <3>2, <3>4 DEF Parse
        <4>2. HasMark(gpsdata') /\ ~ gpsdata'.newCoordinate
          BY <4>1 DEF FInv, HasMark
        <4>3. QED
          BY <4>2 DEF FInv, FixIsCurrent
      <3>5. CASE ~ (s.time # None /\ ~ s.whole)
        <4>1. /\ HasMark(gpsdata') /\ gpsdata'.newCoordinate = (s.status = "A")
              /\ gpsdata'.latitude = Axis(gpsdata.latitude, s.status = "A", s.latitude, s.south)
              /\ gpsdata'.longitude = Axis(gpsdata.longitude, s.status = "A", s.longitude, s.west)
          BY <3>2, <3>5 DEF Parse, HasMark, Located
        <4>2. CASE s.status = "A"
          <5>1. heard' = <<Signed(s.latitude, s.south), Signed(s.longitude, s.west)>>
            BY <3>1, <3>2, <4>2, Told
          <5>2. heard' # <<>>
            BY <5>1
          <5>3. heard'[1] = Signed(s.latitude, s.south) /\ heard'[2] = Signed(s.longitude, s.west)
            BY <5>1
          <5>4. \A old, number, negative :
                  Signed(number, negative) \in {None, Axis(old, TRUE, number, negative)}
            BY DEF Signed, Axis
          <5>5. /\ heard'[1] \in {None, gpsdata'.latitude}
                /\ heard'[2] \in {None, gpsdata'.longitude}
            <6>1. (s.status = "A") = TRUE
              BY <4>2
            <6>2. /\ gpsdata'.latitude = Axis(gpsdata.latitude, TRUE, s.latitude, s.south)
                  /\ gpsdata'.longitude = Axis(gpsdata.longitude, TRUE, s.longitude, s.west)
              BY <4>1, <6>1, Zenon
            <6>3. heard'[1] \in {None, Axis(gpsdata.latitude, TRUE, s.latitude, s.south)}
              BY <5>3, <5>4, Zenon
            <6>4. heard'[2] \in {None, Axis(gpsdata.longitude, TRUE, s.longitude, s.west)}
              BY <5>3, <5>4, Zenon
            <6>5. QED
              BY <6>2, <6>3, <6>4, Zenon
          <5>6. QED
            BY <4>1, <5>2, <5>5 DEF FInv, FixIsCurrent
        <4>3. CASE s.status # "A"
          BY <4>1, <4>3 DEF FInv, FixIsCurrent
        <4>4. QED
          BY <4>2, <4>3
      <3>6. QED
        BY <3>4, <3>5
    <2>4. QED
      BY <2>2, <2>3
  <1>3. CASE ReadMidway \/ Pass \/ SecondBegins \/ UNCHANGED gvars
    BY <1>1, <1>3 DEF ReadMidway, Pass, Fetch, Compare, Stop, Set, Start, Refresh, SecondBegins, gvars, FInv
  <1>4. QED
    BY <1>2, <1>3 DEF NextGps

\* Coordinates that are called new are those of the sentence last parsed, with
\* its signs, as far as it has them: whatever columns of it are empty, whatever
\* sentences came before it and whatever positions they told.
THEOREM FixIsCurrentAlways == SpecGps => []FixIsCurrent
  <1>1. InitGps => FInv
    BY DEF InitGps, FInv, FixIsCurrent, HasMark, NoData
  <1>2. FInv /\ [NextGps]_gvars => FInv'
    BY FixStep
  <1>3. FInv => FixIsCurrent
    BY DEF FInv
  <1>4. QED
    BY <1>1, <1>2, <1>3, PTL DEF SpecGps
=============================================================================
