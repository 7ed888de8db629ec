----------------------------- MODULE WallClock ------------------------------
(***************************************************************************)
(* The Gregorian calendar and the time of day, as a clock on the wall      *)
(* shows them: what the conversions of bcddatetime are checked against.    *)
(***************************************************************************)
EXTENDS Integers

VARIABLES
  date,  \* <<year, month, day>>
  time,  \* <<hour, minute, second>>
  wday   \* 0 for Sunday to 6

wvars == <<date, time, wday>>

Leaps(y) == y % 4 = 0 /\ (y % 100 # 0 \/ y % 400 = 0)
Days(y, m) == CASE m = 2 -> IF Leaps(y) THEN 29 ELSE 28
                [] m \in {4, 6, 9, 11} -> 30
                [] OTHER -> 31

NextDate(d) ==
  CASE d[3] < Days(d[1], d[2]) -> <<d[1], d[2], d[3] + 1>>
    [] d[3] = Days(d[1], d[2]) /\ d[2] < 12 -> <<d[1], d[2] + 1, 1>>
    [] OTHER -> <<d[1] + 1, 1, 1>>

NextTime(t) ==
  CASE t[3] < 59 -> <<t[1], t[2], t[3] + 1>>
    [] t[3] = 59 /\ t[2] < 59 -> <<t[1], t[2] + 1, 0>>
    [] OTHER -> <<(t[1] + 1) % 24, 0, 0>>

PassDay == date' = NextDate(date) /\ wday' = (wday + 1) % 7

Second == time' = NextTime(time) /\ IF time' = <<0, 0, 0>> THEN PassDay ELSE UNCHANGED <<date, wday>>
Sleep  == PassDay /\ UNCHANGED time     \* nobody looks for a day

Spec == (date \in Int \X (1 .. 12) \X (1 .. 31) /\ time \in (0 .. 23) \X (0 .. 59) \X (0 .. 59)
         /\ wday \in 0 .. 6)
        /\ [][Second \/ Sleep]_wvars
=============================================================================
