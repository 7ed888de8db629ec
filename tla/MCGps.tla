------------------------------- MODULE MCGps --------------------------------
EXTENDS XRTC_GPS_Adjust
\* North and south of the equator.
BothSides == {<<-1, 2>>, <<1, 2>>}
\* 2023-12-31 23:59:59 in the sketch's zone.
NewYearsEve == 86400 * (60310 - Day0) - TZ_OFFSET - 1
\* A clock that is right, in 24 hours, running or not, and in 12 hours; and one
\* in 12 hours that is half a year behind.
At(h, m, flags) ==
  [DateIn(TimeIn(ResetChip, [bcdtime(0, 59, 58) EXCEPT !.hour = h]), bcddate(2023, m, 31))
     EXCEPT !.c1 = flags]
Batteries == {At(35, 12, {}), At(35, 12, {"STOP"}), At(49, 12, {"12_24"}), At(17, 5, {"12_24"})}
\* All columns; no fix with the time and an old position, or not even a whole
\* second, or the time only; nothing; a fix without one column, or without time.
Sentences == {Columns, Columns \ {"A"}, {"time", "date"}, {"time", "whole", "date"}, {}}
           \cup {Columns \ {c} : c \in {"latitude", "longitude", "time", "date"}}
=============================================================================
