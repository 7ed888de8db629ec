------------------------------ MODULE MCDates -------------------------------
(* From the New Year before each turn of a century from 1900 to 2299 until *)
(* the leap year after it, the last years, the hours whose digits carry.   *)
EXTENDS CenturyDays
Turns == {15020, 51179, 87704, 124228, 159226}
Eve == {51543}
Carries == {0, 9, 11, 12, 19, 23}
=============================================================================
