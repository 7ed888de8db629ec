------------------------------- MODULE MCXrtc -------------------------------
(* The last seconds of 2023, an alarm at midnight, periods at the limits.  *)
EXTENDS XrtcProgram
NewYear == {[date |-> bcddate(2023, 12, 31), time |-> bcdtime(23, 59, 58)]}
Midnight == {bcdtime(0, 0, 0)}
Limits == {0, 255, 256, 15301}
=============================================================================
