-------------------------- MODULE XRTC_PCF85063A ---------------------------
(***************************************************************************)
(* The driver of the clock chip (src/cpp/XRTC_PCF85063A.cpp): a shadow of  *)
(* the chip's registers in memory, which update() fills and every other    *)
(* call changes and sends, in part, back.  A transfer may break off: the   *)
(* registers before that point have changed, and the call returns false.   *)
(***************************************************************************)
EXTENDS PCF85063A

VARIABLES
  chip,    \* the chip's registers
  shadow,  \* _xrtc_register
  ok,      \* what the last call returned
  faults   \* transfers that may yet break off

dvars == <<chip, shadow, ok, faults>>

-----------------------------------------------------------------------------
(* Transfers.                                                              *)

\* Registers that go through: all, or fewer of them.
Sent(n) == IF faults > 0 THEN 0 .. n ELSE {n}
Result(good) == ok' = good /\ faults' = faults - (IF good THEN 0 ELSE 1)

\* s is the shadow as the call leaves it.
_write_register(s, a, n) ==
  \E k \in Sent(n), new \in {s} :
    /\ shadow' = new
    /\ chip' = Written(chip, new, From(a, k))
    /\ Result(k = n)

_read_register(a, n) ==
  \E k \in Sent(n) :
    /\ shadow' = [r \in Names |-> IF r \in From(a, k) THEN chip[r] ELSE shadow[r]]
    /\ Result(k = n)
    /\ UNCHANGED chip

update == _read_register(11, 18)
On(flags, f, on) == IF on THEN flags \cup {f} ELSE flags \ {f}
saveSettings(s) == _write_register([s EXCEPT !.c1 = @ \ {"SR"}], 0, 4)
setRunning(on) == [shadow EXCEPT !.c1 = On(@, "STOP", ~ on)]
StartStopped == saveSettings(shadow)        \* mutant: the shadow still says stop
start == saveSettings(setRunning(TRUE))
stop  == saveSettings(setRunning(FALSE))

reset ==
  \E k \in Sent(2) :
    /\ chip' = IF k = 2 THEN ResetChip ELSE chip
    /\ Result(k = 2)
    /\ UNCHANGED shadow

-----------------------------------------------------------------------------
(* The time.                                                               *)

getBcdDateTimeNow ==
  [time |-> [second |-> shadow.seconds % 128, minute |-> shadow.minutes, hour |-> shadow.hours, wday |-> 0],
   date |-> [day |-> shadow.days, month |-> shadow.months, year |-> 32 * 256 + shadow.years]]

is12hourMode == "12_24" \in shadow.c1
getEpochNow ==
  bcdDateTimeToEpoch(IF is12hourMode THEN bcdDateTime12to24(getBcdDateTimeNow) ELSE getBcdDateTimeNow)

TimeIn(s, t) == [s EXCEPT !.seconds = t.second % 128, !.minutes = t.minute % 128, !.hours = t.hour % 64]
DateIn(s, d) == [s EXCEPT !.days = d.day % 64, !.weekdays = bcdDateToWeekday(d),
                          !.months = d.month % 32, !.years = d.year % 256]

AdjustTimeOnly(b) == _write_register(DateIn(TimeIn(shadow, b.time), b.date), 4, 3)  \* mutant
adjustBcdDateTime(b) == _write_register(DateIn(TimeIn(shadow, b.time), b.date), 4, 7)
adjustEpoch(e) ==
  LET b == epochToBcdDateTime(e)
  IN  adjustBcdDateTime(IF is12hourMode THEN bcdDateTime24to12(b) ELSE b)
adjustBcdDate(d) == _write_register(DateIn(shadow, d), 7, 4)
adjustBcdTime(t) == _write_register(TimeIn(shadow, t), 4, 3)

-----------------------------------------------------------------------------
(* The alarm and the timer.                                                *)

WriteControl2(s) == _write_register(s, 1, 1)

\* The enable bits of an alarm are inverted; wday of the time is the day.
setAlarmSettings(t, on) ==
  [shadow EXCEPT !.aseconds  = (t.second % 128) + (IF on.second THEN 0 ELSE 128),
                 !.aminutes  = (t.minute % 128) + (IF on.minute THEN 0 ELSE 128),
                 !.ahours    = (t.hour % 64) + (IF on.hour THEN 0 ELSE 128),
                 !.adays     = (t.wday % 64) + (IF on.day THEN 0 ELSE 128),
                 !.aweekdays = (on.weekdays % 8) + (IF on.weekday THEN 0 ELSE 128)]

\* getAlarmTime and getAlarmSettings: what setAlarmSettings has put there.
getAlarmTime == [second |-> shadow.aseconds % 128, minute |-> shadow.aminutes % 128,
                 hour |-> shadow.ahours % 64, wday |-> shadow.adays % 64]
getAlarmSettings ==
  [second |-> shadow.aseconds < 128, minute |-> shadow.aminutes < 128, hour |-> shadow.ahours < 128,
   day |-> shadow.adays < 128, weekday |-> shadow.aweekdays < 128, weekdays |-> shadow.aweekdays % 8]

AlarmFlags(on) == [shadow EXCEPT !.c2 = On(@ \ {"AF"}, "AIE", on)]
activeAlarm(on) == _write_register(AlarmFlags(on), 11, 5)
clearAlarmFlag == WriteControl2([shadow EXCEPT !.c2 = @ \ {"AF"}])
clearBoth == WriteControl2([shadow EXCEPT !.c2 = @ \ {"AF", "TF"}])    \* mutant
clearTimerFlag == WriteControl2([shadow EXCEPT !.c2 = @ \ {"TF"}])

\* The timer's registers and the two control registers after them.
WriteTimerFar(s) == _write_register([s EXCEPT !.c2 = @ \ {"TF"}], 16, 7)  \* mutant: into the clock
WriteTimer(s) == _write_register([s EXCEPT !.c2 = @ \ {"TF"}], 16, 4)
TimerFlags(s, on, interrupt) ==
  [s EXCEPT !.t = IF on THEN @ ELSE 0, !.mode = On(On(@, "TE", on), "TIE", interrupt)]
activeTimer(on, interrupt) == WriteTimer(TimerFlags(shadow, on, interrupt))

\* Seconds up to 255, minutes from 256 to 15300.
CountShort(seconds) == [t |-> IF seconds > 255 THEN seconds \div 60 ELSE seconds,
                        clock |-> IF seconds > 255 THEN {"TCF0", "TCF1"} ELSE {"TCF1"}]  \* mutant: cut off
CountDown(seconds) == [t |-> IF seconds > 255 THEN (seconds + 59) \div 60 ELSE seconds,
                       clock |-> IF seconds > 255 THEN {"TCF0", "TCF1"} ELSE {"TCF1"}]
Programmed(seconds) == CountDown(IF seconds > 15300 THEN 15300 ELSE seconds)

startCountdownTimer(seconds, pulse) ==
  LET c == Programmed(seconds)
      s == [shadow EXCEPT !.t = c.t,
                          !.mode = On((@ \ {"TCF0", "TCF1"}) \cup c.clock, "TI_TP", pulse)]
  IN  WriteTimer(TimerFlags(s, c.t # 0, c.t # 0))

\* The timer as getTimerValues shows it and activateTimer takes it.
getTimerValues == [value |-> shadow.t, mode |-> shadow.mode]
activateTimer(s) == WriteTimer([shadow EXCEPT !.t = s.value, !.mode = s.mode])
changeClockOutFrequency(cof) ==
  WriteControl2([shadow EXCEPT !.c2 = (@ \ {"COF0", "COF1", "COF2"}) \cup cof])
=============================================================================
