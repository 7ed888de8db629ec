---------------------------- MODULE XrtcProgram ----------------------------
(***************************************************************************)
(* A program that calls the driver of the clock chip in any order, while   *)
(* the clock runs and transfers break off: the calls of the sketches of    *)
(* "Two Wire Interfaces/External_RTC", in all their orders.                *)
(***************************************************************************)
EXTENDS XRTC_PCF85063A

CONSTANTS
  Dates,       \* what the clock is set to: records [date, time]
  Alarms,      \* what the alarm is set to: times
  Periods,     \* what the timer is set to, in seconds
  MaxCalls, MaxTicks, MaxFaults  \* bounds of the check

ASSUME XrtcAssumption ==
  /\ MaxCalls \in Nat /\ MaxTicks \in Nat /\ MaxFaults \in Nat
  /\ Periods \subseteq Nat

VARIABLES
  call,    \* the last call, or "tick"
  more,    \* activeAlarm has its second transfer to make
  asked,   \* the period the last successful startCountdownTimer asked for, or -1
  calls, ticks

xvars == <<dvars, call, more, asked, calls, ticks>>

\* A chip that runs, set to b, its alarm off or armed for t.
ChipAt(b) == [DateIn(TimeIn(ResetChip, b.time), b.date) EXCEPT !.c2 = {"COF0"}]
ArmedAt(b, t) == [ChipAt(b) EXCEPT !.c2 = {"COF0", "AIE"}, !.aseconds = t.second,
                                   !.aminutes = t.minute, !.ahours = t.hour]

InitXrtc ==
  /\ \E b \in Dates : chip = ChipAt(b) \/ \E t \in Alarms : chip = ArmedAt(b, t)
  /\ shadow = chip                              \* the update() of setup()
  /\ ok = TRUE /\ faults = MaxFaults
  /\ call = "update" /\ more = FALSE /\ asked = -1
  /\ calls = 0 /\ ticks = 0

Calls(name) ==
  /\ calls < MaxCalls /\ ~ more
  /\ calls' = calls + 1
  /\ call' = name
  /\ UNCHANGED ticks

Update == Calls("update") /\ update /\ UNCHANGED <<more, asked>>
Reset  == Calls("reset") /\ reset /\ asked' = -1 /\ UNCHANGED more

Flag(r, f, on) == [shadow EXCEPT ![r] = On(@, f, on)]
Save ==
  /\ Calls("saveSettings")
  /\ \/ start \/ stop
     \/ \E on \in BOOLEAN :
          saveSettings([Flag("c2", "MI", on) EXCEPT !.c1 = On(@, "CAP_SEL", on), !.offset = 1])
  /\ UNCHANGED <<more, asked>>

Adjust ==
  /\ Calls("adjust")
  /\ \E b \in Dates : \/ adjustBcdDateTime(b) \/ adjustEpoch(bcdDateTimeToEpoch(b))
                      \/ adjustBcdDate(b.date) \/ adjustBcdTime(b.time)
  /\ UNCHANGED <<more, asked>>

SetAlarm ==
  /\ calls < MaxCalls /\ ~ more
  /\ \/ \E t \in Alarms, day \in BOOLEAN :
          shadow' = setAlarmSettings(t, [second |-> TRUE, minute |-> TRUE, hour |-> TRUE,
                                         day |-> day, weekday |-> FALSE, weekdays |-> 0])
     \/ shadow' = setAlarmSettings(getAlarmTime, [getAlarmSettings EXCEPT !.hour = ~ @])
  /\ calls' = calls + 1 /\ call' = "setAlarmSettings"
  /\ UNCHANGED <<chip, ok, faults, more, asked, ticks>>

ActiveAlarm ==
  /\ Calls("activeAlarm")
  /\ \E on \in BOOLEAN : activeAlarm(on)
  /\ more' = ok'
  /\ UNCHANGED asked

ActiveAlarm2 ==
  /\ more
  /\ WriteControl2(shadow)
  /\ more' = FALSE
  /\ UNCHANGED <<call, asked, calls, ticks>>

ClearAlarm == Calls("clearAlarmFlag") /\ clearAlarmFlag /\ UNCHANGED <<more, asked>>
ClearTimer == Calls("clearTimerFlag") /\ clearTimerFlag /\ UNCHANGED <<more, asked>>
ClockOut ==
  /\ Calls("changeClockOutFrequency")
  /\ \E cof \in {{}, {"COF1"}} : changeClockOutFrequency(cof)
  /\ UNCHANGED <<more, asked>>

Countdown ==
  /\ Calls("timer")
  /\ \E seconds \in Periods, pulse \in BOOLEAN :
       /\ startCountdownTimer(seconds, pulse)
       /\ asked' = IF ok' THEN seconds ELSE -1
  /\ UNCHANGED more

Timer ==
  /\ Calls("timer")
  /\ \/ \E on, interrupt \in BOOLEAN : activeTimer(on, interrupt)
     \/ activateTimer([value |-> 64, mode |-> {"TI_TP", "TIE", "TE"}])  \* XRTC_Blink_PFM
     \/ activateTimer([getTimerValues EXCEPT !.mode = @ \ {"TI_TP"}])
  /\ asked' = -1
  /\ UNCHANGED more

\* A second passes; the countdown runs out.
Tick ==
  /\ ticks < MaxTicks
  /\ ticks' = ticks + 1
  /\ chip' = Ticked(chip)
  /\ call' = "tick"
  /\ UNCHANGED <<shadow, ok, faults, more, asked, calls>>

Expire ==
  /\ Counts(chip) /\ "TF" \notin chip.c2
  /\ chip' = Expired(chip)
  /\ call' = "tick"
  /\ UNCHANGED <<shadow, ok, faults, more, asked, calls, ticks>>

NextXrtc == \/ Update \/ Reset \/ Save \/ Adjust
            \/ SetAlarm \/ ActiveAlarm \/ ActiveAlarm2 \/ ClearAlarm
            \/ Countdown \/ Timer \/ ClearTimer \/ ClockOut
            \/ Tick \/ Expire
SpecXrtc == InitXrtc /\ [][NextXrtc]_xvars

-----------------------------------------------------------------------------

TimeRegisters  == {"seconds", "minutes", "hours", "days", "weekdays", "months", "years"}
AlarmRegisters == {"aseconds", "aminutes", "ahours", "adays", "aweekdays"}

\* The chip's registers that a call may change, whole or broken off.
Owned(c) ==
  CASE c = "adjust"                -> TimeRegisters
    [] c = "saveSettings"          -> {"c1", "c2", "offset", "ram"}
    [] c = "activeAlarm"           -> AlarmRegisters \cup {"c2"}
    [] c \in {"clearAlarmFlag", "clearTimerFlag", "changeClockOutFrequency"} -> {"c2"}
    [] c = "timer"                 -> {"t", "mode", "c1", "c2"}
    [] c = "tick"                  -> TimeRegisters \cup {"c2"}
    [] c = "reset"                 -> Names
    [] OTHER                       -> {}

\* No call disturbs what is not its own: the clock goes on through every
\* change of settings, although each sends back a stretch of a stale shadow.
OnlyItsOwn == [][\A r \in Names : chip'[r] # chip[r] => r \in Owned(call')]_xvars

\* The chip counts at least the seconds asked for and at most 59 more, up to
\* 15300, whatever has been called since; 0 stops it.
PeriodCovers ==
  LET unit == IF "TCF0" \in chip.mode THEN 60 ELSE 1
      want == IF asked > 15300 THEN 15300 ELSE asked
  IN  asked >= 0 =>
        /\ "TCF1" \in chip.mode
        /\ want <= chip.t * unit /\ chip.t * unit < want + 60
        /\ (want > 0) = Counts(chip)
        /\ (want > 0) = ("TIE" \in chip.mode)

\* An alarm that update() has shown stays until a call about the alarm.
SeenAlarmKept ==
  [][("AF" \in chip.c2 /\ "AF" \in shadow.c2 /\ "AF" \notin chip'.c2)
       => call' \in {"clearAlarmFlag", "activeAlarm", "reset"}]_xvars

\* "An alarm once raised, if clearAlarmFlag does not stop it, keeps INT low"
\* (XRTC_Interrupt/README.md:118): also one raised since the last update().
AlarmHolds ==
  [][("AF" \in chip.c2 /\ "AF" \notin chip'.c2)
       => call' \in {"clearAlarmFlag", "activeAlarm", "reset"}]_xvars
=============================================================================
