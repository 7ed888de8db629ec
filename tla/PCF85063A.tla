----------------------------- MODULE PCF85063A ------------------------------
(***************************************************************************)
(* The clock chip behind XRTC_PCF85063A, as the driver uses it: eighteen   *)
(* registers at addresses 0 to 17, written and read from an address        *)
(* upwards, over the last one to the first.  Flags of a register are the   *)
(* set of those that are on; times are packed decimals, a seconds register *)
(* of 128 and more says that the oscillator stopped (OS), an alarm         *)
(* register of 128 and more is not compared (AEN).                         *)
(***************************************************************************)
EXTENDS bcddatetime, Sequences

Registers ==
  <<"c1", "c2", "offset", "ram", "seconds", "minutes", "hours", "days", "weekdays", "months",
    "years", "aseconds", "aminutes", "ahours", "adays", "aweekdays", "t", "mode">>
Names == {Registers[i] : i \in 1 .. 18}

\* The n registers from address a on.
From(a, n) == {Registers[(i % 18) + 1] : i \in a .. a + n - 1}

\* Writing 0 clears an event flag, writing 1 leaves it.
Events == {"AF", "TF"}
Latch(old, new) == (new \ Events) \cup (new \cap old \cap Events)
Written(chip, shadow, rs) ==
  [r \in Names |-> IF r \notin rs THEN chip[r]
                   ELSE IF r = "c2" THEN Latch(chip[r], shadow[r])
                   ELSE shadow[r]]

ResetChip == [r \in Names |-> CASE r \in {"c1", "c2", "mode"} -> {}
                                [] r = "seconds" -> 128
                                [] r \in {"days", "months"} -> 1
                                [] r = "weekdays" -> 6
                                [] r \in From(11, 5) -> 128
                                [] OTHER -> 0]

-----------------------------------------------------------------------------
(* Time: the calendar of 2000 to 2099, hours of 24 or of 12.               *)

MonthDays(c) ==
  CASE c.months = 2 -> IF btod(c.years) % 4 = 0 THEN 29 ELSE 28
    [] btod(c.months) \in {4, 6, 9, 11} -> 30
    [] OTHER -> 31

\* c a day later.
NextDay(c) ==
  LET last == btod(c.days) = MonthDays(c)
      year == last /\ btod(c.months) = 12
  IN  [c EXCEPT !.years = IF year THEN dtob((btod(@) + 1) % 100) ELSE @,
                !.months = IF year THEN 1 ELSE IF last THEN dtob(btod(@) + 1) ELSE @,
                !.days = IF last THEN 1 ELSE dtob(btod(@) + 1),
                !.weekdays = (@ + 1) % 7]

Hour24(c) == btod(IF "12_24" \in c.c1
                    THEN bcdTime12to24([hour |-> c.hours, minute |-> 0, second |-> 0, wday |-> 0]).hour
                    ELSE c.hours)
HourRegister(c, h) ==
  IF "12_24" \in c.c1 THEN dtob(((h + 11) % 12) + 1) + (IF h >= 12 THEN 32 ELSE 0) ELSE dtob(h)

\* c a second later.
NextSecond(c) ==
  LET os == 128 * (c.seconds \div 128)
      s  == btod(c.seconds % 128)
      m  == btod(c.minutes)
      h  == Hour24(c)
      in == [c EXCEPT !.seconds = os + dtob((s + 1) % 60),
                      !.minutes = IF s = 59 THEN dtob((m + 1) % 60) ELSE @,
                      !.hours = IF s = 59 /\ m = 59 THEN HourRegister(c, (h + 1) % 24) ELSE @]
  IN  IF s = 59 /\ m = 59 /\ h = 23 THEN NextDay(in) ELSE in

\* The alarm compares what is enabled when the second has come.
AlarmPairs == {<<"aseconds", "seconds">>, <<"aminutes", "minutes">>, <<"ahours", "hours">>,
               <<"adays", "days">>, <<"aweekdays", "weekdays">>}
Rings(c) ==
  LET on == {p \in AlarmPairs : c[p[1]] < 128}
  IN  on # {} /\ \A p \in on : c[p[1]] = c[p[2]] % 128

Ticked(c) ==
  IF "STOP" \in c.c1 THEN c
  ELSE LET n == NextSecond(c) IN [n EXCEPT !.c2 = IF Rings(n) THEN @ \cup {"AF"} ELSE @]

Counts(c) == "TE" \in c.mode /\ c.t > 0
Expired(c) == [c EXCEPT !.c2 = @ \cup {"TF"}]
=============================================================================
