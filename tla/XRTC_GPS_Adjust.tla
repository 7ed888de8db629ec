-------------------------- MODULE XRTC_GPS_Adjust ---------------------------
(***************************************************************************)
(* The sketch External_RTC/XRTC_GPS_Adjust: the clock chip is set by a     *)
(* satellite receiver.  Each pass of loop() reads what the receiver has    *)
(* sent in the last second, parses it, and where the clock differs stops   *)
(* it, sets it and starts it again, one transfer after the other.          *)
(* A run is of Seconds seconds from Epoch0 on; when they are over it       *)
(* starts again, with a clock that shows another time.                     *)
(***************************************************************************)
EXTENDS XRTC_PCF85063A, GPS_RMC

CONSTANTS
  Epoch0,     \* when it begins
  Seconds,    \* bound of the check
  Breaks,     \* transfers that break off
  Kept,       \* chips a battery has kept, for a reset() that does not get through
  Places,     \* latitudes and longitudes its sentences tell
  Shapes      \* the columns they fill, of these:

Columns == {"time", "whole", "A", "latitude", "south", "longitude", "west", "date"}

TZ_OFFSET == 9 * 3600

\* The clock has two digits of the year.
ASSUME GpsAssumption ==
  /\ Epoch0 \in Nat /\ Seconds \in Nat \ {0} /\ Breaks \in Nat
  /\ epochToMjd(Epoch0 + TZ_OFFSET) > 51544                    \* after 2000-01-01
  /\ epochToMjd(Epoch0 + TZ_OFFSET + Seconds - 1) < 88069      \* before 2100-01-01
  /\ \A c \in Kept : DOMAIN c = Names
  /\ Places \subseteq Int \X Int
  /\ Shapes \subseteq SUBSET Columns

VARIABLES
  now,      \* the second it is, from Epoch0
  late,     \* a second has begun since the receiver's sentences were read
  gpsdata,
  heard,    \* the position in the sentence gpsdata was last parsed from, if it was a fix
  timed,    \* that of this pass has a time
  fresh,    \* this pass read the clock
  sure,     \* history: the last pass saw the clock right, or set and started it (below)
  pc

gvars == <<dvars, now, late, gpsdata, heard, timed, fresh, sure, pc>>

Stamps == [n \in 0 .. Seconds - 1 |-> epochToBcdDateTime(Epoch0 + n)]

-----------------------------------------------------------------------------
(* What the receiver sends.                                                *)

Noise == [rmc |-> FALSE]

\* A sentence with the columns on; "A" is a fix, "whole" the start of a second.
\* Without a fix it may still have the time, or an old position.
Sentence(on, place) ==
  [rmc |-> TRUE, whole |-> "whole" \in on, status |-> IF "A" \in on THEN "A" ELSE "V",
   time      |-> IF "time" \in on THEN Stamps[now].time ELSE None,
   date      |-> IF "date" \in on THEN Stamps[now].date ELSE None,
   latitude  |-> IF "latitude" \in on THEN (IF place[1] < 0 THEN -place[1] ELSE place[1]) ELSE None,
   longitude |-> IF "longitude" \in on THEN (IF place[2] < 0 THEN -place[2] ELSE place[2]) ELSE None,
   south |-> "south" \in on /\ place[1] < 0, west |-> "west" \in on /\ place[2] < 0]

\* What a fix says of the position, south and west negative.
Signed(number, negative) == IF number # None /\ negative THEN -number ELSE number
Position(s) == IF s.status = "V" THEN <<>>
               ELSE <<Signed(s.latitude, s.south), Signed(s.longitude, s.west)>>
Fix(place) == Sentence(Columns, place)
Cold == Sentence({}, <<0, 0>>)

Buffers == {<<Noise>>} \cup {<<Sentence(on, place)>> : on \in Shapes, place \in Places}
           \cup UNION {{<<Noise, Fix(place)>>, <<Cold, Fix(place)>>} : place \in Places}

-----------------------------------------------------------------------------

InitGps ==
  /\ now = 0 /\ late = TRUE
  /\ gpsdata = NoData
  /\ heard = <<>> /\ timed = FALSE
  /\ chip \in {ResetChip} \cup Kept                    \* reset() went through, or not
  /\ shadow = [r \in Names |-> IF r \in {"c1", "c2", "mode"} THEN {} ELSE 0]   \* static storage
  /\ ok = TRUE /\ faults = Breaks
  /\ fresh = FALSE /\ sure = FALSE
  /\ pc = "read"

\* GPS.readBytes and GPS_RMC.update.
Read(buffer) ==
  /\ pc = "read" /\ late
  /\ late' = FALSE
  /\ LET r == Updated(gpsdata, buffer)
     IN  /\ gpsdata' = r.data
         /\ heard' = IF First(buffer) = 0 THEN heard ELSE Position(buffer[First(buffer)])
         /\ timed' = (r.good /\ buffer[First(buffer)].time # None)
         /\ pc' = IF r.good THEN "update" ELSE "read"
  /\ UNCHANGED <<dvars, now, fresh, sure>>
ReadAny == \E b \in Buffers : Read(b)

\* Bytes that do not begin with a sentence are dropped.
ReadMidway ==
  /\ pc = "read" /\ late
  /\ late' = FALSE
  /\ UNCHANGED <<dvars, now, gpsdata, heard, timed, fresh, sure, pc>>

\* XRTC.update(): its result is not looked at.
Fetch ==
  /\ pc = "update"
  /\ update
  /\ fresh' = ok'
  /\ pc' = "compare"
  /\ UNCHANGED <<now, late, gpsdata, heard, timed, sure>>

gps_time == bcdDateTimeToEpoch(gpsdata.stamp) + TZ_OFFSET

\* What was read is what setting the clock to e sends, but for the mark of the
\* oscillator.
HoldsAs(e) ==
  LET b == epochToBcdDateTime(e)
      s == DateIn(TimeIn(shadow, b.time), b.date)
  IN  /\ shadow.seconds \in {s.seconds, s.seconds + 128}
      /\ \A r \in {"minutes", "hours", "days", "months", "years"} : shadow[r] = s[r]

\* The comparison.  The clock was seen right if it was read whole and runs, in
\* 24-hour mode, with the date itself (not a 31 April for 1 May, which is the
\* same epoch), and the sentence had a time (without one the old time is kept).
Compare ==
  /\ pc = "compare"
  /\ IF gps_time # getEpochNow
       THEN pc' = "stop" /\ UNCHANGED sure
       ELSE /\ pc' = "read"
            /\ sure' = (/\ fresh /\ shadow.c1 \cap {"STOP", "12_24"} = {}
                        /\ HoldsAs(gps_time) /\ timed)
  /\ fresh' = FALSE
  /\ UNCHANGED <<dvars, now, late, gpsdata, heard, timed>>

Stop ==
  /\ pc = "stop"
  /\ stop
  /\ pc' = "adjust"
  /\ UNCHANGED <<now, late, gpsdata, heard, timed, fresh, sure>>

\* It was set if that got through, in 24-hour mode, by a sentence with a time.
Set ==
  /\ pc = "adjust"
  /\ adjustEpoch(gps_time)
  /\ sure' = (ok' /\ "12_24" \notin chip.c1 /\ timed)
  /\ pc' = "start"
  /\ UNCHANGED <<now, late, gpsdata, heard, timed, fresh>>

Start ==
  /\ pc = "start"
  /\ start
  /\ sure' = (sure /\ ok')
  /\ pc' = "refresh"
  /\ UNCHANGED <<now, late, gpsdata, heard, timed, fresh>>

Refresh ==
  /\ pc = "refresh"
  /\ update
  /\ pc' = "read"
  /\ UNCHANGED <<now, late, gpsdata, heard, timed, fresh, sure>>

\* A second begins; a pass takes less than one.
OtherTime == [r \in Names |-> IF r = "hours" THEN HourRegister(chip, 0)
                              ELSE IF r \in From(4, 7) THEN ResetChip[r] ELSE chip[r]]
SecondBegins ==
  /\ ~ late
  /\ late' = TRUE
  /\ now' = (now + 1) % Seconds
  /\ chip' = IF now' = 0 THEN OtherTime ELSE Ticked(chip)
  /\ sure' = (sure /\ now' # 0)
  /\ now' # 0 \/ pc = "read"
  /\ UNCHANGED <<shadow, ok, faults, gpsdata, heard, timed, fresh, pc>>

Pass == Fetch \/ Compare \/ Stop \/ Set \/ Start \/ Refresh
NextGps == ReadAny \/ ReadMidway \/ Pass \/ SecondBegins

\* A pass goes on, seconds go by, and a time and date are read again and again.
\* (Steps are told by what they do to pc and late, which is quicker to evaluate.)
GoesOn  == pc # "read" /\ \E p \in {"read", "compare", "stop", "adjust", "start", "refresh"} :
                            pc' = p /\ p # pc
TimeGoes == ~ late /\ late' = TRUE
TimeRead == pc = "read" /\ late /\ late' = FALSE /\ pc' = "update" /\ timed' = TRUE
SpecGps == InitGps /\ [][NextGps]_gvars /\ WF_pc(GoesOn) /\ WF_late(TimeGoes) /\ SF_late(TimeRead)

-----------------------------------------------------------------------------

ChipEpoch == bcdDateTimeToEpoch(
  [time |-> [second |-> chip.seconds % 128, minute |-> chip.minutes, hour |-> chip.hours, wday |-> 0],
   date |-> [day |-> chip.days, month |-> chip.months, year |-> 32 * 256 + chip.years]])

Right == "STOP" \notin chip.c1 /\ ChipEpoch - TZ_OFFSET - Epoch0 \in {now - 1, now}

\* Once a pass has compared the clock as right, or set and started it, the
\* clock runs and is at most the second of the pass behind, through every
\* transfer that breaks off, stale shadow and sentence without a stamp: a clock
\* in 24-hour mode, and a stamp with a time (sure says so).
Synced == (sure /\ pc = "read") => Right

\* The coordinates called new are those of the last sentence, with its signs,
\* as far as it has them: an empty column leaves the old one there.
FixIsCurrent ==
  gpsdata.newCoordinate =>
    heard # <<>> /\ heard[1] \in {None, gpsdata.latitude} /\ heard[2] \in {None, gpsdata.longitude}

\* A clock in 24-hour mode that is stopped or wrong comes right, when transfers
\* break off only so often and the receiver tells time and date again and again.
ComesRight == (~ Right /\ "12_24" \notin chip.c1) ~> Right
=============================================================================
