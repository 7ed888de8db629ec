------------------------------ MODULE GPS_RMC -------------------------------
(***************************************************************************)
(* The parser of the receiver's sentences (src/cpp/GPS_RMC.cpp).  A        *)
(* sentence is a record of what its columns say; a column that is empty    *)
(* is None.  What update() cannot find in the buffer (another sentence, a  *)
(* cut one, one whose checksum is wrong) is a sentence with rmc false.     *)
(***************************************************************************)
EXTENDS bcddatetime, Sequences

CONSTANT None

NoData == [stamp |-> [date |-> bcddate(0, 0, 0), time |-> bcdtime(0, 0, 0)], latitude |-> 0,
           longitude |-> 0, newCoordinate |-> FALSE, newStamp |-> FALSE]

\* A number is taken with status A, an emptied column keeps the last one;
\* S and W negate what is there.
Axis(old, fixed, number, negative) ==
  LET n == IF fixed /\ number # None THEN number ELSE old
  IN  IF negative THEN -n ELSE n

LocatedBefore(g, s) == g.newCoordinate \/ s.status = "A"   \* mutant: the flag is not reset
Located(g, s) == s.status = "A"

\* parseNMEA: whether it returned true, and gpsdata as it left it.
Parse(g, s) ==
  LET fixed == Located(g, s)
      old   == [g EXCEPT !.newCoordinate = FALSE, !.newStamp = FALSE]
  IN  IF s.time # None /\ ~ s.whole               \* not the start of a second
        THEN [good |-> FALSE, data |-> old]
        ELSE [good |-> s.date # None,
              data |-> [stamp |-> [time |-> IF s.time = None THEN g.stamp.time ELSE s.time,
                                   date |-> IF s.date = None THEN g.stamp.date ELSE s.date],
                        latitude  |-> Axis(g.latitude, fixed, s.latitude, s.south),
                        longitude |-> Axis(g.longitude, fixed, s.longitude, s.west),
                        newCoordinate |-> fixed,
                        newStamp |-> s.date # None]]

\* update: the first sentence that is one is parsed, good or not.
First(buffer) ==
  LET found == {i \in DOMAIN buffer : buffer[i].rmc}
  IN  IF found = {} THEN 0 ELSE CHOOSE i \in found : \A j \in found : i <= j

Updated(g, buffer) ==
  IF First(buffer) = 0 THEN [good |-> FALSE, data |-> g] ELSE Parse(g, buffer[First(buffer)])
=============================================================================
