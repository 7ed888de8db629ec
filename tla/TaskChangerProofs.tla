------------------------- MODULE TaskChangerProofs --------------------------
(***************************************************************************)
(* Proof, for every number of tasks, that TaskChanger implements           *)
(* RoundRobin where the table does not cross a page, until the interrupt   *)
(* puts an ended task back in the table.                                   *)
(*                                                                         *)
(* The invariant says that every task off the CPU lies whole on its own    *)
(* stack, where its entry points to (Suspended), that the table and the    *)
(* CPU agree (Agreed), and what the registers of the code at the end of a  *)
(* task stand for (EndOfTask).  Once an ended task is back in the table,   *)
(* only the types are left of it.                                          *)
(***************************************************************************)
EXTENDS TaskChanger, TLAPS, WellFoundedInduction

Whole(i) == /\ entry[i] = SP(i, frame[i].point)
            /\ frame[i].pc = "app" \/ (frame[i].pc = "mark" /\ i # 0)

Suspended == \A i \in Tasks : i # on /\ entry[i] # Free => Whole(i)

Agreed ==
  /\ pc # "crashed" /\ entry[0] # Free
  /\ pc \in {"app", "mark", "pick"} => current = on

EndOfTask ==
  /\ pc # "app" => on # 0
  /\ pc \in {"pick", "load"} => entry[on] = Free
  /\ pc = "load" => /\ current = NextInUse(on, entry)
                    /\ found = [task |-> current, sp |-> entry[current]]

Sane == Suspended /\ Agreed /\ EndOfTask
IInv == TypeOK /\ (revived \/ Sane)
-----------------------------------------------------------------------------
(* The search for the next task.                                           *)

LEMMA SmallestNat ==
  ASSUME NEW T \in SUBSET Nat, T # {}
  PROVE  \E x \in T : \A y \in T : x <= y
  <1>1. PICK R : /\ IsWellFoundedOn(R, Nat)
                 /\ \A x, y \in Nat : y < x => <<y, x>> \in R
    <2>1. \A x, y \in Nat : y < x => <<y, x>> \in OpToRel(<, Nat)
      BY DEF OpToRel
    <2>2. QED
      BY <2>1, NatLessThanWellFounded, Zenon
  <1>2. \E x \in T : \A y \in T : ~(<<y, x>> \in R)
    BY <1>1, WFMin, Zenon
  <1>3. \E x \in T : \A y \in T : ~(y < x)
    BY <1>1, <1>2
  <1>4. QED
    BY <1>3

\* The task found is in use, and every task passed over is not.
LEMMA NextInUseIsNext ==
  ASSUME NEW c \in Tasks, NEW e, NEW i \in Tasks, e[i] # Free
  PROVE  /\ NextInUse(c, e) \in Tasks /\ e[NextInUse(c, e)] # Free
         /\ \A k \in RR!Between(c, NextInUse(c, e)) : e[k] = Free
  <1> USE TasksAssumption DEF Tasks
  <1> DEFINE Hits == {m \in 1 .. N : e[At(c, m)] # Free}
             Way(k) == IF k > c THEN k - c ELSE k - c + N
  <1>1. \A k \in Tasks : Way(k) \in 1 .. N /\ At(c, Way(k)) = k
    BY DEF At
  <1>2. \E m \in Hits : \A k \in Hits : m <= k
    <2>1. Way(i) \in Hits /\ Hits \in SUBSET Nat
      BY <1>1
    <2>2. QED
      BY <2>1, SmallestNat
  <1> DEFINE d == CHOOSE m \in 1 .. N : /\ e[At(c, m)] # Free
                                        /\ \A k \in 1 .. m - 1 : e[At(c, k)] = Free
  <1>3. /\ d \in 1 .. N /\ e[At(c, d)] # Free
        /\ \A k \in 1 .. d - 1 : e[At(c, k)] = Free
    <2>1. PICK m \in Hits : \A k \in Hits : m <= k
      BY <1>2
    <2>2. \A k \in 1 .. m - 1 : e[At(c, k)] = Free
      BY <2>1
    <2>3. QED
      BY <2>1, <2>2
  <1>4. NextInUse(c, e) = At(c, d)
    BY DEF NextInUse
  <1> HIDE DEF d, Hits
  <1>5. At(c, d) \in Tasks
    BY <1>3 DEF At
  <1>6. ASSUME NEW k \in RR!Between(c, At(c, d)) PROVE e[k] = Free
    <2>1. k \in Tasks /\ Way(k) \in 1 .. d - 1
      BY <1>3 DEF RR!Between, RR!Tasks, At
    <2>2. QED
      BY <1>1, <1>3, <2>1
  <1>7. QED
    BY <1>3, <1>4, <1>5, <1>6

-----------------------------------------------------------------------------
(* Types.                                                                  *)

LEMMA ValueTypes ==
  /\ 0 \in Tasks /\ NoneFound \in [task : Tasks, sp : SPs]
  /\ FreshFrame \in Frames /\ Popped \in Frames
  /\ \A s \in Tasks, p \in Points : SP(s, p) \in SPs /\ SP(s, p) # Free /\ SP(s, p).stack = s
                                    /\ SP(s, p).depth = Depth(p)
  <1>1. 0 \in Tasks
    BY TasksAssumption DEF Tasks
  <1>2. NoneFound \in [task : Tasks, sp : SPs]
    BY <1>1 DEF NoneFound, SPs
  <1>3. FreshFrame \in Frames /\ Popped \in Frames
    BY <1>2 DEF FreshFrame, Popped, Frames, Points, Stages
  <1>4. ASSUME NEW i \in Tasks, NEW p \in Points
        PROVE  SP(i, p) \in SPs /\ SP(i, p) # Free /\ SP(i, p).stack = i
               /\ SP(i, p).depth = Depth(p)
    BY TasksAssumption DEF Tasks, SPs, Free, SP, Depth
  <1>5. QED
    BY <1>1, <1>2, <1>3, <1>4

LEMMA PushedTypes ==
  ASSUME TypeOK, pc # "crashed", NEW isr \in BOOLEAN
  PROVE  Pushed(isr) \in [Tasks -> Frames]
  <1>1. [point |-> point, iflag |-> iflag, pc |-> pc, isr |-> isr, found |-> found] \in Frames
    BY DEF TypeOK, Frames, Stages
  <1>2. QED
    BY <1>1 DEF TypeOK, Pushed

LEMMA RestoreTypes ==
  ASSUME NEW sp \in SPs, NEW f \in [Tasks -> Frames], NEW level \in BOOLEAN, Restore(sp, f, level)
  PROVE  /\ on' \in Tasks /\ pc' \in Stages \cup {"crashed"} /\ point' \in Points
         /\ iflag' \in BOOLEAN /\ found' \in [task : Tasks, sp : SPs] /\ lvl0' \in BOOLEAN
         /\ frame' \in [Tasks -> Frames]
  <1>1. sp.stack \in Tasks /\ f[sp.stack] \in Frames
    BY DEF SPs
  <1>2. frame' \in [Tasks -> Frames]
    BY <1>1, ValueTypes DEF Restore
  <1>3. QED
    BY <1>1, <1>2 DEF Restore, Frames

\* Whatever the table holds, a switch stores a pointer in it and so finds one.
LEMMA SwitchTypes ==
  ASSUME CrossFrom = N, TypeOK, pc # "crashed", NEW isr \in BOOLEAN, SwitchTask(isr),
         revived' \in BOOLEAN
  PROVE  TypeOK'
  <1>1. current \in Tasks /\ current < N /\ on \in Tasks /\ point \in Points
        /\ entry \in [Tasks -> SPs \cup {Free}]
    BY TasksAssumption DEF TypeOK, Tasks
  <1>2. entry' = [entry EXCEPT ![current] = SP(on, point)]
    BY <1>1 DEF SwitchTask, Stored
  <1>3. entry' \in [Tasks -> SPs \cup {Free}] /\ entry'[current] # Free
    BY <1>1, <1>2, ValueTypes
  <1>4. current' \in Tasks /\ entry'[current'] \in SPs
    BY <1>1, <1>3, NextInUseIsNext DEF SwitchTask
  <1>5. Restore(entry'[current'], Pushed(isr), lvl0 \/ isr) /\ UNCHANGED <<cmp, pit>>
    BY DEF SwitchTask
  <1>6. (lvl0 \/ isr) \in BOOLEAN
    OBVIOUS
  <1>7. QED
    BY <1>3, <1>4, <1>5, <1>6, PushedTypes, RestoreTypes DEF TypeOK

LEMMA TypeStep ==
  ASSUME CrossFrom = N, TypeOK, Next
  PROVE  TypeOK'
  <1>1. CASE Yield
    BY <1>1, SwitchTypes DEF Yield, TypeOK
  <1>2. CASE Preempt
    BY <1>2, SwitchTypes DEF Preempt, TypeOK
  <1>3. CASE Mark
    BY <1>3 DEF Mark, Stored, TypeOK, Stages
  <1>4. CASE Pick
    <2>1. current' \in Tasks /\ entry[current'] \in SPs
      BY <1>4, NextInUseIsNext DEF Pick, InUse, TypeOK
    <2>2. found' \in [task : Tasks, sp : SPs]
      BY <1>4, <2>1 DEF Pick
    <2>3. QED
      BY <1>4, <2>1, <2>2 DEF Pick, TypeOK, Stages
  <1>5. CASE Load
    <2>1. CASE entry[found.task] = found.sp
      <3>1. /\ found.sp \in SPs /\ frame \in [Tasks -> Frames] /\ lvl0 \in BOOLEAN
            /\ Restore(found.sp, frame, lvl0) /\ UNCHANGED <<entry, current, cmp, pit, revived>>
        BY <1>5, <2>1 DEF Load, TypeOK
      <3>2. QED
        BY <3>1, RestoreTypes DEF TypeOK
    <2>2. CASE entry[found.task] # found.sp
      BY <1>5, <2>2 DEF Load, TypeOK
    <2>3. QED
      BY <2>1, <2>2
  <1>6. ASSUME NEW i \in Tasks \ {0}, AttachTask(i) \/ DetachTask(i)
        PROVE  TypeOK'
    <2>1. SP(i, "start") \in SPs
      BY ValueTypes DEF Points
    <2>2. QED
      BY <1>6, <2>1, ValueTypes DEF AttachTask, AttachFrame, DetachTask, TypeOK, cpu
  <1>7. CASE Step \/ EnterTimeout \/ LeaveTimeout \/ SetPit \/ Return
    BY <1>7 DEF Step, EnterTimeout, LeaveTimeout, SetPit, Return, TypeOK, cpu, Stages
  <1>8. QED
    BY <1>1, <1>2, <1>3, <1>4, <1>5, <1>6, <1>7 DEF Next, EndTask

\* What a switch does, when the pointer is stored in the entry of the task that
\* runs and the others are whole.
LEMMA SwitchResult ==
  ASSUME CrossFrom = N, TypeOK, Sane, pc \in {"app", "mark"}, NEW isr \in BOOLEAN,
         SwitchTask(isr)
  PROVE  /\ entry' = [entry EXCEPT ![on] = SP(on, point)]
         /\ Pushed(isr)[on].point = point /\ Pushed(isr)[on].iflag = iflag
         /\ \A i \in Tasks \ {on} : Pushed(isr)[i] = frame[i]
         /\ on' \in Tasks /\ on' = NextInUse(on, entry') /\ current' = on'
         /\ entry'[on'] # Free
         /\ \A i \in Tasks \ {on'} : entry'[i] # Free => Whole(i)'
         /\ \A i \in Tasks \ {on'} : frame'[i] = Pushed(isr)[i]
         /\ pc' = "app" \/ (pc' = "mark" /\ on' # 0)
         /\ point' = Pushed(isr)[on'].point /\ iflag' = Pushed(isr)[on'].iflag
         /\ UNCHANGED <<cmp, pit>>
  <1> DEFINE q == Pushed(isr)
             j == NextInUse(on, entry')
             Laid(i) == /\ entry'[i] = SP(i, q[i].point)
                        /\ q[i].pc = "app" \/ (q[i].pc = "mark" /\ i # 0)
  <1>1. current = on /\ on \in Tasks /\ on < N /\ point \in Points
        /\ (pc = "mark" => on # 0)
        /\ entry \in [Tasks -> SPs \cup {Free}] /\ frame \in [Tasks -> Frames]
    BY TasksAssumption DEF Sane, Agreed, EndOfTask, TypeOK, Tasks
  <1>2. entry' = [entry EXCEPT ![on] = SP(on, point)]
    BY <1>1 DEF SwitchTask, Stored
  <1>3. q = [frame EXCEPT ![on] = [point |-> point, iflag |-> iflag, pc |-> pc,
                                   isr |-> isr, found |-> found]]
    BY DEF Pushed
  <1>4. q \in [Tasks -> Frames]
    BY PushedTypes
  <1>5. q[on].point = point /\ q[on].iflag = iflag /\ q[on].pc = pc
        /\ \A i \in Tasks \ {on} : q[i] = frame[i]
    BY <1>1, <1>3
  <1> HIDE DEF q
  <1>6. ASSUME NEW i \in Tasks, entry'[i] # Free PROVE Laid(i)
    <2>1. CASE i = on
      BY <1>1, <1>2, <1>5, <2>1
    <2>2. CASE i # on
      BY <1>1, <1>2, <1>5, <1>6, <2>2 DEF Whole, Sane, Suspended
    <2>3. QED
      BY <2>1, <2>2
  <1>7. entry'[on] # Free
    BY <1>1, <1>2, ValueTypes
  <1>8. j \in Tasks /\ entry'[j] # Free
    BY <1>1, <1>7, NextInUseIsNext
  <1>9. current' = j /\ Restore(entry'[j], q, lvl0 \/ isr) /\ UNCHANGED <<cmp, pit>>
    BY <1>1 DEF SwitchTask, q
  <1> HIDE DEF j
  <1>10. Laid(j) /\ q[j].point \in Points
    BY <1>4, <1>6, <1>8 DEF Frames
  <1>11. entry'[j].stack = j /\ Depth(q[j].point) = entry'[j].depth
    BY <1>8, <1>10, ValueTypes
  <1>12. on' = j /\ pc' = q[j].pc /\ point' = q[j].point /\ iflag' = q[j].iflag
         /\ frame' = [q EXCEPT ![j] = Popped]
    BY <1>9, <1>11 DEF Restore
  <1>13. \A i \in Tasks \ {on'} : frame'[i] = q[i]
    BY <1>4, <1>12
  <1>14. \A i \in Tasks \ {on'} : entry'[i] # Free => Whole(i)'
    BY <1>6, <1>13 DEF Whole
  <1>15. pc' = "app" \/ (pc' = "mark" /\ on' # 0)
    BY <1>10, <1>12
  <1>16. on' = NextInUse(on, entry') /\ current' = on' /\ on' \in Tasks /\ entry'[on'] # Free
    BY <1>8, <1>9, <1>12 DEF j
  <1>17. QED
    BY <1>2, <1>5, <1>9, <1>12, <1>13, <1>14, <1>15, <1>16 DEF q

-----------------------------------------------------------------------------
(* Every step keeps the invariant and is a step of RoundRobin.             *)

\* A task that runs is somewhere.
LEMMA PlacePresent ==
  ASSUME NEW p \in Points, NEW b
  PROVE  [point |-> p, iflag |-> b] # Absent
  BY DEF Points, Absent

LEMMA PlaceWhole ==
  ASSUME NEW i \in Tasks, i # on, entry[i] # Free, Whole(i), frame[i].point \in Points
  PROVE  PlaceOf(i) = [point |-> frame[i].point, iflag |-> frame[i].iflag]
  BY ValueTypes DEF Whole, PlaceOf

LEMMA SwitchStep ==
  ASSUME CrossFrom = N, TypeOK, Sane, pc \in {"app", "mark"}, NEW isr \in BOOLEAN,
         SwitchTask(isr)
  PROVE  Sane' /\ RR!Pass
  <1>1. on \in Tasks /\ point \in Points /\ entry \in [Tasks -> SPs \cup {Free}]
        /\ frame \in [Tasks -> Frames]
    BY DEF TypeOK
  <1>2. \A i \in Tasks : Pushed(isr)[i].point \in Points /\ frame[i].point \in Points
    BY <1>1, PushedTypes DEF Frames
  <1>3. entry'[on] = SP(on, point) /\ entry'[on] # Free
    BY <1>1, SwitchResult, ValueTypes
  <1>4. Sane'
    <2>1. entry'[0] # Free
      BY <1>1, <1>3, SwitchResult, ValueTypes DEF Sane, Agreed
    <2>2. QED
      BY <2>1, SwitchResult DEF Sane, Suspended, Agreed, EndOfTask
  <1>5. ASSUME NEW i \in Tasks PROVE PlaceOf(i)' = PlaceOf(i)
    <2>1. CASE i = on' /\ i = on
      BY <2>1, SwitchResult DEF PlaceOf
    <2>2. CASE i = on' /\ i # on
      <3>1. entry[i] # Free /\ Pushed(isr)[i] = frame[i]
        BY <1>1, <2>2, SwitchResult
      <3>2. Whole(i)
        BY <2>2, <3>1 DEF Sane, Suspended
      <3>3. PlaceOf(i)' = [point |-> frame[i].point, iflag |-> frame[i].iflag]
        BY <2>2, <3>1, SwitchResult DEF PlaceOf
      <3>4. QED
        BY <1>2, <2>2, <3>1, <3>2, <3>3, PlaceWhole
    <2>3. CASE i # on' /\ i = on
      <3>1. frame'[i].point = point /\ frame'[i].iflag = iflag
        BY <1>1, <2>3, SwitchResult
      <3>2. QED
        BY <1>1, <1>3, <2>3, <3>1, ValueTypes DEF PlaceOf
    <2>4. CASE i # on' /\ i # on
      <3>1. frame'[i] = frame[i] /\ entry'[i] = entry[i]
        BY <1>1, <2>4, SwitchResult
      <3>2. QED
        BY <2>4, <3>1 DEF PlaceOf
    <2>5. QED
      BY <2>1, <2>2, <2>3, <2>4
  <1>6. UNCHANGED places
    BY <1>5 DEF places
  <1>7. places'[on'] # Absent
    BY <1>2, SwitchResult, PlacePresent DEF places, PlaceOf
  <1>8. ASSUME NEW k \in RR!Between(on, on') PROVE places'[k] = Absent
    <2>1. entry'[k] = Free
      BY <1>1, <1>3, SwitchResult, NextInUseIsNext
    <2>2. k \in Tasks /\ k # on'
      BY <1>1, SwitchResult, TasksAssumption DEF RR!Between, RR!Tasks, Tasks
    <2>3. QED
      BY <2>1, <2>2 DEF places, PlaceOf
  <1>9. RR!Pass
    BY <1>6, <1>7, <1>8, SwitchResult DEF RR!Pass, RR!IsNext, RR!Tasks, Tasks
  <1>10. QED
    BY <1>4, <1>9

LEMMA LoadStep ==
  ASSUME TypeOK, Sane, Load
  PROVE  Sane' /\ RR!Finish
  <1> USE DEF Sane
  <1>1. /\ on \in Tasks /\ on # 0 /\ entry[on] = Free /\ entry[0] # Free
        /\ current = NextInUse(on, entry) /\ found = [task |-> current, sp |-> entry[current]]
        /\ entry \in [Tasks -> SPs \cup {Free}] /\ frame \in [Tasks -> Frames]
    BY DEF Load, TypeOK, Agreed, EndOfTask
  <1> DEFINE j == current
  <1>2. j \in Tasks /\ entry[j] # Free /\ j # on
        /\ \A k \in RR!Between(on, j) : entry[k] = Free
    BY <1>1, ValueTypes, NextInUseIsNext
  <1>3. Whole(j) /\ frame[j].point \in Points
    BY <1>1, <1>2 DEF Suspended, Frames
  <1>4. /\ Restore(entry[j], frame, lvl0)
        /\ UNCHANGED <<entry, current, cmp, pit>>
    BY <1>1 DEF Load
  <1>5. entry[j].stack = j /\ Depth(frame[j].point) = entry[j].depth
    BY <1>2, <1>3, ValueTypes DEF Whole
  <1>6. /\ on' = j /\ (pc' = "app" \/ (pc' = "mark" /\ on' # 0))
        /\ point' = frame[j].point /\ iflag' = frame[j].iflag
        /\ frame' = [frame EXCEPT ![j] = Popped]
    BY <1>3, <1>4, <1>5 DEF Restore, Whole
  <1>7. \A i \in Tasks \ {j} : frame'[i] = frame[i]
    BY <1>1, <1>6
  <1>8. Suspended'
    BY <1>1, <1>2, <1>4, <1>6, <1>7 DEF Suspended, Whole
  <1>9. Agreed' /\ EndOfTask'
    BY <1>1, <1>2, <1>4, <1>6 DEF Agreed, EndOfTask
  <1>10. ASSUME NEW i \in Tasks PROVE PlaceOf(i)' = IF i = on THEN Absent ELSE PlaceOf(i)
    <2>1. CASE i = on
      BY <1>1, <1>2, <1>4, <1>6, <2>1 DEF PlaceOf
    <2>2. CASE i = j
      BY <1>2, <1>3, <1>6, <2>2, PlaceWhole DEF PlaceOf
    <2>3. CASE i # on /\ i # j
      BY <1>4, <1>6, <1>7, <2>3 DEF PlaceOf
    <2>4. QED
      BY <2>1, <2>2, <2>3
  <1>11. places' = [places EXCEPT ![on] = Absent]
    BY <1>10 DEF places
  <1>12. places'[j] # Absent
    BY <1>2, <1>3, <1>6, PlacePresent DEF places, PlaceOf
  <1>13. ASSUME NEW k \in RR!Between(on, j) PROVE places'[k] = Absent
    <2>1. k \in Tasks /\ k # j
      BY <1>1, <1>2, TasksAssumption DEF RR!Between, RR!Tasks, Tasks
    <2>2. QED
      BY <1>2, <1>4, <1>6, <2>1 DEF places, PlaceOf
  <1>14. RR!Finish
    BY <1>1, <1>2, <1>6, <1>11, <1>12, <1>13 DEF RR!Finish, RR!IsNext, RR!Tasks, Tasks
  <1>15. QED
    BY <1>8, <1>9, <1>14

\* The steps at the end of a task before the next one is loaded.
LEMMA EndStep ==
  ASSUME CrossFrom = N, TypeOK, Sane, Mark \/ Pick
  PROVE  Sane' /\ UNCHANGED <<on, places>>
  <1> USE DEF Sane
  <1>1. on \in Tasks /\ current = on /\ on < N /\ on # 0 /\ entry[0] # Free
        /\ UNCHANGED <<frame, on, point, iflag>>
        /\ entry \in [Tasks -> SPs \cup {Free}]
    BY TasksAssumption DEF Mark, Pick, TypeOK, Agreed, EndOfTask, Tasks
  <1>2. CASE Mark
    <2>1. entry' = [entry EXCEPT ![on] = Free] /\ pc' = "pick" /\ UNCHANGED <<current, found>>
      BY <1>1, <1>2 DEF Mark, Stored
    <2>2. Suspended' /\ Agreed'
      BY <1>1, <2>1 DEF Suspended, Agreed, Whole
    <2>3. EndOfTask'
      BY <1>1, <2>1 DEF EndOfTask
    <2>4. UNCHANGED places
      BY <1>1, <2>1 DEF places, PlaceOf
    <2>5. QED
      BY <1>1, <2>2, <2>3, <2>4
  <1>3. CASE Pick
    <2>1. /\ current' = NextInUse(on, entry) /\ pc' = "load" /\ UNCHANGED entry
          /\ found' = [task |-> current', sp |-> entry[current']]
          /\ entry[on] = Free
      BY <1>1, <1>3 DEF Pick, EndOfTask
    <2>2. Suspended' /\ Agreed' /\ EndOfTask'
      BY <1>1, <2>1 DEF Suspended, Agreed, EndOfTask, Whole
    <2>3. UNCHANGED places
      BY <1>1, <2>1 DEF places, PlaceOf
    <2>4. QED
      BY <1>1, <2>2, <2>3
  <1>4. QED
    BY <1>2, <1>3

LEMMA AttachStep ==
  ASSUME TypeOK, Sane, NEW i \in Tasks \ {0}, AttachTask(i)
  PROVE  Sane' /\ RR!Register(i)
  <1> USE DEF Sane
  <1>1. /\ i # on /\ pc = "app" /\ current = on /\ on \in Tasks
        /\ frame' = [frame EXCEPT ![i] = FreshFrame]
        /\ entry' = [entry EXCEPT ![i] = SP(i, "start")]
        /\ UNCHANGED <<current, on, point, iflag, pc, found>>
        /\ entry \in [Tasks -> SPs \cup {Free}] /\ frame \in [Tasks -> Frames]
    BY DEF AttachTask, AttachFrame, TypeOK, Agreed, cpu
  <1>2. SP(i, "start") # Free /\ SP(i, "start").stack = i
        /\ SP(i, "start").depth = Depth("start")
    BY ValueTypes DEF Points
  <1>3. Suspended'
    BY <1>1 DEF Suspended, Whole, FreshFrame
  <1>4. Agreed' /\ EndOfTask'
    BY <1>1, <1>2 DEF Agreed, EndOfTask
  <1>5. ASSUME NEW k \in Tasks PROVE PlaceOf(k)' = IF k = i THEN RR!Fresh ELSE PlaceOf(k)
    BY <1>1, <1>2 DEF PlaceOf, RR!Fresh, FreshFrame
  <1>6. places' = [places EXCEPT ![i] = RR!Fresh]
    BY <1>5 DEF places
  <1>7. QED
    BY <1>1, <1>3, <1>4, <1>6 DEF RR!Register

LEMMA DetachStep ==
  ASSUME TypeOK, Sane, NEW i \in Tasks \ {0}, DetachTask(i)
  PROVE  Sane' /\ (RR!Remove(i) \/ UNCHANGED <<on, places>>)
  <1> USE DEF Sane
  <1>1. /\ pc = "app" /\ current = on /\ on \in Tasks
        /\ entry' = [entry EXCEPT ![i] = Free]
        /\ UNCHANGED <<frame, current, on, point, iflag, pc, found>>
        /\ entry \in [Tasks -> SPs \cup {Free}]
    BY DEF DetachTask, TypeOK, Agreed, cpu
  <1>2. Suspended' /\ Agreed' /\ EndOfTask'
    BY <1>1, TasksAssumption DEF Suspended, Agreed, EndOfTask, Whole, Tasks
  <1>3. CASE i = on
    BY <1>1, <1>2, <1>3 DEF places, PlaceOf
  <1>4. CASE i # on
    <2>1. ASSUME NEW k \in Tasks PROVE PlaceOf(k)' = IF k = i THEN Absent ELSE PlaceOf(k)
      BY <1>1, <1>4 DEF PlaceOf
    <2>2. places' = [places EXCEPT ![i] = Absent]
      BY <2>1 DEF places
    <2>3. QED
      BY <1>1, <1>2, <1>4, <2>2 DEF RR!Remove
  <1>5. QED
    BY <1>3, <1>4

\* The running task's own steps.
LEMMA OwnStep ==
  ASSUME TypeOK, Sane, Step \/ EnterTimeout \/ LeaveTimeout \/ SetPit \/ Return
  PROVE  Sane' /\ (RR!Move \/ UNCHANGED <<on, places>>)
  <1> USE DEF Sane
  <1>1. /\ pc = "app" /\ current = on /\ on \in Tasks
        /\ UNCHANGED <<entry, current, frame, on, found>>
        /\ (pc' = "app" \/ (pc' = "mark" /\ on # 0))
        /\ point' \in Points /\ iflag' \in BOOLEAN
    <2>1. CASE Step
      BY <2>1 DEF Step, TypeOK, Agreed
    <2>2. CASE EnterTimeout
      BY <2>2 DEF EnterTimeout, TypeOK, Agreed, cpu
    <2>3. CASE LeaveTimeout
      BY <2>3 DEF LeaveTimeout, TypeOK, Agreed
    <2>4. CASE SetPit
      BY <2>4 DEF SetPit, TypeOK, Agreed, cpu
    <2>5. CASE Return
      BY <2>5 DEF Return, TypeOK, Agreed
    <2>6. QED
      BY <2>1, <2>2, <2>3, <2>4, <2>5
  <1>2. Suspended' /\ Agreed' /\ EndOfTask'
    BY <1>1 DEF Suspended, Agreed, EndOfTask, Whole
  <1>3. [point |-> point', iflag |-> iflag'] \in RR!Places
    BY <1>1 DEF RR!Places
  <1>4. ASSUME NEW k \in Tasks
        PROVE  PlaceOf(k)' = IF k = on THEN [point |-> point', iflag |-> iflag'] ELSE PlaceOf(k)
    BY <1>1 DEF PlaceOf
  <1>5. places' = [places EXCEPT ![on] = [point |-> point', iflag |-> iflag']]
    BY <1>4 DEF places
  <1>6. QED
    BY <1>1, <1>2, <1>3, <1>5 DEF RR!Move

LEMMA InitRefines == Init => IInv /\ RR!Init
  <1> SUFFICES ASSUME Init PROVE IInv /\ RR!Init
    OBVIOUS
  <1>1. TypeOK
    BY ValueTypes DEF Init, TypeOK, Points, Stages
  <1>2. Sane
    BY ValueTypes DEF Init, Sane, Suspended, Agreed, EndOfTask, Points
  <1>3. ASSUME NEW i \in Tasks PROVE PlaceOf(i) = IF i = 0 THEN RR!Fresh ELSE Absent
    BY DEF Init, PlaceOf, RR!Fresh
  <1>4. RR!Init
    BY <1>3 DEF Init, RR!Init, places, RR!Tasks, Tasks
  <1>5. QED
    BY <1>1, <1>2, <1>4 DEF IInv

\* As long as no ended task is back in the table.
LEMMA SaneStep ==
  ASSUME CrossFrom = N, TypeOK, Sane, Next, ~revived'
  PROVE  Sane' /\ [RR!Next]_(RR!rvars)
  <1> USE DEF RR!Next, RR!rvars
  <1>1. CASE Yield
    BY <1>1, SwitchStep DEF Yield
  <1>2. CASE Preempt
    <2>1. pc \in {"app", "mark"}
      BY <1>2 DEF TypeOK, Stages, Preempt
    <2>2. QED
      BY <1>2, <2>1, SwitchStep DEF Preempt
  <1>3. CASE EndTask
    BY <1>3, EndStep, LoadStep DEF EndTask
  <1>4. ASSUME NEW i \in Tasks \ {0}, AttachTask(i) \/ DetachTask(i)
        PROVE  Sane' /\ [RR!Next]_(RR!rvars)
    BY <1>4, AttachStep, DetachStep DEF RR!Tasks, Tasks
  <1>5. CASE Step \/ EnterTimeout \/ LeaveTimeout \/ SetPit \/ Return
    BY <1>5, OwnStep
  <1>6. QED
    BY <1>1, <1>2, <1>3, <1>4, <1>5 DEF Next

LEMMA StaysRevived ==
  ASSUME Next, revived
  PROVE  revived'
  BY DEF Next, Yield, Preempt, Return, EndTask, Mark, Pick, Load, Step, EnterTimeout,
         LeaveTimeout, SetPit, AttachTask, DetachTask

LEMMA StepRefines ==
  ASSUME CrossFrom = N, IInv, [Next]_vars
  PROVE  IInv' /\ [revived' \/ RR!Next]_(RR!rvars)
  <1>1. CASE UNCHANGED vars
    <2>1. UNCHANGED <<entry, current, frame, on, point, iflag, pc, found, lvl0, cmp, pit, revived>>
      BY <1>1 DEF vars, cpu
    <2>2. IInv' /\ UNCHANGED places
      BY <2>1 DEF IInv, TypeOK, Sane, Suspended, Agreed, EndOfTask, Whole, places, PlaceOf
    <2>3. QED
      BY <2>1, <2>2 DEF RR!rvars
  <1>2. CASE Next
    <2>1. TypeOK'
      BY <1>2, TypeStep DEF IInv
    <2>2. CASE revived'
      BY <2>1, <2>2 DEF IInv
    <2>3. CASE ~revived'
      BY <1>2, <2>1, <2>3, SaneStep, StaysRevived DEF IInv
    <2>4. QED
      BY <2>2, <2>3
  <1>3. QED
    BY <1>1, <1>2

-----------------------------------------------------------------------------
(* The theorems.                                                           *)

LEMMA Invariance ==
  ASSUME CrossFrom = N
  PROVE  Spec => []IInv
  <1>1. Init => IInv
    BY InitRefines
  <1>2. IInv /\ [Next]_vars => IInv'
    BY StepRefines
  <1>3. QED
    BY <1>1, <1>2, PTL DEF Spec

\* The entries of the table and the registers of yield keep their types.
THEOREM TypeCorrect ==
  ASSUME CrossFrom = N
  PROVE  Spec => []TypeOK
  <1>1. IInv => TypeOK
    BY DEF IInv
  <1>2. QED
    BY <1>1, Invariance, PTL

\* yield stores a stack pointer in the entry of the task that runs, and no
\* entry points into the stack of another task.
THEOREM OwnEntryAlways ==
  ASSUME CrossFrom = N
  PROVE  Spec => []OwnEntry
  <1>1. IInv => OwnEntry
    BY ValueTypes DEF IInv, TypeOK, Frames, Sane, Agreed, Suspended, Whole, OwnEntry
  <1>2. QED
    BY <1>1, Invariance, PTL

\* yield, the end of a task, attach_task and detach_task implement the round
\* robin: in order, nobody skipped, everybody goes on where he stopped.
THEOREM Refinement ==
  ASSUME CrossFrom = N
  PROVE  Spec => RoundRobin
  <1>1. Init => RR!Init
    BY InitRefines
  <1>2. IInv /\ [Next]_vars => [revived' \/ RR!Next]_(RR!rvars)
    BY StepRefines
  <1>3. QED
    BY <1>1, <1>2, Invariance, PTL DEF Spec, RoundRobin
=============================================================================
