---------------------------- MODULE TaskChanger -----------------------------
(***************************************************************************)
(* src/TaskChanger.h and src/cpp/TaskChanger.cpp: cooperative tasks, each  *)
(* with a stack of its own, and the preemptive use its README describes,   *)
(* where the PIT interrupt calls yield.                                    *)
(*                                                                         *)
(* A stack pointer is the stack it points into and the depth of the call   *)
(* that pushed the frame: two frames at different depths overlap, so a     *)
(* stack keeps only the last frame pushed on it.  yield runs with          *)
(* interrupts off and is one step; the code a task function returns into   *)
(* runs with them on and is cut where an interrupt can tell.               *)
(***************************************************************************)
EXTENDS Integers

CONSTANTS
  N,          \* entries of __worker.stack (4)
  CrossFrom   \* entries from here on lie beyond a 256-byte page (N: none do)

ASSUME TasksAssumption == N \in Nat \ {0} /\ CrossFrom \in 1 .. N

VARIABLES
  entry,           \* __worker.stack: a stack pointer or Free (MSB set)
  current,         \* __worker.current / 2
  frame,           \* the last frame pushed on each stack
  on,              \* the stack the CPU is on
  point,           \* where in its function the running task is
  iflag,           \* SREG.I
  pc,              \* "app", or where in __TaskChanger_detach_task and label 1
  found,           \* registers X and R25 there: the entry found, and its value
  lvl0,            \* CPUINT.STATUS.LVL0EX
  cmp,             \* RTC_INTCTRL.CMP: a TIMEOUT_BLOCK or a timed sleep is on
  pit,             \* RTC_PITINTCTRL.PI: the PIT interrupt is on, and calls yield
  revived          \* history: an interrupt has put an ended task in the table

cpu  == <<on, point, iflag, pc, found, lvl0>>
vars == <<entry, current, frame, cpu, cmp, pit, revived>>

-----------------------------------------------------------------------------

Tasks  == 0 .. N - 1
Points == {"start", "shallow", "deep"}
Depth(p) == IF p = "deep" THEN 1 ELSE 0

SPs   == [stack : Tasks, depth : {0, 1}]
Free  == [stack |-> -1, depth |-> 0]
NoneFound == [task |-> 0, sp |-> [stack |-> 0, depth |-> 0]]
Stages == {"app", "mark", "pick", "load"}

\* What yield pushes: the place to return to, SREG, the registers, and whether
\* it is called from the interrupt, which returns with RETI.
Frames == [point : Points, iflag : BOOLEAN, pc : Stages \cup {"crashed"},
           isr : BOOLEAN, found : [task : Tasks, sp : SPs]]

SPTooDeep(s, p) == [stack |-> s, depth |-> Depth(p) + 1]  \* mutant: one frame too low
SP(s, p) == [stack |-> s, depth |-> Depth(p)]

\* attach_task lays out a frame that RETs to the task function with SREG 0x80.
FreshFrame == [point |-> "start", iflag |-> TRUE, pc |-> "app", isr |-> FALSE,
               found |-> NoneFound]

\* No frame is left where one was popped, or never pushed: calls and interrupts
\* write over what lies below the stack pointer.
Popped == [FreshFrame EXCEPT !.pc = "crashed"]

Init ==
  /\ entry = [i \in Tasks |-> IF i = 0 THEN SP(0, "start") ELSE Free]
  /\ current = 0 /\ frame = [i \in Tasks |-> Popped]
  /\ on = 0 /\ point = "start" /\ iflag = TRUE /\ pc = "app" /\ found = NoneFound
  /\ lvl0 = FALSE /\ cmp = FALSE /\ pit = FALSE /\ revived = FALSE

-----------------------------------------------------------------------------
(* yield.                                                                  *)

\* Label 1: the pointer is stored in the current entry, unless the carry of
\* the address is added to the wrong byte (ADC ZL, XH) and it goes elsewhere.
StoredNext(sp) ==                   \* mutant: under the next entry's index
  [entry EXCEPT ![IF current + 1 < N THEN current + 1 ELSE 0] = sp]
Stored(sp) == IF current < CrossFrom THEN [entry EXCEPT ![current] = sp] ELSE entry

\* Label 2: round the table from the current entry to the first in use.
At(c, d) == IF c + d < N THEN c + d ELSE c + d - N
NextFromZero(c, e) ==               \* mutant: from the first entry
  CHOOSE j \in Tasks : e[j] # Free /\ \A k \in Tasks : e[k] # Free => j <= k
NextInUse(c, e) ==
  LET d == CHOOSE m \in 1 .. N : /\ e[At(c, m)] # Free
                                 /\ \A k \in 1 .. m - 1 : e[At(c, k)] = Free
  IN  At(c, d)

\* The registers and SREG are popped from the frame at sp, which is whole only
\* if nothing was pushed over it; "crashed" if it is not.  A frame of the
\* interrupt ends with RETI, the others with RET.
Restore(sp, f, level) ==
  /\ on' = sp.stack
  /\ IF Depth(f[sp.stack].point) = sp.depth
       THEN pc' = f[sp.stack].pc ELSE pc' = "crashed"
  /\ point' = f[sp.stack].point /\ iflag' = f[sp.stack].iflag
  /\ found' = f[sp.stack].found
  /\ lvl0' = (level /\ ~f[sp.stack].isr)
  /\ frame' = [f EXCEPT ![sp.stack] = Popped]

Pushed(isr) == [frame EXCEPT ![on] = [point |-> point, iflag |-> iflag, pc |-> pc,
                                      isr |-> isr, found |-> found]]

SwitchTask(isr) ==
  /\ entry' = Stored(SP(on, point))
  /\ current' = NextInUse(current, entry')
  /\ Restore(entry'[current'], Pushed(isr), lvl0 \/ isr)
  /\ UNCHANGED <<cmp, pit>>

\* yield does nothing while the compare interrupt is on.
MaySwitch == ~cmp

Yield == pc = "app" /\ MaySwitch /\ SwitchTask(FALSE) /\ UNCHANGED revived

\* ISR(RTC_PIT_vect) of the README: wherever interrupts are on, the end of a
\* task included.  Once the entry is cleared there, it stores a pointer to the
\* ended task again, under whichever index is the current one by then.
Preempt ==
  /\ pit /\ iflag /\ ~lvl0 /\ pc # "crashed" /\ MaySwitch /\ SwitchTask(TRUE)
  /\ revived' = (revived \/ pc \in {"pick", "load"})

-----------------------------------------------------------------------------
(* The end of a task: its function returns to __TaskChanger_detach_task.   *)

Return ==
  /\ pc = "app" /\ ~cmp /\ on # 0
  /\ pc' = "mark"
  /\ UNCHANGED <<entry, current, frame, on, point, iflag, found, lvl0, cmp, pit, revived>>

\* R25 is 0xFF, and label 1 stores it.
Mark ==
  /\ pc = "mark"
  /\ entry' = Stored(Free)
  /\ pc' = "pick"
  /\ UNCHANGED <<current, frame, on, point, iflag, found, lvl0, cmp, pit, revived>>

\* The search goes round until it meets an entry in use.
InUse == \E i \in Tasks : entry[i] # Free
Pick ==
  /\ pc = "pick" /\ InUse
  /\ current' = NextInUse(current, entry)
  /\ found' = [task |-> current', sp |-> entry[current']]
  /\ pc' = "load"
  /\ UNCHANGED <<entry, frame, on, point, iflag, lvl0, cmp, pit, revived>>

\* The low byte of the pointer is read after the high byte was tested: the
\* two belong together only if the entry has not changed.
Load ==
  /\ pc = "load"
  /\ IF entry[found.task] = found.sp
       THEN Restore(found.sp, frame, lvl0)
       ELSE pc' = "crashed" /\ UNCHANGED <<frame, on, point, iflag, found, lvl0>>
  /\ UNCHANGED <<entry, current, cmp, pit, revived>>

-----------------------------------------------------------------------------
(* attach_task and detach_task, each an ATOMIC_BLOCK.                      *)

AttachDisabled == [FreshFrame EXCEPT !.iflag = FALSE]  \* mutant: SREG 0
AttachFrame    == FreshFrame

\* For another task than the running one, whose live stack the code would
\* write over.
AttachTask(i) ==
  /\ pc = "app" /\ i # on
  /\ frame' = [frame EXCEPT ![i] = AttachFrame]
  /\ entry' = [entry EXCEPT ![i] = SP(i, "start")]
  /\ UNCHANGED <<current, cpu, cmp, pit, revived>>

DetachTask(i) ==
  /\ pc = "app"
  /\ entry' = [entry EXCEPT ![i] = Free]
  /\ UNCHANGED <<current, frame, cpu, cmp, pit, revived>>

-----------------------------------------------------------------------------
(* The running task's own code.                                            *)

Step ==
  /\ pc = "app"
  /\ point' \in Points \ {"start"} /\ iflag' \in BOOLEAN
  /\ UNCHANGED <<entry, current, frame, on, pc, found, lvl0, cmp, pit, revived>>

\* TIMEOUT_BLOCK is entered, and left by __cleanup, which executes a RETI.
EnterTimeout ==
  /\ pc = "app" /\ ~cmp /\ cmp' = TRUE
  /\ UNCHANGED <<entry, current, frame, cpu, pit, revived>>
LeaveTimeout ==
  /\ pc = "app" /\ cmp /\ cmp' = FALSE /\ lvl0' = FALSE
  /\ UNCHANGED <<entry, current, frame, on, point, iflag, pc, found, pit, revived>>

\* The application turns the PIT interrupt on and off.
SetPit ==
  /\ pc = "app" /\ pit' = ~pit
  /\ UNCHANGED <<entry, current, frame, cpu, cmp, revived>>

-----------------------------------------------------------------------------

EndTask == Mark \/ Pick \/ Load

Next == \/ Yield \/ Preempt \/ Return \/ EndTask \/ Step \/ EnterTimeout \/ LeaveTimeout \/ SetPit
        \/ \E i \in Tasks \ {0} : AttachTask(i) \/ DetachTask(i)

Spec == Init /\ [][Next]_vars

\* Cooperative tasks leave their TIMEOUT_BLOCKs and keep calling yield.
CoopSpec == Spec /\ WF_vars(EndTask) /\ WF_vars(LeaveTimeout) /\ SF_vars(Yield)

-----------------------------------------------------------------------------
(* Properties.                                                             *)

\* Pointers stay within the stacks and the registers hold what the code at each
\* label expects: yield never stores a pointer below the frame it pushed.
TypeOK ==
  /\ entry \in [Tasks -> SPs \cup {Free}] /\ current \in Tasks /\ on \in Tasks
  /\ frame \in [Tasks -> Frames]
  /\ point \in Points /\ iflag \in BOOLEAN /\ pc \in Stages \cup {"crashed"}
  /\ found \in [task : Tasks, sp : SPs]
  /\ lvl0 \in BOOLEAN /\ cmp \in BOOLEAN /\ pit \in BOOLEAN /\ revived \in BOOLEAN

\* Where task i is: on the CPU, or in the frame its entry points to.
Lost == [point |-> "lost", iflag |-> FALSE]
Absent == [point |-> "absent", iflag |-> FALSE]
PlaceOf(i) ==
  IF i = on THEN [point |-> point, iflag |-> iflag]
  ELSE IF entry[i] = Free THEN Absent
  ELSE IF entry[i].stack = i /\ Depth(frame[i].point) = entry[i].depth
    THEN [point |-> frame[i].point, iflag |-> frame[i].iflag] ELSE Lost

\* The code keeps the promise: tasks go round in order and go on where they
\* stopped, with their own interrupt enable, a task that is preempted between
\* the return of its function and the clearing of its entry included.  The
\* promise ends where the interrupt puts an ended task back in the table.
places == [i \in Tasks |-> PlaceOf(i)]
RR == INSTANCE RoundRobin WITH run <- on, place <- places, Start <- "start"
RoundRobin == RR!Init /\ [][revived' \/ RR!Next]_(RR!rvars)

\* The table and the CPU agree: yield stores the pointer of the task that runs
\* in that task's own entry, and no entry points into another task's stack,
\* until the interrupt has put an ended task back in the table.
OwnEntry ==
  ~revived => /\ pc \in {"app", "mark", "pick"} => current = on
              /\ \A i \in Tasks : i # on /\ entry[i] # Free => entry[i].stack = i

\* Every registered task gets its turn, unless an ended task has been put back
\* in the table, where it may take the entry of another.
EveryTaskRuns ==
  \A i \in Tasks : entry[i] # Free ~> on = i \/ entry[i] = Free \/ revived
=============================================================================
