---------------------------- MODULE TimeoutTimer ----------------------------
(***************************************************************************)
(* src/TimeoutTimer.h and src/cpp/TimeoutTimer.cpp: the RTC clock, delay,  *)
(* sleep and the TIMEOUT_BLOCK construct, which bounds the running time of *)
(* a block of code by a longjmp out of the RTC interrupt.                  *)
(*                                                                         *)
(* Three actors share the RTC registers and __worker: the counter hardware *)
(* (Tick), the interrupt (ISR) and the program.  ATOMIC_BLOCK keeps the    *)
(* interrupt out of a section but not the hardware, so a section is cut    *)
(* into steps at each access to a register the hardware moves.             *)
(*                                                                         *)
(* A jmp_buf is named by the nesting depth of its TIMEOUT_BLOCK, so that   *)
(* context = d is valid exactly while d <= depth.                          *)
(***************************************************************************)
EXTENDS Integers

CONSTANTS
  Per,        \* RTC_PER + 1: RTC_CNT counts modulo Per (65536 in the code)
  HiMod,      \* __worker.counter counts modulo HiMod (65536 in the code)
  BlockTicks, \* tick counts given to TIMEOUT_BLOCK and to sleep_cpu_ticks
  Delays,     \* tick counts given to delay_ticks (0: a plain ticks_left)
  MaxDepth,   \* bound: TIMEOUT_BLOCKs open at once
  MaxReentry  \* bound, not in the code: blocks opened directly inside one
              \* TIMEOUT_BLOCK, by a body that nests finitely often

ASSUME SizesAssumption ==
  /\ Per \in Nat \ {0} /\ HiMod \in Nat \ {0}
  /\ MaxDepth \in Nat \ {0} /\ MaxReentry \in Nat

\* README of the TimeoutTimer example, restriction 2: at least 2 ticks.  The
\* upper bound keeps RTC_CMP - RTC_CNT + 1 away from its wrap-around.
ASSUME TicksAssumption ==
  /\ BlockTicks \subseteq Nat /\ Delays \subseteq Nat
  /\ \A t \in BlockTicks : t >= 2 /\ t + MaxReentry + 2 <= Per

VARIABLES
  cnt, cmp,        \* RTC_CNT, RTC_CMP
  ovf, match,      \* RTC_INTFLAGS: OVF and CMP
  irqOvf, irqCmp,  \* RTC_INTCTRL: OVF and CMP
  running,         \* RTC_CTRLA.RTCEN
  hi, context,     \* __worker.counter, __worker.context (0 is nullptr)
  depth,           \* TIMEOUT_BLOCKs open
  before,          \* __before of each open block
  pc,              \* where the program is
  target,          \* the value about to be written to RTC_CMP
  lvl0,            \* CPUINT.STATUS.LVL0EX: inside the interrupt
  save,            \* sleep_cpu_ticks: the value end() returned
  left, start, value, \* delay_ticks: _ticks, _start and the last ticks_left()
  slack,           \* the program has run since the last tick (see Work)
  budget, entered, \* history: ticks a block may still run, blocks opened in it
  asked, waited    \* history: the delay asked for, ticks since it started

rtc    == <<cnt, cmp, ovf, match, irqOvf, irqCmp, running>>
worker == <<hi, context>>
delayv == <<left, start, value, asked, waited>>
hist   == <<budget, entered>>
vars   == <<rtc, worker, depth, before, pc, target, lvl0, save, delayv, slack, hist>>

-----------------------------------------------------------------------------
(* Values.                                                                 *)

Counts   == 0 .. Per - 1
Depths   == 1 .. MaxDepth
Garbage  == MaxDepth + 1            \* an address that is no jmp_buf
Contexts == 0 .. Garbage
Unset    == Per                     \* __before.counter never written
ClockMod == HiMod * Per
Works    == [counter : 0 .. Per, context : Contexts]  \* TimeoutTimer_work_t
NoBefore == [counter |-> Unset, context |-> 0]

\* uint16_t addition and subtraction.
PlusUnwrapped(a, b) == a + b        \* mutant: promoted to int, never truncated
Plus(a, b)  == IF a + b >= Per THEN a + b - Per ELSE a + b
Minus(a, b) == IF a >= b THEN a - b ELSE a + Per - b

\* A uint32_t time is a pair of words, as _CAPS32 takes it apart.
Times  == [hi : 0 .. HiMod - 1, lo : Counts]
Zero   == [hi |-> 0, lo |-> 0]
NoTime == [hi |-> HiMod, lo |-> 0]
IncHi(h) == IF h + 1 = HiMod THEN 0 ELSE h + 1
Elapsed(a, b) == LET d == (a.hi - b.hi) * Per + (a.lo - b.lo)
                 IN  IF d >= 0 THEN d ELSE d + ClockMod

\* The time the registers and __worker stand for, an overflow not yet
\* served included.
Now == [hi |-> IF ovf THEN IncHi(hi) ELSE hi, lo |-> cnt]

\* Ticks until RTC_CNT meets RTC_CMP.
Remaining == Minus(cmp, cnt)

LibraryPC == {"enter", "arm", "setcmp", "restore", "readhi", "readlo", "readflag"}
SleepPC   == {"sleepset", "sleepgo", "sleeping", "wake"}
PCs       == {"app", "delay", "delayed", "unwind", "reti", "crashed"} \cup LibraryPC \cup SleepPC

Pending     == (ovf /\ irqOvf) \/ (match /\ irqCmp)
Deliverable == Pending /\ ~lvl0 /\ pc \notin LibraryPC /\ pc # "crashed"

\* The program stands at p and no interrupt is due: the CPU serves one first.
At(p) == pc = p /\ ~Deliverable

-----------------------------------------------------------------------------
(* Start-up: __init_timer runs begin(0) out of reset.                      *)

Init ==
  /\ cnt = 0 /\ cmp = 0 /\ ovf = FALSE /\ match = FALSE
  /\ irqOvf = TRUE /\ irqCmp = FALSE /\ running = TRUE
  /\ hi = 0 /\ context = 0
  /\ depth = 0 /\ before = [d \in Depths |-> NoBefore]
  /\ pc = "app" /\ target = 0 /\ lvl0 = FALSE /\ save = Zero
  /\ left = 0 /\ start = NoTime /\ value = Zero
  /\ slack = FALSE
  /\ budget = [d \in Depths |-> 0] /\ entered = [d \in Depths |-> 0]
  /\ asked = 0 /\ waited = 0

-----------------------------------------------------------------------------
(* The hardware and the passing of time.                                   *)

\* The block whose time is running: the innermost one, unless a nested block
\* is being set up or cleaned up.
Timed(d) == d = depth /\ pc \notin {"arm", "setcmp", "unwind", "restore", "reti"}

\* RTC_CNT advances.  The CMP flag is set whether or not its interrupt is
\* enabled.
Tick ==
  /\ running /\ pc # "crashed"
  /\ IF pc = "sleeping" THEN ~Pending ELSE slack
  /\ cnt' = Plus(cnt, 1)
  /\ ovf' = (ovf \/ cnt = Per - 1)
  /\ match' = (match \/ Plus(cnt, 1) = cmp)
  /\ slack' = (pc = "sleeping")
  /\ budget' = [d \in Depths |-> IF Timed(d) /\ budget[d] > 0 THEN budget[d] - 1 ELSE budget[d]]
  /\ waited' = IF waited < asked THEN waited + 1 ELSE waited
  /\ UNCHANGED <<cmp, irqOvf, irqCmp, running, worker, depth, before, pc, target, lvl0,
                 save, left, start, value, asked, entered>>

\* Program code outside the library takes time.  The library's own sections
\* and the interrupt's entry are much shorter than a tick (976us): after one
\* tick the next comes only once the program has run on.
Work ==
  /\ pc \in {"app", "delay"} /\ ~Deliverable /\ ~slack
  /\ slack' = TRUE
  /\ UNCHANGED <<rtc, worker, depth, before, pc, target, lvl0, save, delayv, hist>>

-----------------------------------------------------------------------------
(* longjmp: control is back at the setjmp of block c, or nowhere.          *)

\* The frames above it, a delay among them, are gone.

Keep(f, c, none) == [d \in Depths |-> IF d <= c THEN f[d] ELSE none]

Longjmp(c) ==
  /\ IF c \in 1 .. depth THEN depth' = c /\ pc' = "unwind"
                         ELSE depth' = depth /\ pc' = "crashed"
  /\ before' = Keep(before, depth', NoBefore)
  /\ budget' = Keep(budget, depth', 0) /\ entered' = Keep(entered, depth', 0)
  /\ left' = 0 /\ start' = NoTime /\ value' = Zero /\ asked' = 0 /\ waited' = 0

\* __worker.counter once the flags that were set are served.
ServedHiUnlessJumping == IF ovf /\ ~match THEN IncHi(hi) ELSE hi  \* mutant: jumps first
ServedHi == IF ovf THEN IncHi(hi) ELSE hi

(* ISR(RTC_CNT_vect): serves both flags, and jumps out of the block.       *)
ISR ==
  /\ Deliverable
  /\ ovf' = FALSE /\ match' = FALSE
  /\ hi' = ServedHi
  /\ IF match /\ context # 0
       THEN Longjmp(context) /\ lvl0' = TRUE
       ELSE /\ pc' = IF pc = "sleeping" THEN "wake" ELSE pc
            /\ UNCHANGED <<depth, lvl0, before, delayv, hist>>
  /\ UNCHANGED <<cnt, cmp, irqOvf, irqCmp, running, context, target, save, slack>>

-----------------------------------------------------------------------------
(* TIMEOUT_BLOCK: setup.                                                   *)

\* setjmp returned 0; ATOMIC_BLOCK of __setup begins.  The code lets a body
\* open as many blocks as it likes, one after the other; each puts off its own
\* end by up to a tick (OuterTicks), and the bound is on how often.
EnterBlock(t) ==
  /\ At("app")
  /\ depth < MaxDepth
  /\ depth > 0 => entered[depth] < MaxReentry
  /\ pc' = "enter" /\ left' = t
  /\ UNCHANGED <<rtc, worker, depth, before, target, lvl0, save, start, value, asked, waited,
                 slack, hist>>

\* RTC_CMP - RTC_CNT + 1: never 0, which would mean that no block is outside.
OuterTicksExact    == Remaining     \* mutant: RTC_CMP - RTC_CNT
OuterTicksAbsolute == cmp           \* mutant: RTC_CMP
OuterTicks == Plus(Remaining, 1)

\* __before takes the outer block's remaining ticks and context, but only if
\* the compare interrupt is on; __worker.context moves to this block.
SaveOuter ==
  /\ pc = "enter"
  /\ depth' = depth + 1
  /\ before' = [before EXCEPT ![depth + 1] =
                  IF irqCmp THEN [counter |-> OuterTicks, context |-> context]
                            ELSE NoBefore]
  /\ context' = depth + 1
  /\ pc' = "arm"
  /\ budget' = [budget EXCEPT ![depth + 1] = left]
  /\ entered' = [d \in Depths |-> IF d = depth THEN entered[d] + 1
                                  ELSE IF d = depth + 1 THEN 0 ELSE entered[d]]
  /\ UNCHANGED <<rtc, hi, target, lvl0, save, delayv, slack>>

\* __ticks + RTC_CNT is computed ...
Arm ==
  /\ pc = "arm"
  /\ target' = Plus(left, cnt)
  /\ pc' = "setcmp"
  /\ UNCHANGED <<rtc, worker, depth, before, lvl0, save, delayv, slack, hist>>

\* ... and written; the compare interrupt and the counter are switched on.
SetCmp ==
  /\ pc = "setcmp"
  /\ cmp' = target /\ irqOvf' = TRUE /\ irqCmp' = TRUE /\ running' = TRUE
  /\ pc' = "app" /\ left' = 0 /\ target' = 0
  /\ UNCHANGED <<cnt, ovf, match, worker, depth, before, lvl0, save, start, value,
                 asked, waited, slack, hist>>

(* The body ends, or calls TimeoutTimer::abort: a jump to __worker.context. *)
Abort ==
  /\ At("app") /\ depth > 0
  /\ Longjmp(context)
  /\ UNCHANGED <<rtc, worker, target, lvl0, save, slack>>

-----------------------------------------------------------------------------
(* TIMEOUT_BLOCK: cleanup, where setjmp returned 1.                        *)

\* What __before->counter and __before->context read as: any value if __setup
\* did not write them.
ReadBefore(b) ==
  IF b.counter = Unset THEN [counter : Counts, context : Contexts] ELSE {b}

KeepContext(b)    == context        \* mutant: the outer context is not put back
OuterContext(b) == b.context

Cleanup ==
  /\ At("unwind")
  /\ \E b \in ReadBefore(before[depth]) :
       IF b.counter # 0
         THEN /\ context' = OuterContext(b)
              /\ target' = Plus(b.counter, cnt)
              /\ pc' = "restore"
              /\ UNCHANGED irqCmp
         ELSE /\ irqCmp' = FALSE
              /\ pc' = "reti"
              /\ UNCHANGED <<context, target>>
  /\ irqOvf' = TRUE
  /\ UNCHANGED <<cnt, cmp, ovf, match, running, hi, depth, before, lvl0, save, delayv, slack, hist>>

RestoreCmp ==
  /\ pc = "restore"
  /\ cmp' = target /\ target' = 0
  /\ pc' = "reti"
  /\ UNCHANGED <<cnt, ovf, match, irqOvf, irqCmp, running, worker, depth, before, lvl0,
                 save, delayv, slack, hist>>

\* CALL L_RETI leaves the interrupt level; the block is closed.
LeaveBlock ==
  /\ At("reti")
  /\ lvl0' = FALSE
  /\ depth' = depth - 1
  /\ before' = Keep(before, depth - 1, NoBefore)
  /\ entered' = Keep(entered, depth - 1, 0)
  /\ budget' = [d \in Depths |-> IF d = depth - 1 THEN budget[d] + 1
                                 ELSE IF d < depth THEN budget[d] ELSE 0]
  /\ pc' = "app"
  /\ UNCHANGED <<rtc, worker, target, save, delayv, slack>>

-----------------------------------------------------------------------------
(* ticks_left and delay_ticks.                                             *)

Delay(n) ==
  /\ At("app")
  /\ left' = n /\ start' = NoTime /\ asked' = n /\ waited' = 0
  /\ pc' = "readhi"
  /\ UNCHANGED <<rtc, worker, depth, before, target, lvl0, save, value, slack, hist>>

\* One turn of the waiting loop: yield(), then ticks_left().
Poll ==
  /\ At("delay")
  /\ pc' = "readhi"
  /\ UNCHANGED <<rtc, worker, depth, before, target, lvl0, save, delayv, slack, hist>>

ReadHi ==
  /\ pc = "readhi"
  /\ value' = [value EXCEPT !.hi = hi]
  /\ pc' = "readlo"
  /\ UNCHANGED <<rtc, worker, depth, before, target, lvl0, save, left, start, asked, waited,
                 slack, hist>>

ReadLo ==
  /\ pc = "readlo"
  /\ value' = [value EXCEPT !.lo = cnt]
  /\ pc' = "readflag"
  /\ UNCHANGED <<rtc, worker, depth, before, target, lvl0, save, left, start, asked, waited,
                 slack, hist>>

TicksLeftUnchecked == value         \* mutant: a pending overflow is overlooked
TicksLeftNoReread ==                \* mutant: the low word is not read again
  IF ovf THEN [value EXCEPT !.hi = IncHi(value.hi)] ELSE value
\* What ticks_left returns: an overflow flag not yet served means that the
\* low word must be read again and that the high word is one short.
TicksLeft == IF ovf THEN [hi |-> IncHi(value.hi), lo |-> cnt] ELSE value

\* The first value becomes _start.  A later one uses up as much of _ticks as
\* has elapsed, and _start catches up with it.
ReadFlag ==
  /\ pc = "readflag"
  /\ value' = TicksLeft /\ start' = TicksLeft
  /\ LET step == IF start = NoTime THEN 0 ELSE Elapsed(TicksLeft, start)
     IN  left' = IF step < left THEN left - step ELSE 0
  /\ pc' = IF left' = 0 THEN "delayed" ELSE "delay"
  /\ UNCHANGED <<rtc, worker, depth, before, target, lvl0, save, asked, waited, slack, hist>>

DelayReturns ==
  /\ At("delayed")
  /\ pc' = "app"
  /\ left' = 0 /\ start' = NoTime /\ value' = Zero /\ asked' = 0 /\ waited' = 0
  /\ UNCHANGED <<rtc, worker, depth, before, target, lvl0, save, slack, hist>>

-----------------------------------------------------------------------------
(* begin, end and sleep_cpu_ticks, which are not for use inside a block.   *)
(* The clock is restarted at 0 or at the value end() returned, which is    *)
(* what the stopped registers still hold.                                  *)

StopClock ==
  /\ running' = FALSE /\ irqOvf' = FALSE /\ irqCmp' = FALSE
  /\ context' = 0

StartClock(v) ==
  /\ hi' = v.hi /\ cnt' = v.lo
  /\ irqOvf' = TRUE /\ irqCmp' = FALSE /\ running' = TRUE
  /\ UNCHANGED <<cmp, ovf, match, context>>

End ==
  /\ At("app") /\ depth = 0
  /\ StopClock
  /\ UNCHANGED <<cnt, cmp, ovf, match, hi, depth, before, pc, target, lvl0, save, delayv, slack,
                 hist>>

Begin(v) ==
  /\ At("app") /\ depth = 0
  /\ StartClock(v)
  /\ UNCHANGED <<depth, before, pc, target, lvl0, save, delayv, slack, hist>>

\* sleep_cpu_ticks: end(), then the compare register is used as an alarm ...
Sleep(t) ==
  /\ At("app") /\ depth = 0
  /\ StopClock
  /\ save' = Now /\ left' = t /\ pc' = "sleepset"
  /\ UNCHANGED <<cnt, cmp, ovf, match, hi, depth, before, target, lvl0, start, value, asked,
                 waited, slack, hist>>

SleepSet ==
  /\ At("sleepset")
  /\ cmp' = left /\ irqCmp' = TRUE
  /\ pc' = "sleepgo" /\ left' = 0
  /\ UNCHANGED <<cnt, ovf, match, irqOvf, running, worker, depth, before, target, lvl0, save,
                 start, value, asked, waited, slack, hist>>

SleepGo ==
  /\ At("sleepgo")
  /\ cnt' = 0 /\ running' = TRUE
  /\ pc' = "sleeping" /\ slack' = TRUE
  /\ UNCHANGED <<cmp, ovf, match, irqOvf, irqCmp, worker, depth, before, target, lvl0, save,
                 delayv, hist>>

\* ... until any interrupt of the chip ends the sleep.
OtherInterrupt ==
  /\ At("sleeping")
  /\ pc' = "wake"
  /\ UNCHANGED <<rtc, worker, depth, before, target, lvl0, save, delayv, slack, hist>>

Wake ==
  /\ At("wake")
  /\ StartClock(save)
  /\ pc' = "app" /\ save' = Zero
  /\ UNCHANGED <<depth, before, target, lvl0, delayv, slack, hist>>

\* A jump to nowhere ends, as the example's README says, mostly in a reset.
Reset ==
  /\ pc = "crashed"
  /\ cnt' = 0 /\ cmp' = 0 /\ ovf' = FALSE /\ match' = FALSE
  /\ irqOvf' = TRUE /\ irqCmp' = FALSE /\ running' = TRUE
  /\ hi' = 0 /\ context' = 0
  /\ depth' = 0 /\ pc' = "app" /\ target' = 0 /\ lvl0' = FALSE /\ save' = Zero
  /\ left' = 0 /\ start' = NoTime /\ value' = Zero /\ slack' = FALSE /\ asked' = 0 /\ waited' = 0
  /\ before' = [d \in Depths |-> NoBefore]
  /\ budget' = [d \in Depths |-> 0] /\ entered' = [d \in Depths |-> 0]

-----------------------------------------------------------------------------

Library == SaveOuter \/ Arm \/ SetCmp \/ Cleanup \/ RestoreCmp \/ LeaveBlock
           \/ ReadHi \/ ReadLo \/ ReadFlag
Program == \/ \E t \in BlockTicks : EnterBlock(t) \/ Sleep(t)
           \/ \E n \in Delays : Delay(n)
           \/ \E v \in {Zero, Now} : Begin(v)
           \/ Abort \/ Poll \/ DelayReturns \/ End
           \/ SleepSet \/ SleepGo \/ OtherInterrupt \/ Wake \/ Reset
Next == Tick \/ Work \/ ISR \/ Library \/ Program

Spec == Init /\ [][Next]_vars

\* The oscillator runs, the CPU executes the program and takes interrupts,
\* and a program that runs forever takes forever (Work, strongly).  It need
\* not leave a block or a wait on its own.
Fairness == WF_vars(Tick) /\ SF_vars(Work) /\ WF_vars(ISR) /\ WF_vars(Library)
            /\ WF_vars(Poll) /\ WF_vars(DelayReturns) /\ WF_vars(Wake) /\ WF_vars(SleepSet) /\ WF_vars(SleepGo) /\ WF_vars(Reset)
FairSpec == Spec /\ Fairness

-----------------------------------------------------------------------------
(* Properties.                                                             *)

\* Every register keeps its width through the sums of __setup and __cleanup,
\* which compute modulo the width of RTC_CNT.
TypeOK ==
  /\ cnt \in Counts /\ cmp \in Counts /\ target \in Counts
  /\ ovf \in BOOLEAN /\ match \in BOOLEAN /\ irqOvf \in BOOLEAN /\ irqCmp \in BOOLEAN
  /\ running \in BOOLEAN /\ lvl0 \in BOOLEAN /\ slack \in BOOLEAN
  /\ hi \in 0 .. HiMod - 1
  /\ context \in Contexts /\ depth \in 0 .. MaxDepth
  /\ before \in [Depths -> Works]
  /\ pc \in PCs
  /\ save \in Times /\ value \in Times /\ start \in Times \cup {NoTime}
  /\ left \in Nat
  /\ budget \in [Depths -> Nat] /\ entered \in [Depths -> 0 .. MaxReentry]
  /\ asked \in Nat /\ waited \in Nat

\* Where the code of a block's body runs.
Body == {"app", "delay", "delayed", "enter", "readhi", "readlo", "readflag"}
InBody == depth > 0 /\ pc \in Body

\* While the body of a TIMEOUT_BLOCK runs, the compare interrupt is on and
\* __worker.context is its own jmp_buf, whatever nested blocks have done
\* (__setup, __cleanup).
InnermostArmed == InBody => irqCmp /\ running /\ context = depth

\* A block never outlives its time: the compare lies no further ahead than
\* the ticks the block has left, one more for each block nested in it, and a
\* compare that has been met is waiting to be served.  This is of bodies that
\* open at most MaxReentry blocks, few enough for RTC_CMP not to wrap.
NeverLate == InBody => Remaining <= budget[depth] /\ (Remaining = 0 => match)

\* A timeout or an abort in a body ends that block and no other: it neither
\* skips a level nor jumps into a block that is over.
OneLevelAtATime == [][InBody /\ pc' \notin Body \cup {"arm", "setcmp"}
                      => pc' = "unwind" /\ depth' = depth]_vars

\* ticks_left returns the time of its last access to RTC_CNT: the time of the
\* return, or one tick before, also when the counter overflows in the middle.
TicksLeftExact == [][ReadFlag => Elapsed(Now, value') \in {0, 1}]_vars

\* Serving an overflow, with or without a jump out of the interrupt, neither
\* loses nor repeats time, and time moves a tick at a time.
ClockSteps == [][(Tick \/ ISR \/ Abort) /\ pc \notin SleepPC
                 => Elapsed(Now', Now) \in {0, 1}]_vars

\* delay_ticks(n) returns no sooner than n ticks after it started.
DelayIsLongEnough == pc = "delayed" => waited = asked

\* A TIMEOUT_BLOCK whose body never ends, but opens blocks in it only finitely
\* often (at most MaxReentry times), comes to its end all the same, through its
\* own cleanup and not by a reset.  A body that opens one block after the other
\* for ever need not: each puts the compare of the outer one off by a tick.
BlockEnds == \A d \in Depths : depth >= d /\ pc # "crashed" ~> depth = d /\ pc = "reti"
=============================================================================
