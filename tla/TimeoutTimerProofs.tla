------------------------- MODULE TimeoutTimerProofs -------------------------
(***************************************************************************)
(* Proofs, for every counter width and every nesting bound, that the       *)
(* innermost TIMEOUT_BLOCK stays armed and never outlives its time, that a *)
(* jump out of a block's body ends that block and no other, and that the   *)
(* clock below the blocks takes one step at a time, is read right by       *)
(* ticks_left although the counter moves, and never ends a delay early.    *)
(*                                                                         *)
(* InnermostArmed says nothing of the moments between two bodies, so it is *)
(* strengthened with what __before must hold for the outer blocks (Chain), *)
(* with the context and the interrupt enable at each step of __setup and   *)
(* __cleanup (Switching), and with the place of the compare at each step   *)
(* (Compare).  A saved counter of 1 is the delicate case: it is put back   *)
(* before the next tick, or the compare would be passed unseen (Prompt).   *)
(*                                                                         *)
(* The clock rests on one fact (Served): while time can go on, no overflow *)
(* is waiting, so that a second one cannot be lost.  The delay adds what   *)
(* ticks_left holds between its reads (Reading) and how far the ticks that *)
(* have passed are ahead of those that are counted (Counted).              *)
(***************************************************************************)
EXTENDS TimeoutTimer, TLAPS

Cap == Per - 2 - MaxReentry

\* The inputs of a step survive until it is taken.
Phases ==
  /\ pc \in {"arm", "setcmp", "unwind", "restore", "reti"} => depth \in Depths
  /\ pc = "enter" => depth < MaxDepth /\ left >= 2 /\ left <= Cap
                     /\ (depth > 0 => entered[depth] < MaxReentry)
  /\ pc \in {"arm", "setcmp"} => left >= 2 /\ left <= Cap /\ budget[depth] = left
  /\ pc = "sleepset" => left < Per
  /\ pc \in SleepPC => depth = 0
  /\ lvl0 => pc \in {"unwind", "restore", "reti", "crashed"}

\* What an open block saved of the block around it.
Chain ==
  \A d \in 2 .. depth :
    /\ before[d].context = d - 1
    /\ before[d].counter \in 1 .. Per - 1
    /\ before[d].counter <= budget[d - 1] + 1

\* No block has more time than its ticks and one for each block opened in it.
Budgets ==
  \A d \in 1 .. depth :
    budget[d] + (IF d < depth THEN 1 ELSE 0) <= Cap + entered[d]

Switching ==
  /\ pc \in {"arm", "setcmp", "unwind"} => context = depth
  /\ pc \in {"unwind", "restore", "reti"} /\ depth > 1 => irqCmp /\ running
  /\ pc \in {"arm", "setcmp"} /\ depth > 1 => irqCmp /\ running
  /\ pc \in {"restore", "reti"} /\ depth > 1 => context = depth - 1

\* Where the compare lies, or is about to be put.
Compare ==
  /\ InBody => Remaining <= budget[depth] /\ (Remaining = 0 => match /\ ~slack)
  /\ pc = "setcmp" => LET r == Minus(target, cnt)
                      IN  r <= left /\ r >= left - 1 /\ (slack => r = left)
  /\ pc = "restore" /\ depth > 1 =>
       LET r == Minus(target, cnt) c == before[depth].counter
       IN  r <= c /\ r >= c - 1 /\ (slack \/ c = 1 => r = c)
  /\ pc = "reti" /\ depth > 1 =>
       Remaining <= budget[depth - 1] + 1 /\ (Remaining = 0 => match /\ ~slack)

\* A counter of 1 was saved in the tick of the match itself.
Prompt ==
  \A d \in 2 .. depth : before[d].counter = 1 =>
    /\ d = depth /\ ~slack
    /\ pc \in {"arm", "setcmp", "unwind", "restore", "reti", "app"}
    /\ pc \in {"arm", "setcmp", "app"} => match

Rest == Phases /\ Chain /\ Budgets /\ InnermostArmed /\ Switching /\ Compare /\ Prompt

IInv == TypeOK /\ Rest

-----------------------------------------------------------------------------
(* Arithmetic of the counter.                                              *)

LEMMA PlusMinusType ==
  ASSUME NEW a \in Counts, NEW b \in Counts
  PROVE  Plus(a, b) \in Counts /\ Minus(a, b) \in Counts
  BY SizesAssumption DEF Counts, Plus, Minus

LEMMA IncType ==
  ASSUME NEW a \in Counts
  PROVE  Plus(a, 1) \in Counts
  BY SizesAssumption DEF Counts, Plus

\* A compare put k ticks ahead of the counter is k ticks away.
LEMMA MinusPlus ==
  ASSUME NEW a \in Counts, NEW k \in Counts
  PROVE  Minus(Plus(k, a), a) = k
  BY SizesAssumption DEF Counts, Plus, Minus

\* The counter comes one tick nearer to a compare it has not met, and meets it
\* when nothing is left.
LEMMA MinusTick ==
  ASSUME NEW a \in Counts, NEW c \in Counts
  PROVE  /\ Minus(c, a) > 0 => Minus(c, Plus(a, 1)) = Minus(c, a) - 1
         /\ Minus(c, a) = 0 <=> c = a
         /\ Minus(c, a) = 0 => Minus(c, Plus(a, 1)) = Per - 1
  BY SizesAssumption DEF Counts, Plus, Minus
-----------------------------------------------------------------------------
(* Types.                                                                  *)

LEMMA PCNames ==
  /\ {"app", "delay", "delayed", "unwind", "reti", "crashed", "enter", "arm", "setcmp",
      "restore", "readhi", "readlo", "readflag", "sleepset", "sleepgo", "sleeping",
      "wake"} = PCs
  BY DEF PCs, LibraryPC, SleepPC

LEMMA ConstantTypes ==
  /\ 0 \in Counts /\ 0 \in Contexts /\ 0 \in 0 .. MaxReentry /\ 0 \in 0 .. MaxDepth
  /\ Zero \in Times /\ NoBefore \in Works
  BY SizesAssumption DEF Counts, Contexts, Garbage, Zero, Times, NoBefore, Works, Unset

LEMMA TimeTypes ==
  ASSUME TypeOK
  PROVE  /\ Now \in Times /\ ServedHi \in 0 .. HiMod - 1
         /\ TicksLeft \in Times
  BY SizesAssumption DEF TypeOK, Now, ServedHi, TicksLeft, IncHi, Times

LEMMA ElapsedType ==
  ASSUME NEW a \in Times, NEW b \in Times
  PROVE  Elapsed(a, b) \in Int
  <1>1. ASSUME NEW x \in Int, NEW y \in Int PROVE x * y \in Int
    BY <1>1
  <1>2. (a.hi - b.hi) * Per \in Int /\ HiMod * Per \in Int
    BY <1>1, SizesAssumption DEF Times
  <1>3. (a.hi - b.hi) * Per + (a.lo - b.lo) \in Int
    BY <1>2, SizesAssumption DEF Times, Counts
  <1>4. QED
    BY <1>2, <1>3 DEF Elapsed, ClockMod

LEMMA KeepType ==
  ASSUME NEW S, NEW f \in [Depths -> S], NEW c, NEW none \in S
  PROVE  Keep(f, c, none) \in [Depths -> S]
  BY DEF Keep

LEMMA RemainingType ==
  ASSUME TypeOK
  PROVE  Remaining \in Nat /\ Remaining < Per
  BY SizesAssumption, PlusMinusType DEF TypeOK, Remaining, Counts

LEMMA LongjmpType ==
  ASSUME TypeOK, NEW c, Longjmp(c)
  PROVE  /\ depth' \in 0 .. MaxDepth /\ pc' \in PCs
         /\ before' \in [Depths -> Works]
         /\ budget' \in [Depths -> Nat] /\ entered' \in [Depths -> 0 .. MaxReentry]
         /\ left' \in Nat /\ start' \in Times \cup {NoTime} /\ value' \in Times
         /\ asked' \in Nat /\ waited' \in Nat
  <1>1. depth' \in 0 .. MaxDepth /\ pc' \in PCs
    BY PCNames, SizesAssumption DEF Longjmp, TypeOK
  <1>2. before' \in [Depths -> Works]
    BY KeepType, ConstantTypes DEF Longjmp, TypeOK
  <1>3. budget' \in [Depths -> Nat] /\ entered' \in [Depths -> 0 .. MaxReentry]
    BY KeepType, ConstantTypes DEF Longjmp, TypeOK
  <1>4. QED
    BY <1>1, <1>2, <1>3, ConstantTypes DEF Longjmp

LEMMA TypeInit == Init => TypeOK
  <1> SUFFICES ASSUME Init PROVE TypeOK
    OBVIOUS
  <1> USE SizesAssumption, ConstantTypes, PCNames DEF Init
  <1>1. cnt \in Counts /\ cmp \in Counts /\ target \in Counts
    OBVIOUS
  <1>2. ovf \in BOOLEAN /\ match \in BOOLEAN /\ irqOvf \in BOOLEAN /\ irqCmp \in BOOLEAN
    OBVIOUS
  <1>3. running \in BOOLEAN /\ lvl0 \in BOOLEAN /\ slack \in BOOLEAN
    OBVIOUS
  <1>4. hi \in 0 .. HiMod - 1 /\ context \in Contexts /\ depth \in 0 .. MaxDepth
    OBVIOUS
  <1>5. before \in [Depths -> Works]
    OBVIOUS
  <1>6. pc \in PCs /\ save \in Times /\ value \in Times /\ start \in Times \cup {NoTime}
    OBVIOUS
  <1>7. budget \in [Depths -> Nat] /\ entered \in [Depths -> 0 .. MaxReentry]
    OBVIOUS
  <1>8. left \in Nat /\ asked \in Nat /\ waited \in Nat
    OBVIOUS
  <1>9. QED
    BY <1>1, <1>2, <1>3, <1>4, <1>5, <1>6, <1>7, <1>8 DEF TypeOK

LEMMA TypeStep ==
  ASSUME TypeOK, [Next]_vars, Phases
  PROVE  TypeOK'
  <1> USE SizesAssumption, PCNames, ConstantTypes DEF rtc, worker, delayv, hist
  <1>1. ASSUME Tick PROVE TypeOK'
    BY <1>1, IncType DEF TypeOK, Tick
  <1>2. ASSUME Work PROVE TypeOK'
    BY <1>2 DEF TypeOK, Work
  <1>3. ASSUME ISR PROVE TypeOK'
    <2>1. CASE Longjmp(context)
      BY <1>3, <2>1, LongjmpType, TimeTypes DEF TypeOK, ISR
    <2>2. CASE ~Longjmp(context)
      BY <1>3, <2>2, TimeTypes DEF TypeOK, ISR
    <2>3. QED
      BY <2>1, <2>2
  <1>4. ASSUME NEW t \in BlockTicks, EnterBlock(t) PROVE TypeOK'
    BY <1>4, TicksAssumption DEF TypeOK, EnterBlock
  <1>5. ASSUME SaveOuter PROVE TypeOK'
    <2>1. depth + 1 \in Depths /\ depth' \in 0 .. MaxDepth /\ depth + 1 \in Contexts
      BY <1>5 DEF TypeOK, SaveOuter, Phases, Depths, Contexts, Garbage
    <2>2. OuterTicks \in Counts
      BY PlusMinusType, IncType DEF TypeOK, OuterTicks, Remaining
    <2>3. before' \in [Depths -> Works]
      <3>1. [counter |-> OuterTicks, context |-> context] \in Works
        BY <2>2 DEF TypeOK, Works, Counts
      <3>2. QED
        BY <1>5, <3>1 DEF TypeOK, SaveOuter
    <2>4. budget' \in [Depths -> Nat]
      BY <1>5 DEF TypeOK, SaveOuter
    <2>5. entered' \in [Depths -> 0 .. MaxReentry]
      <3>1. \A d \in Depths : entered'[d] \in 0 .. MaxReentry
        BY <1>5 DEF TypeOK, SaveOuter, Phases, Depths
      <3>2. entered' = [d \in Depths |-> entered'[d]]
        BY <1>5 DEF SaveOuter
      <3>3. QED
        BY <3>1, <3>2
    <2>6. QED
      BY <1>5, <2>1, <2>3, <2>4, <2>5 DEF TypeOK, SaveOuter
  <1>6. ASSUME Arm PROVE TypeOK'
    <2>1. left \in Counts
      BY <1>6 DEF TypeOK, Arm, Phases, Cap, Counts
    <2>2. target' \in Counts
      BY <1>6, <2>1, PlusMinusType DEF TypeOK, Arm
    <2>3. QED
      BY <1>6, <2>2 DEF TypeOK, Arm
  <1>7. ASSUME SetCmp PROVE TypeOK'
    BY <1>7 DEF TypeOK, SetCmp
  <1>8. ASSUME Abort PROVE TypeOK'
    <2>1. CASE Longjmp(context)
      BY <1>8, <2>1, LongjmpType, TimeTypes DEF TypeOK, Abort
    <2>2. QED
      BY <1>8, <2>1 DEF Abort
  <1>9. ASSUME Cleanup PROVE TypeOK'
    <2>1. depth \in Depths
      BY <1>9 DEF Cleanup, At, Phases
    <2>2. PICK b \in ReadBefore(before[depth]) :
            \/ context' = b.context /\ target' = Plus(b.counter, cnt)
               /\ pc' = "restore" /\ UNCHANGED irqCmp
            \/ irqCmp' = FALSE /\ pc' = "reti" /\ UNCHANGED <<context, target>>
      BY <1>9 DEF Cleanup, OuterContext
    <2>3. b.counter \in Counts /\ b.context \in Contexts
      <3>1. before[depth] \in Works
        BY <2>1 DEF TypeOK
      <3>2. QED
        BY <3>1 DEF ReadBefore, Works, Counts, Unset
    <2>4. context' \in Contexts /\ target' \in Counts /\ irqCmp' \in BOOLEAN /\ pc' \in PCs
      BY <2>2, <2>3, PlusMinusType DEF TypeOK
    <2>5. QED
      BY <1>9, <2>4 DEF TypeOK, Cleanup
  <1>10. ASSUME RestoreCmp PROVE TypeOK'
    BY <1>10 DEF TypeOK, RestoreCmp
  <1>11. ASSUME LeaveBlock PROVE TypeOK'
    <2>1. depth' \in 0 .. MaxDepth
      BY <1>11 DEF TypeOK, LeaveBlock, At, Phases, Depths
    <2>2. before' \in [Depths -> Works] /\ entered' \in [Depths -> 0 .. MaxReentry]
      BY <1>11, KeepType DEF TypeOK, LeaveBlock
    <2>3. budget' \in [Depths -> Nat]
      BY <1>11 DEF TypeOK, LeaveBlock
    <2>4. QED
      BY <1>11, <2>1, <2>2, <2>3 DEF TypeOK, LeaveBlock
  <1>12. ASSUME NEW n \in Delays, Delay(n) PROVE TypeOK'
    BY <1>12, TicksAssumption DEF TypeOK, Delay
  <1>13. ASSUME Poll PROVE TypeOK'
    BY <1>13 DEF TypeOK, Poll
  <1>14. ASSUME ReadHi PROVE TypeOK'
    BY <1>14 DEF TypeOK, ReadHi, Times
  <1>15. ASSUME ReadLo PROVE TypeOK'
    BY <1>15 DEF TypeOK, ReadLo, Times
  <1>16. ASSUME ReadFlag PROVE TypeOK'
    <2>1. TicksLeft \in Times
      BY TimeTypes
    <2>2. left' \in Nat
      <3> DEFINE step == IF start = NoTime THEN 0 ELSE Elapsed(TicksLeft, start)
      <3>1. step \in Int
        BY <2>1, ElapsedType DEF TypeOK
      <3>2. left' = IF step < left THEN left - step ELSE 0
        BY <1>16 DEF ReadFlag
      <3>3. QED
        BY <3>1, <3>2 DEF TypeOK
    <2>3. QED
      BY <1>16, <2>1, <2>2 DEF TypeOK, ReadFlag
  <1>17. ASSUME DelayReturns PROVE TypeOK'
    BY <1>17 DEF TypeOK, DelayReturns
  <1>18. ASSUME End PROVE TypeOK'
    BY <1>18 DEF TypeOK, End, StopClock
  <1>19. ASSUME NEW v \in {Zero, Now}, Begin(v) PROVE TypeOK'
    BY <1>19, TimeTypes DEF TypeOK, Begin, StartClock, Times
  <1>20. ASSUME NEW t \in BlockTicks, Sleep(t) PROVE TypeOK'
    BY <1>20, TimeTypes, TicksAssumption DEF TypeOK, Sleep, StopClock
  <1>21. ASSUME SleepSet PROVE TypeOK'
    BY <1>21 DEF TypeOK, SleepSet, At, Phases, Counts
  <1>22. ASSUME SleepGo PROVE TypeOK'
    BY <1>22 DEF TypeOK, SleepGo
  <1>23. ASSUME OtherInterrupt PROVE TypeOK'
    BY <1>23 DEF TypeOK, OtherInterrupt
  <1>24. ASSUME Wake PROVE TypeOK'
    BY <1>24 DEF TypeOK, Wake, StartClock, Times
  <1>25. ASSUME Reset PROVE TypeOK'
    <2>1. cnt' \in Counts /\ cmp' \in Counts /\ target' \in Counts
      BY <1>25 DEF Reset
    <2>2. ovf' \in BOOLEAN /\ match' \in BOOLEAN /\ irqOvf' \in BOOLEAN /\ irqCmp' \in BOOLEAN
      BY <1>25 DEF Reset
    <2>3. running' \in BOOLEAN /\ lvl0' \in BOOLEAN /\ slack' \in BOOLEAN
      BY <1>25 DEF Reset
    <2>4. hi' \in 0 .. HiMod - 1 /\ context' \in Contexts /\ depth' \in 0 .. MaxDepth
      BY <1>25 DEF Reset
    <2>5. before' \in [Depths -> Works]
      BY <1>25 DEF Reset
    <2>6. pc' \in PCs /\ save' \in Times /\ value' \in Times /\ start' \in Times \cup {NoTime}
      BY <1>25 DEF Reset
    <2>7. budget' \in [Depths -> Nat] /\ entered' \in [Depths -> 0 .. MaxReentry]
      BY <1>25 DEF Reset
    <2>8. left' \in Nat /\ asked' \in Nat /\ waited' \in Nat
      BY <1>25 DEF Reset
    <2>9. QED
      BY <2>1, <2>2, <2>3, <2>4, <2>5, <2>6, <2>7, <2>8 DEF TypeOK
  <1>26. ASSUME UNCHANGED vars PROVE TypeOK'
    BY <1>26 DEF vars, TypeOK
  <1>27. QED
    BY <1>1, <1>2, <1>3, <1>4, <1>5, <1>6, <1>7, <1>8, <1>9, <1>10, <1>11, <1>12, <1>13, <1>14,
       <1>15, <1>16, <1>17, <1>18, <1>19, <1>20, <1>21, <1>22, <1>23, <1>24, <1>25,
       <1>26 DEF Next, Library, Program
-----------------------------------------------------------------------------
(* The rest of the invariant, one lemma per action.                        *)

LEMMA JumpStep ==
  ASSUME IInv, Longjmp(context), TypeOK', pc \notin LibraryPC \cup {"crashed"},
         UNCHANGED <<context, irqCmp, running, slack>>
  PROVE  Rest'
  <1> USE SizesAssumption DEF IInv, Rest, TypeOK, LibraryPC
  <1>1. /\ IF context \in 1 .. depth THEN depth' = context /\ pc' = "unwind"
                                    ELSE depth' = depth /\ pc' = "crashed"
        /\ depth' <= depth
    BY DEF Longjmp
  <1>2. depth > 1 => context \in 1 .. depth /\ irqCmp /\ running
    BY DEF InnermostArmed, InBody, Body, Switching, Phases, SleepPC, PCs
  <1>3. ASSUME NEW d \in 1 .. depth'
        PROVE  before'[d] = before[d] /\ budget'[d] = budget[d] /\ entered'[d] = entered[d]
               /\ budget[d] \in Nat /\ entered[d] \in Nat /\ d \in 1 .. depth
    BY <1>1 DEF Longjmp, Keep, Depths
  <1>4. Phases'
    <2>1. depth' \in 0 .. MaxDepth /\ (pc' = "unwind" => depth' \in Depths)
      BY <1>1 DEF Depths
    <2>2. pc' \in {"unwind", "crashed"}
      BY <1>1
    <2>3. QED
      BY <2>1, <2>2 DEF Phases, SleepPC
  <1>5. Chain'
    <2>1. ASSUME NEW d \in 2 .. depth' PROVE d \in 1 .. depth' /\ d - 1 \in 1 .. depth' /\ d \in 2 .. depth
      BY <1>1
    <2>2. QED
      BY <1>3, <2>1 DEF Chain
  <1>6. Budgets'
    <2>1. ASSUME NEW d \in 1 .. depth'
          PROVE  budget'[d] + (IF d < depth' THEN 1 ELSE 0) <= Cap + entered'[d]
      BY <1>1, <1>3 DEF Budgets, Cap
    <2>2. QED
      BY <2>1 DEF Budgets
  <1>7. InnermostArmed' /\ Compare'
    BY <1>1 DEF InnermostArmed, Compare, InBody, Body
  <1>8. Switching'
    BY <1>1, <1>2 DEF Switching
  <1>9. Prompt'
    <2>1. ASSUME NEW d \in 2 .. depth', before'[d].counter = 1
          PROVE  d = depth' /\ ~slack /\ pc' = "unwind"
      BY <1>1, <1>2, <1>3, <2>1 DEF Prompt
    <2>2. QED
      BY <2>1 DEF Prompt
  <1>10. QED
    BY <1>4, <1>5, <1>6, <1>7, <1>8, <1>9

\* Steps of a body that touch neither the compare nor the blocks.
LEMMA QuietStep ==
  ASSUME IInv, pc \in Body, pc' \in Body \ {"enter"}, pc = "app" => At("app"),
         UNCHANGED <<rtc, worker, depth, before, target, lvl0, slack, hist>>
  PROVE  Rest'
  <1> USE DEF IInv, Rest, rtc, worker, hist
  <1>1. Phases'
    BY DEF Phases, Body, SleepPC
  <1>2. Chain' /\ Budgets'
    BY DEF Chain, Budgets
  <1>3. InnermostArmed' /\ Switching'
    BY DEF InnermostArmed, Switching, InBody, Body
  <1>4. Compare'
    BY DEF Compare, InBody, Remaining, Body
  <1>5. Prompt'
    <2>1. ASSUME NEW d \in 2 .. depth, before[d].counter = 1 PROVE FALSE
      <3>1. pc = "app" /\ match /\ ~lvl0
        BY <2>1 DEF Prompt, Body, Phases
      <3>2. depth > 0
        BY SizesAssumption DEF TypeOK
      <3>3. Deliverable
        BY <3>1, <3>2 DEF InnermostArmed, InBody, Body, Deliverable, Pending, LibraryPC
      <3>4. QED
        BY <3>1, <3>3 DEF At
    <2>2. QED
      BY <2>1 DEF Prompt
  <1>6. QED
    BY <1>1, <1>2, <1>3, <1>4, <1>5

\* Steps outside every block.
LEMMA OutsideStep ==
  ASSUME depth' = 0, pc' \in SleepPC \cup {"app"}, lvl0' = FALSE, pc' = "sleepset" => left' < Per
  PROVE  Rest'
  <1>1. pc' \notin {"arm", "setcmp", "unwind", "restore", "reti", "enter"}
    BY DEF SleepPC
  <1>2. Phases' /\ Chain' /\ Budgets'
    BY <1>1 DEF Phases, Chain, Budgets
  <1>3. InnermostArmed' /\ Switching' /\ Compare' /\ Prompt'
    BY <1>1 DEF InnermostArmed, Switching, Compare, Prompt, InBody
  <1>4. QED
    BY <1>2, <1>3 DEF Rest

LEMMA TickStep ==
  ASSUME IInv, Tick, TypeOK'
  PROVE  Rest'
  <1> USE SizesAssumption, TicksAssumption DEF IInv, Rest, TypeOK, Tick, At, rtc, worker, delayv,
  hist
  <1>1. Phases'
    BY DEF Phases, SleepPC, Timed, Depths
  <1>2. Chain'
    <2>1. ASSUME NEW d \in 2 .. depth PROVE budget'[d - 1] = budget[d - 1]
      BY DEF Timed, Depths
    <2>2. QED
      BY <2>1 DEF Chain
  <1>3. Budgets'
    <2>1. ASSUME NEW d \in 1 .. depth PROVE budget'[d] \in Nat /\ budget'[d] <= budget[d]
      BY DEF Depths
    <2>2. depth' = depth /\ entered' = entered
      OBVIOUS
    <2>3. SUFFICES ASSUME NEW d \in 1 .. depth
                   PROVE  budget'[d] + (IF d < depth THEN 1 ELSE 0) <= Cap + entered[d]
      BY <2>2 DEF Budgets
    <2>4. /\ budget[d] + (IF d < depth THEN 1 ELSE 0) <= Cap + entered[d]
          /\ budget[d] \in Nat /\ entered[d] \in Nat /\ Cap \in Int
      BY DEF Budgets, Depths, Cap
    <2>5. QED
      BY <2>1, <2>4
  <1>4. InnermostArmed'
    BY DEF InnermostArmed, InBody, Body, Phases, Switching
  <1>5. Switching'
    BY DEF Switching, InnermostArmed, InBody, Body, Phases
  <1>6. Compare'
    <2>0. Remaining \in Nat
      BY RemainingType
    <2>1. pc # "sleeping" => slack /\ ~slack'
      OBVIOUS
    <2>2. ASSUME InBody PROVE Remaining' <= budget'[depth] /\ (Remaining' = 0 => match' /\ ~slack')
      <3>1. Remaining > 0 /\ Remaining <= budget[depth] /\ depth \in Depths /\ budget[depth] \in Nat
        BY <2>0, <2>1, <2>2 DEF Compare, InBody, Body, Depths
      <3>2. Remaining' = Remaining - 1 /\ (Remaining' = 0 => match')
        BY <3>1, IncType, MinusTick DEF Remaining
      <3>3. budget'[depth] = budget[depth] - 1
        BY <2>2, <3>1 DEF Timed, InBody, Body, Remaining, Minus, Counts
      <3>4. QED
        BY <2>0, <2>1, <2>2, <3>1, <3>2, <3>3 DEF InBody, Body
    <2>3. ASSUME pc = "setcmp"
          PROVE  LET r == Minus(target,
          cnt') IN r <= left /\ r >= left - 1 /\ (slack' => r = left)
      <3> DEFINE r == Minus(target, cnt)
      <3>1. r \in Nat /\ slack /\ r = left /\ left >= 2
        BY <2>1, <2>3, PlusMinusType DEF Compare, Phases, Counts
      <3>2. Minus(target, cnt') = r - 1
        BY <3>1, MinusTick
      <3>3. QED
        BY <2>1, <2>3, <3>1, <3>2
    <2>4. ASSUME pc = "restore", depth > 1
          PROVE  LET r == Minus(target, cnt') c == before[depth].counter
                 IN  r <= c /\ r >= c - 1 /\ (slack' \/ c = 1 => r = c)
      <3>1. before[depth].counter \in 2 .. Per - 1
        BY <2>1, <2>4 DEF Chain, Prompt
      <3>2. QED
        <4> DEFINE r == Minus(target, cnt)
        <4>0. r \in Counts
          BY PlusMinusType
        <4>1. r \in Nat
          BY <4>0 DEF Counts
        <4>2. slack /\ r = before[depth].counter
          BY <2>1, <2>4 DEF Compare
        <4>3. Minus(target, cnt') = r - 1
          BY <3>1, <4>2, MinusTick
        <4>4. QED
          BY <2>1, <2>4, <3>1, <4>1, <4>2, <4>3
    <2>5. ASSUME pc = "reti", depth > 1
          PROVE  Remaining' <= budget'[depth - 1] + 1 /\ (Remaining' = 0 => match' /\ ~slack')
      <3>1. Remaining > 0 /\ Remaining <= budget[depth - 1] + 1 /\ depth - 1 \in Depths
        BY <2>0, <2>1, <2>5 DEF Compare, Depths
      <3>2. Remaining' = Remaining - 1 /\ (Remaining' = 0 => match')
        BY <3>1, IncType, MinusTick DEF Remaining
      <3>3. budget'[depth - 1] = budget[depth - 1]
        BY <2>5, <3>1 DEF Timed
      <3>4. QED
        BY <2>0, <2>1, <2>5, <3>1, <3>2, <3>3
    <2>6. QED
      BY <2>2, <2>3, <2>4, <2>5 DEF Compare, InBody
  <1>7. Prompt'
    BY DEF Prompt, Phases, InBody, Body, SleepPC
  <1>8. QED
    BY <1>1, <1>2, <1>3, <1>4, <1>5, <1>6, <1>7

LEMMA WorkStep ==
  ASSUME IInv, Work, TypeOK'
  PROVE  Rest'
  <1> USE SizesAssumption, TicksAssumption DEF IInv, Rest, TypeOK, Work, At, rtc, worker, delayv,
  hist
  <1>1. Phases'
    BY DEF Phases, SleepPC
  <1>2. Chain'
    BY DEF Chain, Phases
  <1>3. Budgets'
    BY DEF Budgets, Phases
  <1>4. InnermostArmed'
    BY DEF InnermostArmed, InBody, Body, Phases, Switching
  <1>5. Switching'
    BY DEF Switching, InnermostArmed, InBody, Body, Phases
  <1>6. Compare'
    BY DEF Compare, Remaining, InnermostArmed, InBody, Body, Deliverable, Pending, LibraryPC,
       Phases
  <1>7. Prompt'
    BY DEF Prompt, InnermostArmed, InBody, Body, Deliverable, Pending, LibraryPC, Phases
  <1>8. QED
    BY <1>1, <1>2, <1>3, <1>4, <1>5, <1>6, <1>7

LEMMA ISRStep ==
  ASSUME IInv, ISR, TypeOK'
  PROVE  Rest'
  <1>1. CASE match /\ context # 0
    BY <1>1, JumpStep DEF ISR, Deliverable
  <1>2. CASE ~(match /\ context # 0)
    <2> USE SizesAssumption DEF IInv, Rest, TypeOK, hist, delayv
    <2>1. /\ pc' = IF pc = "sleeping" THEN "wake" ELSE pc
          /\ ~lvl0 /\ pc \notin LibraryPC /\ ~match'
          /\ UNCHANGED <<cnt, cmp, irqCmp, running, context, target, slack, depth, lvl0, before,
                        left, budget, entered>>
      BY <1>2 DEF ISR, Deliverable
    <2>2. Phases'
      BY <2>1 DEF Phases, SleepPC
    <2>3. Chain' /\ Budgets'
      BY <2>1 DEF Chain, Budgets
    <2>4. InnermostArmed' /\ Switching'
      BY <2>1 DEF InnermostArmed, Switching, InBody, Body
    <2>5. Compare'
      <3>1. (InBody => ~match) /\ (pc = "reti" /\ depth > 1 => ~match)
        BY <1>2 DEF InnermostArmed, Switching, InBody
      <3>2. UNCHANGED Remaining
        BY <2>1 DEF Remaining
      <3>3. InBody' => InBody
        BY <2>1 DEF InBody, Body
      <3>4. InBody' => Remaining' <= budget'[depth'] /\ Remaining' # 0
        <4>1. InBody => Remaining <= budget[depth] /\ Remaining # 0
          BY <3>1 DEF Compare
        <4>2. QED
          BY <2>1, <3>2, <3>3, <4>1
      <3>5. pc' = "reti" /\ depth' > 1 => Remaining' <= budget'[depth' - 1] + 1 /\ Remaining' # 0
        BY <2>1, <3>1, <3>2 DEF Compare
      <3>6. QED
        BY <2>1, <3>4, <3>5 DEF Compare, LibraryPC
    <2>6. Prompt'
      <3>1. ASSUME NEW d \in 2 .. depth, before[d].counter = 1 PROVE pc \in {"unwind", "reti"}
        BY <1>2, <2>1, <3>1 DEF Prompt, InnermostArmed, InBody, Body, LibraryPC
      <3>2. QED
        BY <2>1, <3>1 DEF Prompt
    <2>7. QED
      BY <2>2, <2>3, <2>4, <2>5, <2>6
  <1>3. QED
    BY <1>1, <1>2

LEMMA EnterBlockStep ==
  ASSUME IInv, NEW t \in BlockTicks, EnterBlock(t), TypeOK'
  PROVE  Rest'
  <1> USE SizesAssumption, TicksAssumption DEF IInv, Rest, TypeOK, EnterBlock, At, Cap, rtc,
  worker, delayv, hist
  <1>1. Phases'
    BY DEF Phases, SleepPC
  <1>2. Chain'
    BY DEF Chain, Phases
  <1>3. Budgets'
    BY DEF Budgets, Phases
  <1>4. InnermostArmed'
    BY DEF InnermostArmed, InBody, Body, Phases, Switching
  <1>5. Switching'
    BY DEF Switching, InnermostArmed, InBody, Body, Phases
  <1>6. Compare'
    BY DEF Compare, InBody, Body, Phases, Remaining, Prompt, SleepPC
  <1>7. Prompt'
    BY DEF Prompt, InnermostArmed, InBody, Body, Deliverable, Pending, LibraryPC, Phases
  <1>8. QED
    BY <1>1, <1>2, <1>3, <1>4, <1>5, <1>6, <1>7

LEMMA SaveOuterStep ==
  ASSUME IInv, SaveOuter, TypeOK'
  PROVE  Rest'
  <1> USE SizesAssumption, TicksAssumption DEF IInv, Rest, TypeOK, SaveOuter, OuterTicks,
  Remaining, rtc, worker, delayv, hist
  <1>1. Phases'
    BY DEF Phases, SleepPC
  <1>2. Chain'
    <2>1. ASSUME depth > 0
          PROVE  /\ OuterTicks \in 1 .. Per - 1 /\ OuterTicks <= budget[depth] + 1
                 /\ before'[depth + 1] = [counter |-> OuterTicks, context |-> depth]
      <3>1. irqCmp /\ context = depth /\ Remaining <= budget[depth]
        BY <2>1 DEF InnermostArmed, Compare, InBody, Body
      <3>2. Remaining \in Counts /\ depth \in 1 .. depth /\ depth \in Depths /\ depth + 1 \in Depths
        BY <2>1, PlusMinusType DEF Remaining, Phases, Depths
      <3>3. budget[depth] <= Per - 2
        BY <3>2 DEF Budgets, Cap
      <3>4. OuterTicks = Remaining + 1
        BY <3>1, <3>2, <3>3 DEF OuterTicks, Plus, Counts
      <3>5. QED
        BY <3>1, <3>2, <3>3, <3>4 DEF Counts
    <2>2. ASSUME NEW d \in 2 .. depth + 1
          PROVE  /\ before'[d].context = d - 1 /\ before'[d].counter \in 1 .. Per - 1
                 /\ before'[d].counter <= budget'[d - 1] + 1
      <3>1. budget'[d - 1] = budget[d - 1]
        BY DEF Depths
      <3>2. CASE d = depth + 1
        BY <2>1, <3>1, <3>2
      <3>3. CASE d \in 2 .. depth
        BY <3>1, <3>3 DEF Chain
      <3>4. QED
        BY <3>2, <3>3
    <2>3. QED
      BY <2>2 DEF Chain
  <1>3. Budgets'
    <2>1. ASSUME NEW d \in 1 .. depth + 1
          PROVE  budget'[d] + (IF d < depth' THEN 1 ELSE 0) <= Cap + entered'[d]
      <3>1. d \in Depths
        BY DEF Phases, Depths
      <3>2. CASE d = depth + 1
        BY <3>1, <3>2 DEF Phases, Cap
      <3>3. CASE d \in 1 .. depth
        <4>1. budget'[d] = budget[d] /\ entered'[d] = IF d = depth THEN entered[d] + 1 ELSE entered[d]
          BY <3>1, <3>3
        <4>2. budget[d] \in Nat /\ entered[d] \in Nat
          BY <3>1
        <4>3. QED
          BY <3>3, <4>1, <4>2 DEF Budgets, Cap
      <3>4. QED
        BY <3>2, <3>3
    <2>2. QED
      BY <2>1 DEF Budgets
  <1>4. InnermostArmed'
    BY DEF InnermostArmed, InBody, Body, Phases, Switching
  <1>5. Switching'
    BY DEF Switching, InnermostArmed, InBody, Body, Phases
  <1>6. Compare'
    BY DEF Compare, InBody, Body, Phases, Remaining, Prompt, SleepPC
  <1>7. Prompt'
    <2>1. ASSUME NEW d \in 2 .. depth + 1, before'[d].counter = 1
          PROVE  d = depth + 1 /\ ~slack /\ match
      <3>1. CASE d = depth + 1
        <4>1. irqCmp /\ OuterTicks = 1 /\ (Remaining = 0 => match /\ ~slack)
          BY <2>1, <3>1 DEF InnermostArmed, Compare, InBody, Body, Phases, Depths
        <4>2. Remaining = 0
          BY <4>1, RemainingType, TicksAssumption DEF OuterTicks, Plus, Phases, Cap
        <4>3. QED
          BY <3>1, <4>1, <4>2
      <3>2. CASE d \in 2 .. depth
        BY <2>1, <3>2 DEF Prompt
      <3>3. QED
        BY <3>1, <3>2
    <2>2. QED
      BY <2>1 DEF Prompt
  <1>8. QED
    BY <1>1, <1>2, <1>3, <1>4, <1>5, <1>6, <1>7

LEMMA ArmStep ==
  ASSUME IInv, Arm, TypeOK'
  PROVE  Rest'
  <1> USE SizesAssumption, TicksAssumption DEF IInv, Rest, TypeOK, Arm, At, rtc, worker, delayv,
  hist
  <1>1. Phases'
    BY DEF Phases, SleepPC
  <1>2. Chain'
    BY DEF Chain, Phases
  <1>3. Budgets'
    BY DEF Budgets, Phases
  <1>4. InnermostArmed'
    BY DEF InnermostArmed, InBody, Body, Phases, Switching
  <1>5. Switching'
    BY DEF Switching, InnermostArmed, InBody, Body, Phases
  <1>6. Compare'
    <2>1. left \in Counts
      BY DEF Phases, Cap, Counts
    <2>2. QED
      BY <2>1, MinusPlus DEF Compare, InBody, Body
  <1>7. Prompt'
    BY DEF Prompt, Phases, InBody, Body, SleepPC
  <1>8. QED
    BY <1>1, <1>2, <1>3, <1>4, <1>5, <1>6, <1>7

LEMMA SetCmpStep ==
  ASSUME IInv, SetCmp, TypeOK'
  PROVE  Rest'
  <1> USE SizesAssumption, TicksAssumption DEF IInv, Rest, TypeOK, SetCmp, At, rtc, worker,
  delayv, hist
  <1>1. Phases'
    BY DEF Phases, SleepPC
  <1>2. Chain'
    BY DEF Chain, Phases
  <1>3. Budgets'
    BY DEF Budgets, Phases
  <1>4. InnermostArmed'
    BY DEF InnermostArmed, InBody, Body, Phases, Switching
  <1>5. Switching'
    BY DEF Switching, InnermostArmed, InBody, Body, Phases
  <1>6. Compare'
    BY DEF Compare, InBody, Body, Phases, Remaining, Prompt, SleepPC
  <1>7. Prompt'
    BY DEF Prompt, Phases, InBody, Body, SleepPC
  <1>8. QED
    BY <1>1, <1>2, <1>3, <1>4, <1>5, <1>6, <1>7

LEMMA AbortStep ==
  ASSUME IInv, Abort, TypeOK'
  PROVE  Rest'
  BY JumpStep DEF Abort, At, LibraryPC, worker, rtc

LEMMA CleanupStep ==
  ASSUME IInv, Cleanup, TypeOK'
  PROVE  Rest'
  <1> USE SizesAssumption, TicksAssumption DEF IInv, Rest, TypeOK, Cleanup, At, ReadBefore,
  OuterContext, rtc, worker, delayv, hist
  <1>0. depth > 1 => /\ context' = depth - 1 /\ target' = Plus(before[depth].counter, cnt)
                     /\ pc' = "restore" /\ irqCmp' /\ running'
    <2>1. ASSUME depth > 1
          PROVE  /\ ReadBefore(before[depth]) = {before[depth]}
                 /\ before[depth].counter # 0 /\ before[depth].context = depth - 1
      BY <2>1 DEF Chain, ReadBefore, Unset
    <2>2. QED
      BY <2>1 DEF Switching
  <1>1. Phases'
    BY DEF Phases, SleepPC
  <1>2. Chain'
    BY DEF Chain, Phases
  <1>3. Budgets'
    BY DEF Budgets, Phases
  <1>4. InnermostArmed'
    BY DEF InnermostArmed, InBody, Body, Phases, Switching
  <1>5. Switching'
    BY <1>0 DEF Switching
  <1>6. Compare'
    <2>1. depth > 1 => Minus(target', cnt) = before[depth].counter
      BY <1>0, MinusPlus DEF Chain, Counts
    <2>2. QED
      BY <1>0, <2>1 DEF Compare, InBody, Body, Chain
  <1>7. Prompt'
    BY DEF Prompt, Phases, InBody, Body, SleepPC
  <1>8. QED
    BY <1>1, <1>2, <1>3, <1>4, <1>5, <1>6, <1>7

LEMMA RestoreCmpStep ==
  ASSUME IInv, RestoreCmp, TypeOK'
  PROVE  Rest'
  <1> USE SizesAssumption, TicksAssumption DEF IInv, Rest, TypeOK, RestoreCmp, At, rtc, worker,
  delayv, hist
  <1>1. Phases'
    BY DEF Phases, SleepPC
  <1>2. Chain'
    BY DEF Chain, Phases
  <1>3. Budgets'
    BY DEF Budgets, Phases
  <1>4. InnermostArmed'
    BY DEF InnermostArmed, InBody, Body, Phases, Switching
  <1>5. Switching'
    BY DEF Switching, InnermostArmed, InBody, Body, Phases
  <1>6. Compare'
    <2>1. ASSUME depth > 1 PROVE Remaining' <= budget[depth - 1] + 1 /\ Remaining' > 0
      <3> DEFINE r == Minus(target, cnt) c == before[depth].counter
      <3>0. r \in Nat
        BY PlusMinusType DEF Counts
      <3>1. r <= c /\ r >= c - 1 /\ (c = 1 => r = c)
        BY <2>1 DEF Compare
      <3>2. c \in 1 .. Per - 1 /\ c <= budget[depth - 1] + 1 /\ depth - 1 \in Depths
        BY <2>1 DEF Chain, Depths
      <3>3. Remaining' = r
        BY DEF Remaining
      <3>4. QED
        BY <3>0, <3>1, <3>2, <3>3
    <2>2. QED
      BY <2>1, PlusMinusType DEF Compare, InBody, Body, Remaining, Counts
  <1>7. Prompt'
    BY DEF Prompt, Phases, InBody, Body, SleepPC
  <1>8. QED
    BY <1>1, <1>2, <1>3, <1>4, <1>5, <1>6, <1>7

LEMMA LeaveBlockStep ==
  ASSUME IInv, LeaveBlock, TypeOK'
  PROVE  Rest'
  <1> USE SizesAssumption, TicksAssumption DEF IInv, Rest, TypeOK, LeaveBlock, At, Keep, rtc,
  worker, delayv, hist
  <1>1. Phases'
    BY DEF Phases, SleepPC
  <1>2. Chain'
    <2>1. ASSUME NEW d \in 2 .. depth - 1
          PROVE  before'[d] = before[d] /\ budget'[d - 1] = budget[d - 1]
      BY DEF Depths
    <2>2. QED
      BY <2>1 DEF Chain
  <1>3. Budgets'
    <2>1. ASSUME NEW d \in 1 .. depth - 1
          PROVE  budget'[d] + (IF d < depth' THEN 1 ELSE 0) <= Cap + entered'[d]
      <3>1. d \in Depths /\ d \in 1 .. depth
        BY DEF Depths
      <3>2. /\ budget'[d] = IF d = depth - 1 THEN budget[d] + 1 ELSE budget[d]
            /\ entered'[d] = entered[d] /\ budget[d] \in Nat /\ entered[d] \in Nat
        BY <3>1
      <3>3. QED
        BY <3>1, <3>2 DEF Budgets, Cap
    <2>2. QED
      BY <2>1 DEF Budgets
  <1>4. InnermostArmed'
    BY DEF InnermostArmed, InBody, Body, Phases, Switching
  <1>5. Switching'
    BY DEF Switching, InnermostArmed, InBody, Body, Phases
  <1>6. Compare'
    <2>1. ASSUME depth - 1 > 0
          PROVE  Remaining <= budget'[depth - 1] /\ (Remaining = 0 => match /\ ~slack)
      BY <2>1 DEF Compare, Depths, Remaining
    <2>2. QED
      BY <2>1 DEF Compare, InBody, Remaining
  <1>7. Prompt'
    <2>1. ASSUME NEW d \in 2 .. depth - 1 PROVE before'[d].counter # 1
      BY DEF Prompt, Depths
    <2>2. QED
      BY <2>1 DEF Prompt
  <1>8. QED
    BY <1>1, <1>2, <1>3, <1>4, <1>5, <1>6, <1>7

LEMMA InvInit == Init => IInv
  <1> SUFFICES ASSUME Init PROVE Rest
    BY TypeInit DEF IInv
  <1>1. depth = 0 /\ pc = "app" /\ lvl0 = FALSE
    BY DEF Init
  <1>2. Phases /\ Chain /\ Budgets
    BY <1>1 DEF Phases, Chain, Budgets, SleepPC
  <1>3. InnermostArmed /\ Switching /\ Compare /\ Prompt
    BY <1>1 DEF InnermostArmed, Switching, Compare, Prompt, InBody
  <1>4. QED
    BY <1>2, <1>3 DEF Rest

LEMMA InvStep == IInv /\ [Next]_vars => IInv'
  <1> SUFFICES ASSUME IInv, [Next]_vars PROVE IInv'
    OBVIOUS
  <1>1. TypeOK'
    BY TypeStep DEF IInv, Rest
  <1>2. ASSUME Tick PROVE Rest'
    BY <1>1, <1>2, TickStep
  <1>3. ASSUME Work PROVE Rest'
    BY <1>1, <1>3, WorkStep
  <1>4. ASSUME ISR PROVE Rest'
    BY <1>1, <1>4, ISRStep
  <1>5. ASSUME NEW t \in BlockTicks, EnterBlock(t) PROVE Rest'
    BY <1>1, <1>5, EnterBlockStep
  <1>6. ASSUME SaveOuter PROVE Rest'
    BY <1>1, <1>6, SaveOuterStep
  <1>7. ASSUME Arm PROVE Rest'
    BY <1>1, <1>7, ArmStep
  <1>8. ASSUME SetCmp PROVE Rest'
    BY <1>1, <1>8, SetCmpStep
  <1>9. ASSUME Abort PROVE Rest'
    BY <1>1, <1>9, AbortStep
  <1>10. ASSUME Cleanup PROVE Rest'
    BY <1>1, <1>10, CleanupStep
  <1>11. ASSUME RestoreCmp PROVE Rest'
    BY <1>1, <1>11, RestoreCmpStep
  <1>12. ASSUME LeaveBlock PROVE Rest'
    BY <1>1, <1>12, LeaveBlockStep
  <1>13. ASSUME \/ \E n \in Delays : Delay(n)
                \/ Poll \/ ReadHi \/ ReadLo \/ ReadFlag \/ DelayReturns
         PROVE  Rest'
    BY <1>13, QuietStep DEF Delay, Poll, ReadHi, ReadLo, ReadFlag, DelayReturns, At, Body, hist
  <1>14. ASSUME \/ \E v \in {Zero, Now} : Begin(v)
                \/ \E t \in BlockTicks : Sleep(t)
                \/ End \/ SleepSet \/ SleepGo \/ OtherInterrupt \/ Wake
         PROVE  Rest'
    <2>1. depth = 0 /\ lvl0 = FALSE
      BY <1>14 DEF IInv, Rest, Phases, TypeOK, SleepPC, Begin, Sleep, End, SleepSet, SleepGo,
         OtherInterrupt, Wake, At
    <2>2. depth' = 0 /\ lvl0' = FALSE /\ pc' \in SleepPC \cup {"app"} /\ (pc' = "sleepset" => left' < Per)
      BY <1>14, <2>1, TicksAssumption, SizesAssumption DEF SleepPC, Begin, Sleep, End, SleepSet,
         SleepGo, OtherInterrupt, Wake, At
    <2>3. QED
      BY <2>2, OutsideStep
  <1>15. ASSUME Reset PROVE Rest'
    BY <1>15, OutsideStep DEF Reset
  <1>16. ASSUME UNCHANGED vars PROVE Rest'
    <2>1. UNCHANGED <<cnt, cmp, match, irqCmp, running, context, depth, before, pc, target, lvl0,
                      left, slack, budget, entered>>
      BY <1>16 DEF vars, rtc, worker, delayv, hist
    <2>2. UNCHANGED <<Phases, Chain, Budgets, Prompt>>
      BY <2>1 DEF Phases, Chain, Budgets, Prompt
    <2>3. UNCHANGED <<InnermostArmed, Switching, Compare>>
      BY <2>1 DEF InnermostArmed, Switching, Compare, InBody, Remaining
    <2>4. QED
      BY <2>2, <2>3 DEF IInv, Rest
  <1>17. Rest'
    <2>1. ASSUME NEW t \in BlockTicks, EnterBlock(t) \/ Sleep(t) PROVE Rest'
      BY <2>1, <1>5, <1>14
    <2>2. CASE Program
      <3>1. CASE \E t \in BlockTicks : EnterBlock(t) \/ Sleep(t)
        BY <2>1, <3>1
      <3>2. CASE Abort \/ Reset
        BY <3>2, <1>9, <1>15
      <3>3. CASE \E n \in Delays : Delay(n)
        BY <3>3, <1>13
      <3>4. CASE \E v \in {Zero, Now} : Begin(v)
        BY <3>4, <1>14
      <3>5. CASE Poll \/ DelayReturns
        BY <3>5, <1>13
      <3>6. CASE End \/ SleepSet \/ SleepGo \/ OtherInterrupt \/ Wake
        BY <3>6, <1>14
      <3>7. QED
        BY <2>2, <3>1, <3>2, <3>3, <3>4, <3>5, <3>6 DEF Program
    <2>3. CASE Library
      BY <2>3, <1>6, <1>7, <1>8, <1>10, <1>11, <1>12, <1>13 DEF Library
    <2>4. QED
      BY <2>2, <2>3, <1>2, <1>3, <1>4, <1>16 DEF Next
  <1>18. QED
    BY <1>1, <1>17 DEF IInv

LEMMA Invariance == Spec => []IInv
  BY InvInit, InvStep, PTL DEF Spec

\* Every variable keeps its type, and with it every input of __setup and
\* __cleanup its range.
THEOREM TypeCorrect == Spec => []TypeOK
  <1>1. IInv => TypeOK
    BY DEF IInv
  <1>2. QED
    BY <1>1, Invariance, PTL

\* While the body of a TIMEOUT_BLOCK runs, the compare interrupt is on and
\* the context is the block's own, at any nesting depth (__setup, __cleanup).
THEOREM ArmedAlways == Spec => []InnermostArmed
  <1>1. IInv => InnermostArmed
    BY DEF IInv, Rest
  <1>2. QED
    BY <1>1, Invariance, PTL

\* No TIMEOUT_BLOCK outlives its ticks, one more for each block opened in it,
\* and no compare is passed without its flag (__setup, __cleanup, RTC_CMP).
THEOREM NeverLateAlways == Spec => []NeverLate
  <1>1. IInv => NeverLate
    BY DEF IInv, Rest, Compare, NeverLate
  <1>2. QED
    BY <1>1, Invariance, PTL

LEMMA OneLevelStep ==
  ASSUME IInv, [Next]_vars, InBody, pc' \notin Body \cup {"arm", "setcmp"}
  PROVE  pc' = "unwind" /\ depth' = depth
  <1>1. context = depth /\ depth \in 1 .. depth
    BY DEF IInv, Rest, InnermostArmed, InBody, TypeOK
  <1>2. ASSUME Longjmp(context) PROVE pc' = "unwind" /\ depth' = depth
    BY <1>1, <1>2 DEF Longjmp
  <1>3. CASE ISR
    BY <1>2, <1>3 DEF ISR, InBody, Body
  <1>4. CASE Abort
    BY <1>2, <1>4 DEF Abort
  <1>5. CASE Library
    BY <1>5 DEF Library, SaveOuter, Arm, SetCmp, Cleanup, At, RestoreCmp, LeaveBlock, ReadHi,
       ReadLo, ReadFlag, InBody, Body
  <1>6. CASE Tick \/ Work \/ UNCHANGED vars
    BY <1>6 DEF Tick, Work, vars, InBody
  <1>7. ASSUME NEW t \in BlockTicks, EnterBlock(t) \/ Sleep(t) PROVE FALSE
    BY <1>7 DEF EnterBlock, Sleep, At, InBody, Body
  <1>8. CASE \/ \E n \in Delays : Delay(n)
             \/ Poll \/ DelayReturns
    BY <1>8 DEF Delay, Poll, DelayReturns, At, Body
  <1>9. CASE \/ \E v \in {Zero, Now} : Begin(v)
             \/ End \/ SleepSet \/ SleepGo \/ OtherInterrupt \/ Wake \/ Reset
    BY <1>9 DEF Begin, End, SleepSet, SleepGo, OtherInterrupt, Wake, Reset, At, InBody, Body
  <1>10. QED
    BY <1>3, <1>4, <1>5, <1>6, <1>7, <1>8, <1>9 DEF Next, Program

\* A timeout or an abort in a body ends that block and no other (the ISR's
\* and abort's longjmp through __worker.context).
THEOREM OneLevelAlways == Spec => OneLevelAtATime
  <1>1. IInv /\ [Next]_vars
        => [InBody /\ pc' \notin Body \cup {"arm",
        "setcmp"} => pc' = "unwind" /\ depth' = depth]_vars
    BY OneLevelStep
  <1>2. QED
    BY <1>1, Invariance, PTL DEF Spec, OneLevelAtATime

DelayPC == {"delay", "readhi", "readlo", "readflag"}

\* No overflow waits where time goes on, or where its interrupt is off.
Served ==
  /\ slack \/ ~irqOvf => ~ovf
  /\ ~irqOvf /\ running => pc \in {"sleeping", "wake", "crashed"}
  /\ pc \in SleepPC => ~irqOvf

\* The compare register of sleep_cpu_ticks ends the sleep before a lap.
Alarm ==
  /\ pc = "sleepset" => left > 0 /\ left <= Cap
  /\ pc \in {"sleepgo", "sleeping", "wake"} => cmp > 0 /\ cmp <= Cap
  /\ pc \in {"sleepgo", "sleeping"} => irqCmp
  /\ pc = "sleeping" => cnt <= cmp /\ (match \/ cnt < cmp)
  /\ pc = "wake" => cnt <= cmp + 1 /\ (slack => cnt <= cmp)

\* What ticks_left has read is the time, or the time one tick ago.
Reading ==
  /\ pc \in {"readlo", "readflag"} => value.hi = hi
  /\ pc = "readflag" =>
       \/ value.lo = cnt
       \/ ~slack /\ cnt = Plus(value.lo, 1) /\ (cnt = 0 => ovf)

\* Ticks from _start to t; a delay that has no _start yet has none.
Since(t) == IF start = NoTime THEN 0 ELSE Elapsed(t, start)

\* Ticks counted, or about to be counted.
Done == asked - left + IF pc = "readflag" THEN Since(TicksLeft) + Elapsed(Now, TicksLeft)
                                          ELSE Since(Now)

Counted ==
  /\ waited <= asked
  /\ pc \in DelayPC => waited = asked \/ waited >= Done
  /\ pc = "delayed" => waited = asked

DInv == IInv /\ Served /\ Alarm /\ Reading /\ Counted

-----------------------------------------------------------------------------
(* Arithmetic of the clock.                                                *)

Index(t) == t.hi * Per + t.lo

LEMMA IndexRange ==
  ASSUME NEW t \in Times
  PROVE  Index(t) \in Nat /\ Index(t) < ClockMod /\ ClockMod \in Nat
  <1>1. t.hi \in Nat /\ t.hi <= HiMod - 1 /\ t.lo \in Nat /\ t.lo < Per /\ Per \in Nat /\ HiMod \in Nat
    BY SizesAssumption DEF Times, Counts
  <1>2. ASSUME NEW x \in Nat, NEW y \in Nat, x <= y - 1 PROVE x * Per \in Nat /\ x * Per + Per <= y * Per
    BY <1>1, <1>2
  <1>3. t.hi * Per \in Nat /\ t.hi * Per + Per <= HiMod * Per
    BY <1>1, <1>2
  <1>4. HiMod * Per \in Nat
    BY <1>1
  <1>5. QED
    BY <1>1, <1>3, <1>4 DEF Index, ClockMod

LEMMA ElapsedIndex ==
  ASSUME NEW a \in Times, NEW b \in Times
  PROVE  Elapsed(a, b) = IF Index(a) >= Index(b) THEN Index(a) - Index(b)
                         ELSE Index(a) - Index(b) + ClockMod
  <1>1. a.hi \in Int /\ b.hi \in Int /\ a.lo \in Int /\ b.lo \in Int /\ Per \in Int
    BY SizesAssumption DEF Times, Counts
  <1>2. (a.hi - b.hi) * Per = a.hi * Per - b.hi * Per
    BY <1>1
  <1>3. a.hi * Per \in Int /\ b.hi * Per \in Int
    BY <1>1
  <1>4. QED
    BY <1>1, <1>2, <1>3, IndexRange DEF Elapsed, Index

LEMMA ElapsedNat ==
  ASSUME NEW a \in Times, NEW b \in Times
  PROVE  Elapsed(a, b) \in Nat /\ Elapsed(a, a) = 0
  BY IndexRange, ElapsedIndex

\* The time a tick after t.
Later(t) == IF t.lo = Per - 1 THEN [hi |-> IncHi(t.hi), lo |-> 0] ELSE [hi |-> t.hi, lo |-> t.lo + 1]

LEMMA LaterIndex ==
  ASSUME NEW t \in Times
  PROVE  /\ Later(t) \in Times
         /\ Index(Later(t)) = IF Index(t) = ClockMod - 1 THEN 0 ELSE Index(t) + 1
  <1>1. /\ t.hi \in Nat /\ t.hi <= HiMod - 1 /\ t.lo \in Nat /\ t.lo < Per
        /\ Per \in Nat \ {0} /\ HiMod \in Nat \ {0}
    BY SizesAssumption DEF Times, Counts
  <1>2. Later(t) \in Times
    BY <1>1 DEF Later, Times, Counts, IncHi
  <1>3. ASSUME NEW x \in Nat PROVE x * Per \in Nat /\ (x + 1) * Per = x * Per + Per
    BY <1>1, <1>3
  <1>4. CASE t.lo # Per - 1
    <2>1. Later(t).hi = t.hi /\ Later(t).lo = t.lo + 1
      BY <1>4 DEF Later
    <2>2. Index(Later(t)) = Index(t) + 1
      BY <2>1, <1>1, <1>3 DEF Index
    <2>3. QED
      BY <1>2, <2>2, IndexRange
  <1>5. CASE t.lo = Per - 1 /\ t.hi + 1 = HiMod
    <2>1. Later(t).hi = 0 /\ Later(t).lo = 0
      BY <1>5 DEF Later, IncHi
    <2>2. Index(Later(t)) = 0
      BY <2>1, <1>1 DEF Index
    <2>3. Index(t) = ClockMod - 1
      <3>1. ClockMod = t.hi * Per + Per
        BY <1>1, <1>3, <1>5 DEF ClockMod
      <3>2. QED
        BY <3>1, <1>1, <1>3, <1>5 DEF Index
    <2>4. QED
      BY <1>2, <2>2, <2>3
  <1>6. CASE t.lo = Per - 1 /\ t.hi + 1 # HiMod
    <2>1. Later(t).hi = t.hi + 1 /\ Later(t).lo = 0
      BY <1>6 DEF Later, IncHi
    <2>2. Index(Later(t)) = Index(t) + 1
      BY <2>1, <1>1, <1>3, <1>6 DEF Index
    <2>3. QED
      BY <1>2, <2>2, IndexRange
  <1>7. QED
    BY <1>4, <1>5, <1>6

\* A tick adds one to what has elapsed, or ends a lap of the clock.
LEMMA LaterElapsed ==
  ASSUME NEW t \in Times, NEW s \in Times
  PROVE  /\ Elapsed(Later(t), s) <= Elapsed(t, s) + 1
         /\ Elapsed(Later(t), t) \in {0, 1}
  <1> DEFINE u == Later(t)
  <1>1. u \in Times /\ Index(u) = IF Index(t) = ClockMod - 1 THEN 0 ELSE Index(t) + 1
    BY LaterIndex
  <1> HIDE DEF u
  <1>2. /\ Index(t) \in Nat /\ Index(t) < ClockMod /\ ClockMod \in Nat
        /\ Index(s) \in Nat /\ Index(s) < ClockMod
    BY IndexRange
  <1>3. Elapsed(u, s) <= Elapsed(t, s) + 1
    <2>1. Elapsed(u, s) = IF Index(u) >= Index(s) THEN Index(u) - Index(s)
                          ELSE Index(u) - Index(s) + ClockMod
      BY <1>1, ElapsedIndex
    <2>2. Elapsed(t, s) = IF Index(t) >= Index(s) THEN Index(t) - Index(s)
                          ELSE Index(t) - Index(s) + ClockMod
      BY ElapsedIndex
    <2>3. QED
      BY <2>1, <2>2, <1>1, <1>2
  <1>4. Elapsed(u, t) \in {0, 1}
    <2>1. Elapsed(u, t) = IF Index(u) >= Index(t) THEN Index(u) - Index(t)
                          ELSE Index(u) - Index(t) + ClockMod
      BY <1>1, ElapsedIndex
    <2>2. QED
      BY <2>1, <1>1, <1>2
  <1>5. QED
    BY <1>3, <1>4 DEF u

-----------------------------------------------------------------------------
(* The clock.                                                              *)

LEMMA TickLater ==
  ASSUME TypeOK, Tick, ~ovf
  PROVE  Now' = Later(Now) /\ (cnt' = 0 => ovf') /\ hi' = hi /\ (slack' => pc = "sleeping")
  <1>1. cnt \in Nat /\ cnt < Per /\ Per \in Nat \ {0}
    BY SizesAssumption DEF TypeOK, Counts
  <1>2. hi' = hi /\ cnt' = (IF cnt = Per - 1 THEN 0 ELSE cnt + 1)
    BY <1>1 DEF Tick, Plus, worker
  <1>3. ovf' <=> cnt = Per - 1
    BY DEF Tick
  <1>4. Now = [hi |-> hi, lo |-> cnt]
    BY DEF Now
  <1>5. Now' = [hi |-> IF ovf' THEN IncHi(hi) ELSE hi, lo |-> cnt']
    BY <1>2 DEF Now
  <1>6. Now' = Later(Now)
    BY <1>1, <1>2, <1>3, <1>4, <1>5 DEF Later
  <1>7. slack' => pc = "sleeping"
    BY DEF Tick
  <1>8. cnt' = 0 => ovf'
    BY <1>1, <1>2, <1>3
  <1>9. QED
    BY <1>2, <1>6, <1>7, <1>8

LEMMA ServedTime ==
  ASSUME TypeOK, ISR
  PROVE  Now' = Now
  BY DEF TypeOK, ISR, Now, ServedHi

LEMMA NowRead ==
  ASSUME TypeOK, Reading, pc = "readflag"
  PROVE  /\ ovf \/ value.lo = cnt => TicksLeft = Now
         /\ Now = TicksLeft \/ Now = Later(TicksLeft)
         /\ TicksLeft \in Times /\ Now \in Times
  <1>1. value = [hi |-> value.hi, lo |-> value.lo] /\ value.lo \in Counts
    BY DEF TypeOK, Times
  <1>2. value.hi = hi
    BY DEF Reading
  <1>3. CASE ovf
    BY <1>2, <1>3, TimeTypes DEF TicksLeft, Now
  <1>4. CASE ~ovf /\ value.lo = cnt
    BY <1>1, <1>2, <1>4, TimeTypes DEF TicksLeft, Now
  <1>5. CASE ~ovf /\ value.lo # cnt
    <2>1. cnt = Plus(value.lo, 1) /\ cnt # 0
      BY <1>5 DEF Reading
    <2>2. cnt = value.lo + 1 /\ value.lo # Per - 1
      BY <2>1, <1>1, SizesAssumption DEF Plus, Counts
    <2>3. QED
      BY <1>2, <1>5, <2>2, TimeTypes DEF TicksLeft, Now, Later
  <1>6. QED
    BY <1>3, <1>4, <1>5

-----------------------------------------------------------------------------
(* Served and Alarm, one step per action.                                  *)

LEMMA ServedInit == Init => Served /\ Alarm /\ Reading /\ Counted
  BY SizesAssumption DEF Init, Served, Alarm, Reading, Counted, SleepPC, DelayPC

LEMMA SleepCap ==
  ASSUME NEW t \in BlockTicks
  PROVE  t \in Nat /\ t > 0 /\ t <= Cap
  BY TicksAssumption, SizesAssumption DEF Cap

LEMMA TickServed ==
  ASSUME IInv, Served, Alarm, Tick
  PROVE  Served' /\ Alarm'
  <1>1. /\ pc' = pc /\ cmp' = cmp /\ left' = left
        /\ irqOvf' = irqOvf /\ irqCmp' = irqCmp /\ running' = running
    BY DEF Tick
  <1>2. slack' => pc = "sleeping"
    BY DEF Tick
  <1>3. /\ cnt \in Nat /\ cnt < Per /\ Per \in Nat \ {0} /\ cmp \in Nat /\ cmp < Per
        /\ Cap <= Per - 2 /\ Cap \in Int
    BY SizesAssumption DEF IInv, TypeOK, Counts, Cap
  <1>4. cnt' = IF cnt = Per - 1 THEN 0 ELSE cnt + 1
    BY <1>3 DEF Tick, Plus
  <1>5. CASE pc = "sleeping"
    <2>1. ~irqOvf /\ ~ovf /\ irqCmp /\ ~match
      BY <1>5 DEF Served, Alarm, SleepPC, Tick, Pending
    <2>2. cnt < cmp /\ cmp <= Cap /\ cmp > 0
      BY <1>5, <2>1 DEF Alarm
    <2>3. cnt' = cnt + 1 /\ ~ovf'
      <3>1. cnt # Per - 1
        BY <1>3, <2>2
      <3>2. QED
        BY <3>1, <1>4, <2>1 DEF Tick
    <2>4. match' \/ cnt' < cmp
      <3>1. match' <=> match \/ Plus(cnt, 1) = cmp
        BY DEF Tick
      <3>2. Plus(cnt, 1) = cnt + 1
        BY <2>3 DEF Tick
      <3>3. QED
        BY <3>1, <3>2, <2>2, <2>3, <1>3
    <2>5. Served'
      BY <1>1, <1>5, <2>1, <2>3 DEF Served
    <2>6. cnt' <= cmp
      BY <2>2, <2>3, <1>3
    <2>7. Alarm'
      BY <1>1, <1>5, <2>1, <2>2, <2>4, <2>6 DEF Alarm
    <2>8. QED
      BY <2>5, <2>7
  <1>6. CASE pc # "sleeping"
    <2>1. ~slack' /\ slack /\ running
      BY <1>2, <1>6 DEF Tick
    <2>2. irqOvf \/ pc = "wake"
      BY <2>1, <1>6 DEF Served, Tick
    <2>3. pc = "wake" => ~ovf /\ cnt <= cmp /\ cmp <= Cap /\ cmp > 0
      BY <2>1 DEF Served, Alarm
    <2>4. pc = "wake" => ~ovf' /\ cnt' = cnt + 1 /\ cnt' <= cmp + 1
      <3>1. pc = "wake" => cnt # Per - 1
        BY <2>3, <1>3
      <3>2. pc = "wake" => cnt' = cnt + 1 /\ ~ovf'
        BY <3>1, <2>3, <1>4 DEF Tick
      <3>3. QED
        BY <3>2, <2>3, <1>3
    <2>5. Served'
      BY <1>1, <2>1, <2>2, <2>4 DEF Served
    <2>6. Alarm'
      BY <1>1, <1>6, <2>1, <2>3, <2>4 DEF Alarm
    <2>7. QED
      BY <2>5, <2>6
  <1>7. QED
    BY <1>5, <1>6

LEMMA JumpServed ==
  ASSUME IInv, Served, Alarm, Longjmp(context), ~ovf', UNCHANGED <<irqOvf, running>>,
         pc # "crashed", pc \in {"sleeping", "wake"} => depth = 0
  PROVE  Served' /\ Alarm'
  <1>1. pc' \in {"unwind", "crashed"} /\ (depth = 0 => pc' = "crashed")
    BY DEF Longjmp, IInv, TypeOK
  <1>2. Alarm'
    BY <1>1 DEF Alarm
  <1>3. ~irqOvf' /\ running' => pc' = "crashed"
    <2>1. ~irqOvf /\ running => pc \in {"sleeping", "wake", "crashed"}
      BY DEF Served
    <2>2. CASE pc \in {"sleeping", "wake"}
      BY <2>2, <1>1
    <2>3. QED
      BY <2>1, <2>2
  <1>4. QED
    BY <1>1, <1>2, <1>3 DEF Served, SleepPC

LEMMA ServedStep ==
  ASSUME IInv, Served, Alarm, [Next]_vars
  PROVE  Served' /\ Alarm'
  <1> USE DEF rtc, worker
  <1>1. pc \in SleepPC => depth = 0
    BY DEF IInv, Rest, Phases
  <1>2. CASE Tick
    BY <1>2, TickServed
  <1>3. CASE Work
    <2>1. ~ovf
      BY <1>3 DEF Work, Deliverable, Pending, Served, LibraryPC, IInv, Rest, Phases
    <2>2. QED
      BY <1>3, <2>1 DEF Work, Served, Alarm
  <1>4. CASE ISR
    <2>1. ~ovf' /\ pc # "crashed"
      BY <1>4 DEF ISR, Deliverable
    <2>2. CASE Longjmp(context)
      BY <1>1, <1>4, <2>1, <2>2, JumpServed DEF ISR, SleepPC
    <2>3. CASE pc' = IF pc = "sleeping" THEN "wake" ELSE pc
      <3>1. UNCHANGED <<cnt, cmp, irqOvf, irqCmp, running, slack>>
        BY <1>4 DEF ISR
      <3>2. Served'
        BY <2>1, <2>3, <3>1 DEF Served, SleepPC
      <3>3. pc = "sleepset" => left' = left
        BY <1>1, <1>4, <2>3 DEF ISR, SleepPC, delayv, Longjmp
      <3>4. pc' = "sleeping" => FALSE
        BY <2>3
      <3>5. pc' = "wake" => cnt <= cmp + 1 /\ (slack => cnt <= cmp) /\ cmp > 0 /\ cmp <= Cap
        BY <2>3 DEF Alarm, IInv, TypeOK, Counts
      <3>6. pc' = "sleepset" => pc = "sleepset"
        BY <2>3
      <3>7. pc' = "sleepgo" => cmp > 0 /\ cmp <= Cap /\ irqCmp
        BY <2>3 DEF Alarm
      <3>8. QED
        BY <3>1, <3>2, <3>3, <3>4, <3>5, <3>6, <3>7 DEF Alarm
    <2>4. QED
      BY <1>4, <2>2, <2>3 DEF ISR
  <1>5. ASSUME NEW t \in BlockTicks, EnterBlock(t) PROVE Served' /\ Alarm'
    BY <1>5 DEF EnterBlock, At, Served, Alarm, SleepPC
  <1>6. CASE SaveOuter \/ Arm \/ SetCmp \/ RestoreCmp \/ ReadHi \/ ReadLo \/ ReadFlag
    <2>1. pc \notin SleepPC \cup {"crashed"} /\ pc' \notin SleepPC \cup {"crashed"}
      BY <1>6 DEF SaveOuter, Arm, SetCmp, RestoreCmp, ReadHi, ReadLo, ReadFlag, SleepPC
    <2>2. UNCHANGED <<ovf, slack>> /\ (irqOvf' \/ UNCHANGED <<irqOvf, running>>)
      BY <1>6 DEF SaveOuter, Arm, SetCmp, RestoreCmp, ReadHi, ReadLo, ReadFlag
    <2>3. QED
      BY <2>1, <2>2 DEF Served, Alarm, SleepPC
  <1>7. CASE Cleanup
    BY <1>7 DEF Cleanup, Served, Alarm, SleepPC, At
  <1>8. CASE LeaveBlock \/ Poll \/ DelayReturns
    BY <1>8 DEF LeaveBlock, Poll, DelayReturns, At, Served, Alarm, SleepPC
  <1>9. CASE Abort
    BY <1>1, <1>9, JumpServed DEF Abort, At, Served, Longjmp, Alarm, SleepPC, IInv, TypeOK
  <1>10. ASSUME NEW n \in Delays, Delay(n) PROVE Served' /\ Alarm'
    BY <1>10 DEF Delay, At, Served, Alarm, SleepPC
  <1>11. ASSUME NEW v, Begin(v) PROVE Served' /\ Alarm'
    <2>1. ~ovf
      BY <1>11 DEF Begin, At, Deliverable, Pending, Served, LibraryPC, IInv, Rest, Phases
    <2>2. QED
      BY <1>11, <2>1 DEF Begin, StartClock, At, Served, Alarm, SleepPC
  <1>12. CASE End
    <2>1. ~ovf
      BY <1>12 DEF End, At, Deliverable, Pending, Served, LibraryPC, IInv, Rest, Phases
    <2>2. QED
      BY <1>12, <2>1 DEF End, StopClock, At, Served, Alarm, SleepPC
  <1>13. ASSUME NEW t \in BlockTicks, Sleep(t) PROVE Served' /\ Alarm'
    <2>1. ~ovf
      BY <1>13 DEF Sleep, At, Deliverable, Pending, Served, LibraryPC, IInv, Rest, Phases
    <2>2. QED
      BY <1>13, <2>1, SleepCap DEF Sleep, StopClock, At, Served, Alarm, SleepPC
  <1>14. CASE SleepSet
    BY <1>14 DEF SleepSet, At, Served, Alarm, SleepPC
  <1>15. CASE SleepGo
    <2>1. pc = "sleepgo" /\ pc' = "sleeping" /\ ~irqOvf /\ ~ovf
      BY <1>15 DEF SleepGo, At, Served, SleepPC
    <2>2. QED
      BY <1>15, <2>1 DEF SleepGo, Served, Alarm, IInv, TypeOK, Counts
  <1>16. CASE OtherInterrupt
    BY <1>16 DEF OtherInterrupt, At, Served, Alarm, SleepPC, IInv, TypeOK, Counts
  <1>17. CASE Wake
    <2>1. ~ovf
      BY <1>17 DEF Wake, At, Served, SleepPC
    <2>2. QED
      BY <1>17, <2>1 DEF Wake, StartClock, At, Served, Alarm, SleepPC
  <1>18. CASE Reset
    BY <1>18 DEF Reset, Served, Alarm, SleepPC
  <1>19. CASE UNCHANGED vars
    BY <1>19 DEF vars, Served, Alarm, delayv
  <1>20. QED
    BY <1>2, <1>3, <1>4, <1>5, <1>6, <1>7, <1>8, <1>9, <1>10, <1>11, <1>12, <1>13, <1>14, <1>15,
       <1>16, <1>17, <1>18, <1>19 DEF Next, Library, Program

-----------------------------------------------------------------------------
(* Reading and Counted.                                                    *)

\* Where no delay is under way nothing is claimed.
LEMMA NoDelay ==
  ASSUME pc' \notin DelayPC \cup {"delayed"}, waited' <= asked'
  PROVE  Reading' /\ Counted'
  BY DEF Reading, Counted, DelayPC

\* Steps that leave the time, the delay and its place alone.
LEMMA SameDelay ==
  ASSUME Reading, Counted, UNCHANGED <<pc, value, hi, cnt, ovf, left, start, asked, waited>>,
         slack' => slack \/ pc # "readflag"
  PROVE  Reading' /\ Counted'
  <1>1. Now' = Now /\ TicksLeft' = TicksLeft
    BY DEF Now, TicksLeft
  <1>2. Since(Now)' = Since(Now) /\ Since(TicksLeft)' = Since(TicksLeft)
    BY <1>1 DEF Since, Elapsed
  <1>3. Elapsed(Now, TicksLeft)' = Elapsed(Now, TicksLeft)
    BY <1>1 DEF Elapsed
  <1>4. Done' = Done
    BY <1>2, <1>3 DEF Done
  <1>5. QED
    BY <1>4 DEF Reading, Counted

LEMMA SinceNat ==
  ASSUME TypeOK, NEW t \in Times
  PROVE  Since(t) \in Nat
  BY ElapsedNat DEF Since, TypeOK

LEMMA TickCounted ==
  ASSUME IInv, Served, Reading, Counted, Tick
  PROVE  Reading' /\ Counted'
  <1> DEFINE delaying == pc \in DelayPC
  <1>1. /\ UNCHANGED <<pc, value, hi, left, start, asked>>
        /\ waited' = IF waited < asked THEN waited + 1 ELSE waited
        /\ waited \in Nat /\ asked \in Nat /\ left \in Nat
    BY DEF Tick, worker, IInv, TypeOK
  <1>2. waited' <= asked' /\ (waited = asked => waited' = asked')
    BY <1>1 DEF Counted
  <1>3. CASE pc \notin DelayPC
    BY <1>1, <1>2, <1>3 DEF Reading, Counted, DelayPC
  <1>4. CASE pc \in DelayPC
    <2>1. TypeOK /\ slack /\ ~ovf /\ ~slack'
      BY <1>4 DEF IInv, Tick, Served, DelayPC
    <2>2. Now' = Later(Now) /\ (cnt' = 0 => ovf') /\ Now \in Times /\ Now' \in Times
      BY <2>1, TickLater, TimeTypes, LaterIndex
    <2>3. Since(Now') \in Nat /\ Since(Now) \in Nat /\ Since(Now') <= Since(Now) + 1
      BY <2>1, <2>2, SinceNat, LaterElapsed DEF Since, TypeOK
    <2>4. cnt' = Plus(cnt, 1)
      BY DEF Tick
    <2>5. pc = "readflag" => value.lo = cnt
      BY <2>1 DEF Reading
    <2>6. Reading'
      BY <1>1, <2>1, <2>2, <2>4, <2>5 DEF Reading
    <2>7. Since(Now)' = Since(Now')
      BY <1>1 DEF Since
    <2>8. pc # "readflag" => Done' <= Done + 1
      BY <1>1, <2>3, <2>7 DEF Done
    <2>9. pc = "readflag" => Done' <= Done + 1
      <3> SUFFICES ASSUME pc = "readflag" PROVE Done' <= Done + 1
        OBVIOUS
      <3>1. TicksLeft = Now
        BY <2>1, <2>5, NowRead
      <3>2. Done = asked - left + Since(Now)
        BY <3>1, <1>1, <2>2, <2>3, ElapsedNat DEF Done
      <3>3. CASE ovf'
        <4>1. TicksLeft' = Now'
          BY <3>3, <1>1 DEF TicksLeft, Now, Reading
        <4>2. Done' = asked - left + Since(Now')
          BY <4>1, <1>1, <2>2, <2>3, ElapsedNat DEF Done, Since
        <4>3. QED
          BY <3>2, <4>2, <2>3, <1>1
      <3>4. CASE ~ovf'
        <4>1. TicksLeft' = Now
          BY <3>1, <3>4, <1>1, <2>1 DEF TicksLeft
        <4>2. Elapsed(Now', Now) \in {0, 1}
          BY <2>2, LaterElapsed
        <4>3. Done' = asked - left + Since(Now) + Elapsed(Now', Now)
          BY <4>1, <4>2, <1>1, <2>3 DEF Done, Since
        <4>4. QED
          BY <3>2, <4>3, <4>2, <2>3, <1>1
      <3>5. QED
        BY <3>3, <3>4
    <2>10. Done \in Int /\ Done' \in Int
      <3>1. pc # "readflag" => Done \in Int /\ Done' \in Int
        BY <1>1, <2>3, <2>7 DEF Done
      <3>2. pc = "readflag" => Done \in Int
        BY <1>1, <2>1, NowRead, SinceNat, ElapsedNat DEF Done
      <3>3. pc = "readflag" => Done' \in Int
        <4> SUFFICES ASSUME pc = "readflag" PROVE Done' \in Int
          OBVIOUS
        <4>1. TicksLeft' \in {Now, Now'}
          BY <1>1, <2>1, <2>5, NowRead DEF TicksLeft, Now, Reading
        <4>2. Elapsed(Now', TicksLeft') \in Nat
          BY <4>1, <2>2, ElapsedNat
        <4>3. Since(TicksLeft)' \in Nat
          BY <4>1, <1>1, <2>3 DEF Since
        <4>4. QED
          BY <1>1, <4>2, <4>3 DEF Done
      <3>4. QED
        BY <3>1, <3>2, <3>3
    <2>11. waited' = asked' \/ waited' >= Done'
      BY <1>1, <1>2, <1>4, <2>8, <2>9, <2>10 DEF Counted
    <2>12. QED
      BY <1>1, <1>2, <1>4, <2>6, <2>11 DEF Counted, DelayPC
  <1>5. QED
    BY <1>3, <1>4

LEMMA FlagCounted ==
  ASSUME IInv, Reading, Counted, ReadFlag
  PROVE  Reading' /\ Counted'
  <1>1. /\ UNCHANGED <<hi, cnt, ovf, asked, waited>> /\ pc = "readflag"
        /\ start' = TicksLeft /\ pc' = IF left' = 0 THEN "delayed" ELSE "delay"
        /\ left' = IF Since(TicksLeft) < left THEN left - Since(TicksLeft) ELSE 0
    BY DEF ReadFlag, rtc, worker, Since
  <1>2. waited \in Nat /\ asked \in Nat /\ left \in Nat /\ TypeOK
    BY DEF IInv, TypeOK
  <1>3. TicksLeft \in Times /\ Now \in Times /\ Now' = Now
    BY <1>1, <1>2, NowRead DEF Now
  <1>4. Since(TicksLeft) \in Nat /\ Elapsed(Now, TicksLeft) \in Nat
    BY <1>2, <1>3, SinceNat, ElapsedNat
  <1>5. waited <= asked
        /\ (waited = asked \/ waited >= asked - left + (Since(TicksLeft) + Elapsed(Now, TicksLeft)))
    BY <1>1 DEF Counted, Done, DelayPC
  <1>6. Since(Now)' = Elapsed(Now, TicksLeft)
    <2>1. NoTime \notin Times
      BY SizesAssumption DEF NoTime, Times
    <2>2. QED
      BY <1>1, <1>3, <2>1 DEF Since
  <1>7. CASE Since(TicksLeft) < left
    <2>1. left' = left - Since(TicksLeft) /\ pc' = "delay"
      BY <1>1, <1>2, <1>4, <1>7
    <2>2. Done' = asked - left' + Since(Now)'
      BY <1>1, <2>1 DEF Done
    <2>3. waited' = asked' \/ waited' >= Done'
      BY <1>1, <1>2, <1>4, <1>5, <1>6, <2>1, <2>2
    <2>4. QED
      BY <1>1, <1>5, <2>1, <2>3 DEF Reading, Counted
  <1>8. CASE ~(Since(TicksLeft) < left)
    <2>1. pc' = "delayed"
      BY <1>1, <1>8
    <2>2. waited = asked
      BY <1>2, <1>4, <1>5, <1>8
    <2>3. QED
      BY <1>1, <2>1, <2>2, <1>2 DEF Reading, Counted, DelayPC
  <1>9. QED
    BY <1>7, <1>8

LEMMA LoCounted ==
  ASSUME IInv, Reading, Counted, ReadLo
  PROVE  Reading' /\ Counted'
  <1>1. /\ UNCHANGED <<hi, cnt, ovf, left, start, asked, waited>>
        /\ pc = "readlo" /\ pc' = "readflag" /\ value' = [value EXCEPT !.lo = cnt]
    BY DEF ReadLo, rtc, worker
  <1>2. value'.hi = hi /\ value'.lo = cnt /\ value' = [hi |-> hi, lo |-> cnt]
    BY <1>1 DEF Reading, IInv, TypeOK, Times
  <1>3. TicksLeft' = Now /\ Now' = Now /\ Now \in Times
    BY <1>1, <1>2, TimeTypes DEF TicksLeft, Now, IInv
  <1>4. Since(TicksLeft)' = Since(Now) /\ Since(Now) \in Nat /\ Elapsed(Now', TicksLeft') = 0
    BY <1>1, <1>3, SinceNat, ElapsedNat DEF Since, IInv
  <1>5. Done' = Done
    BY <1>1, <1>4 DEF Done
  <1>6. QED
    BY <1>1, <1>2, <1>5 DEF Reading, Counted, DelayPC

LEMMA CountedStep ==
  ASSUME IInv, Served, Reading, Counted, [Next]_vars
  PROVE  Reading' /\ Counted'
  <1> USE DEF rtc, worker, delayv
  <1>1. waited <= asked
    BY DEF Counted
  <1>2. ASSUME NEW c, Longjmp(c) PROVE Reading' /\ Counted'
    BY <1>2, NoDelay DEF Longjmp, DelayPC
  <1>3. CASE Tick
    BY <1>3, TickCounted
  <1>4. CASE Work
    BY <1>4, SameDelay DEF Work
  <1>5. CASE ISR
    <2>1. CASE Longjmp(context)
      BY <2>1, <1>2
    <2>2. CASE ~Longjmp(context)
      <3>1. /\ pc' = (IF pc = "sleeping" THEN "wake" ELSE pc)
            /\ UNCHANGED <<left, start, value, asked, waited>>
            /\ pc \notin LibraryPC
        BY <1>5, <2>2 DEF ISR, Deliverable
      <3>2. Now' = Now
        BY <1>5, ServedTime DEF IInv
      <3>3. Since(Now)' = Since(Now)
        BY <3>1, <3>2 DEF Since
      <3>4. pc # "readflag" /\ pc' # "readflag" /\ pc # "readlo" /\ pc' # "readlo"
        BY <3>1 DEF LibraryPC
      <3>5. Done' = Done
        BY <3>1, <3>3, <3>4 DEF Done
      <3>6. QED
        BY <3>1, <3>4, <3>5 DEF Reading, Counted, DelayPC
    <2>3. QED
      BY <2>1, <2>2
  <1>6. CASE SaveOuter \/ Arm \/ SetCmp \/ Cleanup \/ RestoreCmp \/ LeaveBlock
    BY <1>1, <1>6, NoDelay DEF SaveOuter, Arm, SetCmp, Cleanup, RestoreCmp, LeaveBlock, DelayPC
  <1>7. CASE ReadHi
    <2>1. /\ UNCHANGED <<hi, cnt, ovf, left, start, asked, waited>>
          /\ pc = "readhi" /\ pc' = "readlo" /\ value' = [value EXCEPT !.hi = hi]
      BY <1>7 DEF ReadHi
    <2>2. value'.hi = hi
      BY <2>1 DEF IInv, TypeOK, Times
    <2>3. Done' = Done
      BY <2>1 DEF Done, Since, Now
    <2>4. QED
      BY <2>1, <2>2, <2>3 DEF Reading, Counted, DelayPC
  <1>8. CASE ReadLo
    BY <1>8, LoCounted
  <1>9. CASE ReadFlag
    BY <1>9, FlagCounted
  <1>10. ASSUME NEW n \in Delays, Delay(n) PROVE Reading' /\ Counted'
    <2>1. /\ left' = n /\ asked' = n /\ start' = NoTime /\ waited' = 0 /\ pc' = "readhi"
          /\ n \in Nat
      BY <1>10, TicksAssumption DEF Delay
    <2>2. Done' = 0
      BY <2>1 DEF Done, Since
    <2>3. QED
      BY <2>1, <2>2 DEF Reading, Counted
  <1>11. CASE Poll
    <2>1. /\ UNCHANGED <<hi, cnt, ovf, left, start, asked, waited>>
          /\ pc = "delay" /\ pc' = "readhi"
      BY <1>11 DEF Poll, At
    <2>2. Done' = Done
      BY <2>1 DEF Done, Since, Now
    <2>3. QED
      BY <2>1, <2>2 DEF Reading, Counted, DelayPC
  <1>12. CASE DelayReturns
    BY <1>12, NoDelay DEF DelayReturns, DelayPC
  <1>13. CASE Abort
    BY <1>2, <1>13 DEF Abort
  <1>14. ASSUME NEW t \in BlockTicks, EnterBlock(t) \/ Sleep(t) PROVE Reading' /\ Counted'
    BY <1>1, <1>14, NoDelay DEF EnterBlock, Sleep, DelayPC
  <1>15. CASE End \/ \E v \in {Zero, Now} : Begin(v)
    BY <1>1, <1>15, NoDelay DEF End, Begin, At, DelayPC
  <1>16. CASE SleepSet \/ SleepGo \/ OtherInterrupt \/ Wake
    BY <1>1, <1>16, NoDelay DEF SleepSet, SleepGo, OtherInterrupt, Wake, DelayPC
  <1>17. CASE Reset
    BY <1>17, NoDelay DEF Reset, DelayPC
  <1>18. CASE UNCHANGED vars
    BY <1>18, SameDelay DEF vars
  <1>19. QED
    BY <1>3, <1>4, <1>5, <1>6, <1>7, <1>8, <1>9, <1>10, <1>11, <1>12, <1>13, <1>14, <1>15,
       <1>16, <1>17, <1>18 DEF Next, Library, Program

-----------------------------------------------------------------------------

LEMMA DInvariance == Spec => []DInv
  <1>1. Init => DInv
    BY InvInit, ServedInit DEF DInv
  <1>2. DInv /\ [Next]_vars => DInv'
    BY InvStep, ServedStep, CountedStep DEF DInv
  <1>3. QED
    BY <1>1, <1>2, PTL DEF Spec

\* delay_ticks(n) returns no sooner than n ticks after it was called, through
\* overflows, interrupts and nested blocks.
THEOREM DelayIsLongEnoughAlways == Spec => []DelayIsLongEnough
  <1>1. DInv => DelayIsLongEnough
    BY DEF DInv, Counted, DelayIsLongEnough
  <1>2. QED
    BY <1>1, DInvariance, PTL

\* ticks_left returns the time of its last access to RTC_CNT, also where the
\* counter overflows between its reads.
THEOREM TicksLeftExactAlways == Spec => TicksLeftExact
  <1>1. DInv /\ [Next]_vars => [ReadFlag => Elapsed(Now, value') \in {0, 1}]_vars
    <2> SUFFICES ASSUME DInv, ReadFlag PROVE Elapsed(Now, value') \in {0, 1}
      OBVIOUS
    <2>1. pc = "readflag" /\ value' = TicksLeft
      BY DEF ReadFlag
    <2>2. TicksLeft \in Times /\ (Now = TicksLeft \/ Now = Later(TicksLeft))
      BY <2>1, NowRead DEF DInv, IInv
    <2>3. QED
      BY <2>1, <2>2, ElapsedNat, LaterElapsed
  <1>2. QED
    BY <1>1, DInvariance, PTL DEF Spec, TicksLeftExact

\* The clock moves a tick at a time, and serving an overflow, with or without
\* a jump out of the interrupt, neither loses nor repeats one (RTC_CNT_vect).
THEOREM ClockStepsAlways == Spec => ClockSteps
  <1>1. DInv /\ [Next]_vars
        => [(Tick \/ ISR \/ Abort) /\ pc \notin SleepPC => Elapsed(Now', Now) \in {0, 1}]_vars
    <2> SUFFICES ASSUME DInv, Tick \/ ISR \/ Abort, pc \notin SleepPC
                 PROVE  Elapsed(Now', Now) \in {0, 1}
      OBVIOUS
    <2>1. TypeOK /\ Now \in Times
      BY TimeTypes DEF DInv, IInv
    <2>2. CASE Tick
      <3>1. ~ovf
        BY <2>2 DEF DInv, Served, Tick, SleepPC
      <3>2. QED
        BY <2>1, <2>2, <3>1, TickLater, LaterElapsed
    <2>3. CASE ISR
      BY <2>1, <2>3, ServedTime, ElapsedNat
    <2>4. CASE Abort
      BY <2>1, <2>4, ElapsedNat DEF Abort, Now, rtc, worker
    <2>5. QED
      BY <2>2, <2>3, <2>4
  <1>2. QED
    BY <1>1, DInvariance, PTL DEF Spec, ClockSteps
=============================================================================
