------------------------------ MODULE ReadUART ------------------------------
(***************************************************************************)
(* src/ReadUART.h and src/cpp/ReadUART.cpp: a USART whose receive          *)
(* interrupt fills a ring buffer that the program reads.                   *)
(*                                                                         *)
(* The interrupt may come between any two loads and stores of the program, *)
(* which reads the two bytes of _top one after the other.  While it is     *)
(* pending and enabled the program does not run.                           *)
(***************************************************************************)
EXTENDS Integers, Sequences

CONSTANTS
  Size,    \* size of the ring buffer (ReadUART_BUFFSIZE, 64 or 32)
  Base,    \* values of a byte of _top (256)
  Depth,   \* frames the receive buffer of the USART holds (2)
  Data,    \* bytes
  None     \* the -1 of read and peek

\* A buffer of one page: both bytes of _top are then read as one.
ASSUME SizeAssumption == /\ Size \in Nat \ {0} /\ Base \in Nat /\ Size <= Base
                         /\ Depth \in Nat \ {0} /\ None \notin Data

VARIABLES
  work, top, end,  \* _work, _top, _end
  lx,              \* AVR_AVRLX: the interrupt enable is in INTCTRL, not in CTRLA
  hw,              \* the receive buffer of the USART
  on, rxcie,       \* receiver enabled, receive interrupt enabled
  iflag,           \* SREG.I
  pc, op,          \* where the program is, and in which call
  seen,            \* the value of _top it has loaded
  ret,             \* what the last read or peek returned
  lost             \* ghost: a frame was bad or the buffer overrun in this call

ring == <<work, top, end>>
usart == <<lx, hw, on, rxcie>>
call == <<pc, op, seen, ret>>
vars == <<ring, usart, iflag, call, lost>>

Slots  == 0 .. Size - 1
Frames == [data : Data, ok : BOOLEAN]
Calls  == {"none", "read", "peek", "available", "wait", "take"}

NextIndexLate(i) == IF i >= Size THEN 0 ELSE i + 1   \* mutant: compared, then advanced
NextIndex(i) == IF i + 1 >= Size THEN 0 ELSE i + 1
Diff(t, e) == IF t - e < 0 THEN t - e + Size ELSE t - e

Init ==
  /\ work = [i \in Slots |-> None] /\ top = 0 /\ end = 0
  /\ lx \in BOOLEAN /\ hw = <<>> /\ on = FALSE /\ rxcie = FALSE /\ iflag = TRUE
  /\ pc = "app" /\ op = "none" /\ seen = 0 /\ ret = None /\ lost = FALSE

-----------------------------------------------------------------------------
(* The USART and the interrupt.                                            *)

\* A frame arrives; one too many costs the frame before it.
Arrive(f) ==
  /\ on
  /\ hw' = IF Len(hw) < Depth THEN Append(hw, f) ELSE [hw EXCEPT ![Depth].ok = FALSE]
  /\ UNCHANGED <<ring, lx, on, rxcie, iflag, call, lost>>

Pending == rxcie /\ iflag /\ hw # <<>>

\* One round of the loop of interrupt().
SlotAhead == NextIndex(top)              \* mutant: _top advanced before the store
Slot      == top
TakeFrame ==
  /\ hw # <<>> /\ hw' = Tail(hw)
  /\ IF Head(hw).ok
       THEN /\ work' = [work EXCEPT ![Slot] = Head(hw).data] /\ top' = NextIndex(top)
            /\ lost' = (lost \/ NextIndex(top) = end)
       ELSE lost' = TRUE /\ UNCHANGED <<work, top>>
  /\ UNCHANGED <<end, lx, on, rxcie>>

Interrupt == Pending /\ TakeFrame /\ UNCHANGED <<iflag, call>>

-----------------------------------------------------------------------------
(* The program.                                                            *)

\* initiate: on the other chips CTRLA holds the interrupt enable, and is 0.
InitiateMasked == FALSE                  \* mutant: on every chip
InitiateEnable == lx
Initiate ==
  /\ pc = "app" /\ ~Pending
  /\ on' = TRUE /\ rxcie' = InitiateEnable
  /\ UNCHANGED <<ring, lx, hw, iflag, call, lost>>

End ==
  /\ pc = "app" /\ ~Pending
  /\ on' = FALSE /\ rxcie' = FALSE /\ hw' = <<>>
  /\ UNCHANGED <<ring, lx, iflag, call, lost>>

SetInterrupts ==
  /\ pc = "app" /\ ~Pending /\ iflag' = ~iflag
  /\ UNCHANGED <<ring, usart, call, lost>>

\* A call of read, peek or available, or of readBytes, which waits first.
Call(o) ==
  /\ pc = "app" /\ ~Pending
  /\ pc' = "lo" /\ op' = o /\ lost' = FALSE
  /\ UNCHANGED <<ring, usart, iflag, seen, ret>>

LoadLo ==
  /\ pc = "lo" /\ ~Pending
  /\ seen' = top % Base /\ pc' = "hi"
  /\ UNCHANGED <<ring, usart, iflag, op, ret, lost>>

Loaded == (top \div Base) * Base + seen
Reads  == op \in {"read", "peek", "take"}

Found ==
  /\ pc = "hi" /\ ~Pending /\ Reads /\ Loaded # end
  /\ seen' = Loaded /\ pc' = "fetch"
  /\ UNCHANGED <<ring, usart, iflag, op, ret, lost>>

Empty ==
  /\ pc = "hi" /\ ~Pending /\ Reads /\ Loaded = end
  /\ ret' = None /\ pc' = "app" /\ op' = "none"
  /\ UNCHANGED <<ring, usart, iflag, seen, lost>>

Fetch ==
  /\ pc = "fetch" /\ ~Pending
  /\ ret' = work[end]
  /\ IF op = "peek" THEN pc' = "app" /\ op' = "none" ELSE pc' = "advance" /\ UNCHANGED op
  /\ UNCHANGED <<ring, usart, iflag, seen, lost>>

\* _end moves on; readBytes goes round again, or has all, or has the terminator.
Advance ==
  /\ pc = "advance" /\ ~Pending
  /\ end' = NextIndex(end)
  /\ \/ pc' = "app" /\ op' = "none" /\ UNCHANGED lost
     \/ op = "take" /\ pc' = "lo" /\ op' = "wait" /\ lost' = FALSE
  /\ UNCHANGED <<work, top, usart, iflag, seen, ret>>

\* available().
Counted ==
  /\ pc = "hi" /\ ~Pending /\ op \in {"available", "wait"}
  /\ IF op = "available" THEN pc' = "app" /\ op' = "none"
     ELSE pc' = (IF Diff(Loaded, end) # 0 THEN "drain" ELSE "flag") /\ UNCHANGED op
  /\ UNCHANGED <<ring, usart, iflag, seen, ret, lost>>

\* readBytes looks at the receive flag; the interrupt may be just behind.
LookAtFlag ==
  /\ pc = "flag"
  /\ IF hw # <<>> THEN pc' = "drain" /\ UNCHANGED op
     ELSE \/ pc' = "lo" /\ UNCHANGED op
          \/ pc' = "app" /\ op' = "none"          \* the time is up
  /\ UNCHANGED <<ring, usart, iflag, seen, ret, lost>>

\* With interrupts off it calls interrupt() itself, then read().
PollsNever == FALSE                      \* mutant: it leaves that to the interrupt
Polls      == ~iflag
Drain ==
  /\ pc = "drain" /\ ~Pending
  /\ \/ Polls /\ TakeFrame /\ UNCHANGED call
     \/ /\ ~Polls \/ hw = <<>>
        /\ pc' = "lo" /\ op' = "take"
        /\ UNCHANGED <<ring, usart, seen, ret, lost>>
  /\ UNCHANGED iflag

-----------------------------------------------------------------------------

Body == LoadLo \/ Found \/ Empty \/ Fetch \/ Advance \/ Counted \/ LookAtFlag \/ Drain

Next == \/ Interrupt \/ Initiate \/ End \/ SetInterrupts \/ Body
        \/ \E f \in Frames : Arrive(f)
        \/ \E o \in {"read", "peek", "available", "wait"} : Call(o)

Spec == Init /\ [][Next]_vars

\* The interrupt is served, the program runs, and goes on asking for bytes.
FairSpec == Spec /\ WF_vars(Interrupt) /\ WF_vars(Body) /\ SF_vars(Call("read"))

-----------------------------------------------------------------------------
(* Properties.                                                             *)

\* Both indices stay inside the ring, and the program's copy of _top does too:
\* the interrupt never stores past the buffer.
TypeOK ==
  /\ work \in [Slots -> Data \cup {None}] /\ top \in Slots /\ end \in Slots
  /\ lx \in BOOLEAN /\ hw \in Seq(Frames) /\ Len(hw) <= Depth /\ on \in BOOLEAN /\ rxcie \in BOOLEAN
  /\ iflag \in BOOLEAN /\ lost \in BOOLEAN
  /\ pc \in {"app", "lo", "hi", "fetch", "advance", "flag", "drain"} /\ op \in Calls
  /\ seen \in Slots /\ ret \in Data \cup {None}

\* The unread bytes.  A read has happened once the byte is fetched.  After a
\* read or a peek has found a byte, equal indices mean full, not empty.
Decided == pc = "fetch" \/ (pc = "hi" /\ Reads /\ seen # end)
First   == IF pc = "advance" THEN NextIndex(end) ELSE end
Count   == IF Decided /\ top = end THEN Size ELSE Diff(top, First)
Place(k) == IF First + k - 1 >= Size THEN First + k - 1 - Size ELSE First + k - 1
Content == [k \in 1 .. Count |-> work[Place(k)]]
Got     == IF pc = "hi" /\ Reads /\ seen = end THEN None ELSE ret

\* In order, once, and all of them unless the buffer was overrun.
RB == INSTANCE ReadBuffer WITH unread <- Content, got <- Got
InOrder == RB!Spec

\* readBytes gives up before its time only if a frame was bad or the buffer
\* overrun while it waited: on an AVR_AVRLX chip with interrupts on or off, on
\* the others only with interrupts off, where it takes the frames in itself.
\* With them on, nothing does on those chips, and the flag it has waited for
\* ends the call.
NoEarlyEnd ==
  (lx \/ ~iflag) /\ pc = "hi" /\ op = "take" /\ Loaded = end /\ ~Pending /\ on => lost

\* A frame that has arrived gets into the buffer, if it is not bad: on an
\* AVR_AVRLX chip.  On the others it stays in the USART, and available() 0.
Heard == lx /\ on /\ iflag /\ hw # <<>> ~> ~on \/ ~iflag \/ top # end \/ lost
=============================================================================
