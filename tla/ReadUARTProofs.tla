--------------------------- MODULE ReadUARTProofs ---------------------------
(***************************************************************************)
(* Proof, for every buffer of one page, that ReadUART implements           *)
(* ReadBuffer: the program and the receive interrupt share the ring buffer *)
(* without a lock, and no byte is lost or doubled short of an overrun.     *)
(***************************************************************************)
EXTENDS ReadUART, TLAPS

Stage ==
  /\ pc = "fetch" => Reads /\ Size > 1
  /\ pc = "advance" => op \in {"read", "take"}

IInv == TypeOK /\ Stage
-----------------------------------------------------------------------------
(* Positions in the ring.                                                  *)

LEMMA OnePage ==
  ASSUME NEW t \in Slots
  PROVE  t % Base = t /\ t \div Base = 0
  <1>1. t \in Nat /\ t < Base /\ Base \in Nat
    BY SizeAssumption DEF Slots
  <1>2. QED
    BY <1>1

LEMMA Steps ==
  ASSUME NEW t \in Slots, NEW e \in Slots
  PROVE  /\ NextIndex(t) \in Slots /\ Diff(t, e) \in Slots
         /\ Diff(t, e) = 0 <=> t = e
         /\ Diff(NextIndex(t), e) = IF Diff(t, e) = Size - 1 THEN 0 ELSE Diff(t, e) + 1
         /\ Diff(t, NextIndex(e)) = IF t = e THEN Size - 1 ELSE Diff(t, e) - 1
  BY SizeAssumption DEF Slots, NextIndex, Diff

\* Appending to, and taking from, a sequence given as a function.
LEMMA Appended ==
  ASSUME NEW S, NEW n \in Nat, NEW f \in [1 .. n -> S], NEW g \in [1 .. n + 1 -> S],
         \A k \in 1 .. n : g[k] = f[k]
  PROVE  /\ f \in Seq(S) /\ Len(f) = n
         /\ g = Append(f, g[n + 1])
  <1>1. f \in Seq(S) /\ Len(f) = n /\ g \in Seq(S) /\ Len(g) = n + 1
    OBVIOUS
  <1>2. QED
    BY <1>1

LEMMA Removed ==
  ASSUME NEW S, NEW n \in Nat, NEW f \in [1 .. n + 1 -> S], NEW g \in [1 .. n -> S],
         \A k \in 1 .. n : g[k] = f[k + 1]
  PROVE  f # <<>> /\ Head(f) = f[1] /\ g = Tail(f)
  <1>1. f \in Seq(S) /\ Len(f) = n + 1 /\ g \in Seq(S) /\ Len(g) = n
    OBVIOUS
  <1>2. QED
    BY <1>1

-----------------------------------------------------------------------------
(* The sequence of unread bytes.                                           *)

Values == Data \cup {None}

ContentShape ==
  /\ First \in Slots /\ Count \in 0 .. Size
  /\ \A k \in 1 .. Count : Place(k) \in Slots
  /\ Content \in [1 .. Count -> Values]
  /\ Len(Content) = Count

LEMMA ContentIs == TypeOK => ContentShape
  <1> SUFFICES ASSUME TypeOK PROVE ContentShape
    OBVIOUS
  <1>1. First \in Slots
    BY Steps DEF TypeOK, First
  <1>2. Count \in 0 .. Size
    <2>1. Diff(top, First) \in Slots
      BY <1>1, Steps DEF TypeOK
    <2>2. QED
      BY <2>1, SizeAssumption DEF Count, Slots
  <1>3. \A k \in 1 .. Count : Place(k) \in Slots
    BY <1>1, <1>2, SizeAssumption DEF Place, Slots
  <1>4. Content \in [1 .. Count -> Values]
    BY <1>3 DEF Content, TypeOK, Values
  <1>5. QED
    BY <1>1, <1>2, <1>3, <1>4 DEF ContentShape

LEMMA ContentNext == (TypeOK => ContentShape)'
  BY ContentIs, PTL

\* A step that leaves the ring, its first byte and the count alone.
LEMMA SameContent ==
  ASSUME work' = work, First' = First, Count' = Count
  PROVE  Content' = Content
  BY DEF Content, Place

\* A frame from the USART, taken by the interrupt or by readBytes.
LEMMA FrameTaken ==
  ASSUME IInv, TakeFrame, UNCHANGED call, UNCHANGED iflag
  PROVE  /\ IInv'
         /\ \/ RB!Overrun \/ UNCHANGED <<Content, Got>>
            \/ \E x \in Data : RB!Put(x) \/ RB!Restart(x)
  <1> USE DEF IInv
  <1> DEFINE f == Head(hw)
  <1>1. f \in Frames /\ Tail(hw) \in Seq(Frames) /\ Len(Tail(hw)) <= Depth
    BY SizeAssumption DEF TakeFrame, TypeOK
  <1>2. IInv'
    <2>1. NextIndex(top) \in Slots
      BY Steps DEF TypeOK
    <2>2. /\ work' \in [Slots -> Values] /\ top' \in Slots /\ lost' \in BOOLEAN
          /\ hw' \in Seq(Frames) /\ Len(hw') <= Depth
      BY <1>1, <2>1 DEF TakeFrame, TypeOK, Frames, Slot, Values
    <2>3. TypeOK'
      BY <2>2 DEF TakeFrame, TypeOK, call, Values
    <2>4. Stage'
      BY DEF Stage, Reads, call
    <2>5. QED
      BY <2>3, <2>4
  <1>3. /\ Reads' = Reads /\ First' = First /\ Got' = Got /\ Decided' = Decided
        /\ UNCHANGED <<pc, end, seen>>
    BY DEF TakeFrame, call, Reads, First, Got, Decided
  <1>4. CASE ~f.ok
    <2>1. Count' = Count
      BY <1>3, <1>4 DEF TakeFrame, Count
    <2>2. QED
      BY <1>2, <1>3, <1>4, <2>1, SameContent DEF TakeFrame
  <1>5. CASE f.ok
    <2> DEFINE x == f.data
    <2>1. /\ x \in Data /\ top' = NextIndex(top) /\ work' = [work EXCEPT ![top] = x]
      BY <1>1, <1>5 DEF TakeFrame, Frames, Slot
    <2>2. First \in Slots /\ top \in Slots /\ end \in Slots
      BY ContentIs DEF ContentShape, TypeOK
    <2>3. Len(Content) = Count /\ Count \in 0 .. Size /\ Content \in [1 .. Count -> Values]
      BY ContentIs DEF ContentShape
    <2>4. Len(Content') = Count' /\ Count' \in 0 .. Size /\ Content' \in [1 .. Count' -> Values]
      BY <1>2, ContentNext DEF ContentShape
    <2>5. \/ Count' = 0 /\ Count >= Size - 1
          \/ Count' = 1 /\ Count = Size
          \/ Count' = Count + 1 /\ Count < Size
      <3>1. Decided => First = end /\ (top = end => Size > 1)
        BY <2>2, SizeAssumption DEF Decided, First, Slots, TypeOK, Stage
      <3>2. Diff(top', First) = IF Diff(top, First) = Size - 1 THEN 0 ELSE Diff(top, First) + 1
        BY <2>1, <2>2, Steps
      <3>3. Count' = IF Decided /\ top' = end THEN Size ELSE Diff(top', First)
        BY <1>3 DEF Count
      <3>4. Diff(top, First) \in Slots /\ (Diff(top, First) = 0 <=> top = First)
        BY <2>2, Steps
      <3>5. NextIndex(top) \in Slots /\ (Diff(NextIndex(top), First) = 0 <=> NextIndex(top) = First)
        BY <2>2, Steps
      <3>6. QED
        BY <2>1, <3>1, <3>2, <3>3, <3>4, <3>5, SizeAssumption DEF Count, Slots
    <2>6. CASE Count' = 0 /\ Count >= Size - 1
      BY <1>2, <1>3, <2>3, <2>4, <2>6 DEF RB!Overrun
    <2>7. CASE Count' = 1 /\ Count = Size
      <3>1. First = top
        <4>1. Diff(top, First) \in Slots
          BY <2>2, Steps
        <4>2. QED
          BY <2>7, <4>1, SizeAssumption DEF Count, First, Decided, Slots
      <3>2. Content'[1] = x
        BY <1>3, <2>1, <2>2, <2>7, <3>1, SizeAssumption DEF Content, Place, Slots, TypeOK
      <3>3. Content' = <<x>>
        BY <2>4, <2>7, <3>2
      <3>4. RB!Restart(x)
        BY <1>3, <2>3, <2>7, <3>3 DEF RB!Restart
      <3>5. QED
        BY <1>2, <2>1, <3>4
    <2>8. CASE Count' = Count + 1 /\ Count < Size
      <3>1. top = IF First + Count >= Size THEN First + Count - Size ELSE First + Count
        BY <2>2, <2>8, SizeAssumption DEF Count, First, Decided, Diff, Slots
      <3>2. \A k \in 1 .. Count : Place(k) # top /\ Place(k) \in Slots
        BY <2>2, <2>3, <2>8, <3>1, SizeAssumption DEF Place, Slots
      <3>3. \A k \in Nat : Place(k)' = Place(k)
        BY <1>3 DEF Place
      <3>4. \A k \in 1 .. Count : Content'[k] = Content[k]
        BY <2>1, <2>3, <2>8, <3>2, <3>3 DEF Content, TypeOK
      <3>5. Content'[Count + 1] = x
        <4>1. Place(Count + 1) = top
          BY <2>2, <2>3, <3>1, SizeAssumption DEF Place, Slots
        <4>2. QED
          BY <2>1, <2>2, <2>3, <2>8, <3>3, <4>1 DEF Content, TypeOK
      <3>6. Content' = Append(Content, x)
        BY <2>3, <2>4, <2>8, <3>4, <3>5, Appended
      <3>7. RB!Put(x)
        BY <1>3, <2>3, <2>8, <3>6 DEF RB!Put
      <3>8. QED
        BY <1>2, <2>1, <3>7
    <2>9. QED
      BY <2>5, <2>6, <2>7, <2>8
  <1>6. QED
    BY <1>1, <1>4, <1>5 DEF Frames

-----------------------------------------------------------------------------
(* The steps of the program.                                               *)

\* A read or a peek decides when it loads _top, and fetches later.
LEMMA Reading ==
  ASSUME IInv, LoadLo \/ Found \/ Empty \/ Fetch \/ Advance
  PROVE  IInv' /\ (RB!Read \/ RB!Peek \/ RB!Nothing \/ UNCHANGED <<Content, Got>>)
  <1> USE DEF IInv
  <1>0. /\ top \in Slots /\ end \in Slots /\ seen \in Slots /\ Size \in Nat \ {0}
        /\ top % Base = top /\ top \div Base = 0 /\ 0 * Base = 0
        /\ \A d \in Slots : 0 + d = d
    BY OnePage, SizeAssumption DEF TypeOK, Slots
  <1>1. CASE LoadLo
    <2>1. pc = "lo" /\ pc' = "hi" /\ seen' = top /\ UNCHANGED <<ring, op, ret>>
      BY <1>0, <1>1 DEF LoadLo
    <2>2. IInv'
      BY <1>0, <1>1, <2>1 DEF LoadLo, TypeOK, Stage, ring, usart
    <2>3. First' = First /\ Count = Diff(top, end)
      BY <2>1 DEF First, Count, Decided, ring
    <2>4. Count' = Count
      BY <2>1, <2>3 DEF Count, Decided, First, ring
    <2>5. Content' = Content
      BY <2>1, <2>3, <2>4, SameContent DEF ring
    <2>6. CASE Reads /\ top = end
      <3>1. Count = 0
        BY <1>0, <2>3, <2>6, Steps
      <3>2. Content = <<>>
        BY <3>1 DEF Content
      <3>3. Got' = None
        BY <2>1, <2>6 DEF Got, Reads, ring
      <3>4. QED
        BY <2>2, <2>5, <3>2, <3>3 DEF RB!Nothing
    <2>7. CASE ~(Reads /\ top = end)
      BY <2>1, <2>2, <2>5, <2>7 DEF Got, Reads, ring
    <2>8. QED
      BY <2>6, <2>7
  <1>2. CASE Found
    <2>1. /\ pc = "hi" /\ pc' = "fetch" /\ Reads /\ seen # end /\ seen' = seen
          /\ UNCHANGED <<ring, op, ret>>
      BY <1>0, <1>2 DEF Found, Loaded
    <2>2. IInv'
      BY <1>0, <1>2, <2>1 DEF Found, TypeOK, Stage, Reads, ring, usart, Slots
    <2>3. First' = First /\ Count' = Count /\ Got' = Got
      BY <2>1 DEF First, Count, Decided, Got, Reads, ring
    <2>4. QED
      BY <2>1, <2>2, <2>3, SameContent DEF ring
  <1>3. CASE Empty
    <2>1. /\ pc = "hi" /\ pc' = "app" /\ Reads /\ seen = end /\ ret' = None
          /\ UNCHANGED <<ring, seen>>
      BY <1>0, <1>3 DEF Empty, Loaded
    <2>2. IInv'
      BY <1>3, <2>1 DEF Empty, TypeOK, Stage, ring, usart, Calls
    <2>3. First' = First /\ Count' = Count /\ Got' = Got
      BY <2>1 DEF First, Count, Decided, Got, ring
    <2>4. QED
      BY <2>1, <2>2, <2>3, SameContent DEF ring
  <1>4. CASE Fetch
    <2>1. pc = "fetch" /\ ret' = work[end] /\ UNCHANGED <<ring, seen>>
      BY <1>4 DEF Fetch
    <2>2. IInv'
      BY <1>0, <1>4, <2>1 DEF Fetch, TypeOK, Stage, Reads, ring, usart, Calls
    <2>3. First = end /\ Count = IF top = end THEN Size ELSE Diff(top, end)
      BY <2>1 DEF First, Count, Decided
    <2>4. Count >= 1 /\ Count \in Nat
      BY <1>0, <2>3, Steps DEF Slots
    <2>5. Content \in [1 .. Count -> Values] /\ Len(Content) = Count
      BY ContentIs DEF ContentShape
    <2>6. Content[1] = work[end]
      BY <1>0, <2>3, <2>4 DEF Content, Place, Slots
    <2>7. Content # <<>> /\ Head(Content) = work[end]
      BY <2>4, <2>5, <2>6
    <2>8. Got' = work[end]
      BY <1>4, <2>1 DEF Fetch, Got
    <2>9. CASE op = "peek"
      <3>1. pc' = "app" /\ First' = end
        BY <1>4, <2>1, <2>9 DEF Fetch, First, ring
      <3>2. Count' = Diff(top, end)
        BY <2>1, <3>1 DEF Count, Decided, ring
      <3>3. CASE top = end
        <4>1. Count' = 0 /\ Count = Size
          BY <1>0, <2>3, <3>2, <3>3, Steps
        <4>2. Content' = <<>>
          BY <4>1 DEF Content
        <4>3. QED
          BY <2>2, <2>5, <2>7, <2>8, <4>1, <4>2 DEF RB!Peek
      <3>4. CASE top # end
        <4>1. Count' = Count /\ Count # Size
          BY <1>0, <2>3, <3>2, <3>4, Steps DEF Slots
        <4>2. Content' = Content
          BY <2>1, <2>3, <3>1, <4>1, SameContent DEF ring
        <4>3. QED
          BY <2>2, <2>5, <2>7, <2>8, <4>1, <4>2 DEF RB!Peek
      <3>5. QED
        BY <3>3, <3>4
    <2>10. CASE op # "peek"
      <3>1. pc' = "advance" /\ First' = NextIndex(end)
        BY <1>4, <2>1, <2>10 DEF Fetch, First, ring
      <3>2. Count' = Count - 1
        <4>1. Count' = Diff(top, NextIndex(end))
          BY <2>1, <3>1 DEF Count, Decided, ring
        <4>2. Diff(top, NextIndex(end)) = IF top = end THEN Size - 1 ELSE Diff(top, end) - 1
          BY <1>0, Steps
        <4>3. QED
          BY <2>3, <4>1, <4>2
      <3>3. Content' \in [1 .. Count - 1 -> Values]
        BY <2>2, <3>2, ContentNext DEF ContentShape
      <3>4. \A k \in 1 .. Count - 1 : Content'[k] = Content[k + 1]
        <4>1. \A k \in 1 .. Count - 1 : Place(k)' = Place(k + 1)
          <5>1. Count <= Size /\ First = end
            BY <2>3, ContentIs DEF ContentShape
          <5>2. \A k \in 1 .. Count - 1 :
                  Place(k)' = IF NextIndex(end) + k - 1 >= Size
                                THEN NextIndex(end) + k - 1 - Size ELSE NextIndex(end) + k - 1
            BY <3>1 DEF Place
          <5>3. QED
            BY <1>0, <2>4, <5>1, <5>2 DEF Place, NextIndex, Slots
        <4>2. QED
          BY <2>1, <2>4, <3>2, <4>1 DEF Content, ring
      <3>5. Content' = Tail(Content)
        <4>1. Count - 1 \in Nat /\ Count - 1 + 1 = Count
          BY <2>4
        <4>2. QED
          BY <2>5, <3>3, <3>4, <4>1, Removed
      <3>6. QED
        BY <2>2, <2>7, <2>8, <3>5 DEF RB!Read
    <2>11. QED
      BY <2>9, <2>10
  <1>5. CASE Advance
    <2>1. /\ pc = "advance" /\ pc' \in {"app", "lo"} /\ end' = NextIndex(end)
          /\ UNCHANGED <<work, top, ret>>
      BY <1>5 DEF Advance
    <2>2. IInv'
      <3>1. end' \in Slots /\ op' \in Calls /\ lost' \in BOOLEAN
        <4>1. end' \in Slots
          BY <1>0, <2>1, Steps
        <4>2. op \in Calls /\ lost \in BOOLEAN
          BY DEF TypeOK
        <4>3. op' \in Calls /\ lost' \in BOOLEAN
          BY <1>5, <4>2 DEF Advance, Calls
        <4>4. QED
          BY <4>1, <4>3
      <3>2. UNCHANGED <<lx, hw, on, rxcie, iflag, seen>>
        BY <1>5 DEF Advance, usart
      <3>3. QED
        BY <2>1, <3>1, <3>2 DEF TypeOK, Stage
    <2>3. First' = First /\ Count' = Count /\ Got' = Got
      BY <2>1 DEF First, Count, Decided, Got
    <2>4. QED
      BY <2>1, <2>2, <2>3, SameContent
  <1>6. QED
    BY <1>1, <1>2, <1>3, <1>4, <1>5

\* The other steps of the program, and of the USART.
LEMMA Waiting ==
  ASSUME IInv, \/ Initiate \/ End \/ SetInterrupts \/ Counted \/ LookAtFlag
               \/ \E f \in Frames : Arrive(f)
               \/ \E o \in {"read", "peek", "available", "wait"} : Call(o)
  PROVE  IInv' /\ UNCHANGED <<Content, Got>>
  <1> USE DEF IInv
  <1>1. CASE Initiate \/ End \/ SetInterrupts
    <2>1. UNCHANGED <<ring, call, lost>>
      BY <1>1 DEF Initiate, End, SetInterrupts
    <2>2. /\ lx' \in BOOLEAN /\ on' \in BOOLEAN /\ rxcie' \in BOOLEAN /\ iflag' \in BOOLEAN
          /\ hw' \in Seq(Frames) /\ Len(hw') <= Depth
      <3>1. CASE Initiate
        BY <3>1, SizeAssumption DEF Initiate, TypeOK, InitiateEnable
      <3>2. CASE End
        <4>1. hw' = <<>> /\ on' = FALSE /\ rxcie' = FALSE /\ iflag' = iflag /\ lx' = lx
          BY <3>2 DEF End
        <4>2. hw' \in Seq(Frames) /\ Len(hw') <= Depth
          BY <4>1, SizeAssumption
        <4>3. QED
          BY <4>1, <4>2 DEF TypeOK
      <3>3. CASE SetInterrupts
        BY <3>3 DEF SetInterrupts, TypeOK, usart
      <3>4. QED
        BY <1>1, <3>1, <3>2, <3>3
    <2>3. IInv'
      BY <2>1, <2>2 DEF TypeOK, Stage, Reads, ring, call
    <2>4. First' = First /\ Count' = Count /\ Got' = Got
      BY <2>1 DEF First, Count, Decided, Got, Reads, ring, call
    <2>5. QED
      BY <2>1, <2>3, <2>4, SameContent DEF ring
  <1>2. ASSUME NEW f \in Frames, Arrive(f) PROVE IInv' /\ UNCHANGED <<Content, Got>>
    <2>1. UNCHANGED <<ring, lx, on, rxcie, iflag, call, lost>>
      BY <1>2 DEF Arrive
    <2>2. hw' \in Seq(Frames) /\ Len(hw') <= Depth
      <3>1. CASE Len(hw) < Depth
        BY <1>2, <3>1, SizeAssumption DEF Arrive, TypeOK
      <3>2. CASE Len(hw) = Depth
        <4>1. /\ hw' = [hw EXCEPT ![Depth].ok = FALSE] /\ hw \in [1 .. Depth -> Frames]
              /\ Depth \in Nat
          BY <1>2, <3>2, SizeAssumption DEF Arrive, TypeOK
        <4>2. hw' \in [1 .. Depth -> Frames]
          BY <4>1 DEF Frames
        <4>3. QED
          BY <4>1, <4>2
      <3>3. QED
        BY <3>1, <3>2, SizeAssumption DEF TypeOK
    <2>3. IInv'
      BY <2>1, <2>2 DEF TypeOK, Stage, Reads, ring, call
    <2>4. First' = First /\ Count' = Count /\ Got' = Got
      BY <2>1 DEF First, Count, Decided, Got, Reads, ring, call
    <2>5. QED
      BY <2>1, <2>3, <2>4, SameContent DEF ring
  <1>3. CASE Counted \/ LookAtFlag \/ \E o \in {"read", "peek", "available", "wait"} : Call(o)
    <2>1. /\ UNCHANGED <<ring, usart, iflag, seen, ret>> /\ op' \in Calls /\ lost' \in BOOLEAN
          /\ pc' \in {"app", "lo", "flag", "drain"} /\ pc \in {"app", "hi", "flag"}
          /\ pc = "hi" => ~Reads
      BY <1>3 DEF Counted, LookAtFlag, Call, TypeOK, Reads, Calls
    <2>2. IInv'
      BY <2>1 DEF TypeOK, Stage, ring, usart
    <2>3. First' = First /\ Count' = Count /\ Got' = Got
      BY <2>1 DEF First, Count, Decided, Got, ring
    <2>4. QED
      BY <2>1, <2>2, <2>3, SameContent DEF ring
  <1>4. QED
    BY <1>1, <1>2, <1>3

\* readBytes takes a frame itself, or goes on to its read().
LEMMA Draining ==
  ASSUME IInv, Drain
  PROVE  /\ IInv'
         /\ \/ RB!Overrun \/ UNCHANGED <<Content, Got>>
            \/ \E x \in Data : RB!Put(x) \/ RB!Restart(x)
  <1>1. CASE TakeFrame /\ UNCHANGED call
    BY <1>1, FrameTaken DEF Drain
  <1>2. CASE pc' = "lo" /\ op' = "take" /\ UNCHANGED <<ring, usart, seen, ret, lost, iflag>>
    <2>1. pc = "drain"
      BY DEF Drain
    <2>2. IInv'
      BY <1>2 DEF IInv, TypeOK, Stage, ring, usart, Calls
    <2>3. First' = First /\ Count' = Count /\ Got' = Got
      BY <1>2, <2>1 DEF First, Count, Decided, Got, ring
    <2>4. QED
      BY <1>2, <2>2, <2>3, SameContent DEF ring
  <1>3. QED
    BY <1>1, <1>2 DEF Drain

LEMMA Starts == Init => IInv /\ RB!Init
  <1> SUFFICES ASSUME Init PROVE IInv /\ RB!Init
    OBVIOUS
  <1>1. IInv
    BY SizeAssumption DEF Init, IInv, TypeOK, Stage, Slots, Calls
  <1>2. Count = 0 /\ Got = None
    BY DEF Init, Count, Decided, First, Diff, Got
  <1>3. QED
    BY <1>1, <1>2 DEF RB!Init, Content

LEMMA StepRefines == IInv /\ [Next]_vars => IInv' /\ [RB!Next]_(RB!bvars)
  <1> SUFFICES ASSUME IInv, [Next]_vars PROVE IInv' /\ [RB!Next]_(RB!bvars)
    OBVIOUS
  <1> USE DEF RB!Next, RB!bvars
  <1>1. CASE Interrupt
    BY <1>1, FrameTaken DEF Interrupt
  <1>2. CASE LoadLo \/ Found \/ Empty \/ Fetch \/ Advance
    BY <1>2, Reading
  <1>3. CASE Drain
    BY <1>3, Draining
  <1>4. CASE \/ Initiate \/ End \/ SetInterrupts \/ Counted \/ LookAtFlag
             \/ \E f \in Frames : Arrive(f)
             \/ \E o \in {"read", "peek", "available", "wait"} : Call(o)
    BY <1>4, Waiting
  <1>5. CASE UNCHANGED vars
    <2>1. UNCHANGED <<ring, usart, iflag, call, lost>>
      BY <1>5 DEF vars
    <2>2. IInv'
      BY <2>1 DEF IInv, TypeOK, Stage, Reads, ring, usart, call
    <2>3. First' = First /\ Count' = Count /\ Got' = Got
      BY <2>1 DEF First, Count, Decided, Got, Reads, ring, call
    <2>4. QED
      BY <2>1, <2>2, <2>3, SameContent DEF ring
  <1>6. QED
    BY <1>1, <1>2, <1>3, <1>4, <1>5 DEF Next, Body

\* The indices stay in the buffer and every variable keeps its type.
THEOREM TypeCorrect == Spec => []TypeOK
  <1>1. IInv /\ [Next]_vars => IInv'
    BY StepRefines
  <1>2. IInv => TypeOK
    BY DEF IInv
  <1>3. QED
    BY <1>1, <1>2, Starts, PTL DEF Spec

\* The program reads the bytes the interrupt has stored in their order, each
\* of them once, and loses none unless the buffer is overrun.
THEOREM Refinement == Spec => InOrder
  <1>1. Spec => RB!Init /\ [][RB!Next]_(RB!bvars)
    BY Starts, StepRefines, PTL DEF Spec
  <1>2. QED
    BY <1>1 DEF InOrder, RB!Spec

-----------------------------------------------------------------------------
(* readBytes does not give up early.  From where it has seen that there is *)
(* something, in the ring or in the USART, to where read() has fetched it, *)
(* there goes on to be something, unless a frame was bad or the ring was   *)
(* overrun.                                                                *)

\* Somebody takes the frames in: the interrupt, or readBytes itself.
Served == on /\ (lx \/ ~iflag)

Something ==
  /\ on => rxcie = lx
  /\ pc = "hi" => lost \/ seen = end \/ top # end
  /\ pc = "drain" => lost \/ top # end \/ hw # <<>>
  /\ pc \in {"flag", "drain"} => op = "wait"
  /\ Served /\ op = "take" /\ pc = "lo" => lost \/ top # end
  /\ Served /\ op = "take" /\ pc = "hi" => lost \/ seen # end

LEMMA FrameSeen ==
  ASSUME IInv, Something, TakeFrame, UNCHANGED <<call, iflag>>
  PROVE  Something'
  <1>1. lost' \/ (~ lost /\ top' = top /\ FALSE) \/ (top' # end /\ (lost' \/ lost' = lost))
    BY DEF TakeFrame, IInv, TypeOK
  <1>2. lost => lost'
    BY DEF TakeFrame, IInv, TypeOK
  <1>3. QED
    BY <1>1, <1>2 DEF TakeFrame, Something, Served, call, IInv, TypeOK

LEMMA SomethingStays ==
  ASSUME IInv, Something, [Next]_vars
  PROVE  Something'
  <1>1. CASE Interrupt
    BY <1>1, FrameSeen DEF Interrupt
  <1>2. CASE Initiate \/ End \/ SetInterrupts \/ \E o \in {"read", "peek", "available", "wait"} : Call(o)
    <2>1. CASE Initiate \/ End \/ SetInterrupts
      <3>1. pc = "app" /\ pc' = "app" /\ (on' => rxcie' = lx')
        <4>1. CASE Initiate
          BY <4>1, Zenon DEF Initiate, InitiateEnable, call
        <4>2. CASE End
          BY <4>2, Zenon DEF End, call
        <4>3. CASE SetInterrupts
          BY <4>3, Zenon DEF SetInterrupts, Something, Served, usart, call
        <4>4. QED
          BY <2>1, <4>1, <4>2, <4>3
      <3>2. QED
        BY <3>1 DEF Something, Served
    <2>2. CASE \E o \in {"read", "peek", "available", "wait"} : Call(o)
      BY <2>2 DEF Call, Something, Served, ring, usart
    <2>3. QED
      BY <1>2, <2>1, <2>2
  <1>3. CASE \E f \in Frames : Arrive(f)
    BY <1>3 DEF Arrive, Something, Served, ring, call, IInv, TypeOK
  <1>4. CASE LoadLo
    <2>1. top % Base = top
      BY OnePage DEF IInv, TypeOK
    <2>2. QED
      BY <1>4, <2>1 DEF LoadLo, Something, Served, ring, usart
  <1>5. CASE Found \/ Empty \/ Fetch \/ Advance
    BY <1>5 DEF Found, Empty, Fetch, Advance, Something, Served, ring, usart
  <1>6. CASE Counted
    <2>1. Loaded = seen /\ (Diff(Loaded, end) # 0 => seen # end)
      <3>1. top \div Base = 0 /\ 0 * Base = 0
        BY OnePage, SizeAssumption DEF IInv, TypeOK
      <3>2. Loaded = seen
        BY <3>1 DEF Loaded, IInv, TypeOK, Slots
      <3>3. QED
        BY <3>2, Steps DEF IInv, TypeOK
    <2>2. /\ pc = "hi" /\ pc' \in {"app", "drain", "flag"} /\ (pc' = "drain" => seen # end)
          /\ pc' # "app" => op' = "wait"
      BY <1>6, <2>1 DEF Counted
    <2>3. UNCHANGED <<top, end, lx, hw, on, rxcie, iflag, lost>>
      BY <1>6 DEF Counted, ring, usart
    <2>4. pc' = "drain" => lost' \/ top' # end'
      BY <2>2, <2>3, Zenon DEF Something, Served
    <2>5. on' => rxcie' = lx'
      BY <2>3, Zenon DEF Something, Served
    <2>6. QED
      BY <2>2, <2>4, <2>5 DEF Something, Served
  <1>7. CASE LookAtFlag
    <2>1. /\ pc' \in {"drain", "lo", "app"} /\ (pc' = "drain" => hw # <<>>)
          /\ op' = "wait" \/ pc' = "app"
      BY <1>7 DEF LookAtFlag, Something, Served
    <2>2. UNCHANGED <<top, end, lx, hw, on, rxcie, iflag, lost>>
      BY <1>7 DEF LookAtFlag, ring, usart
    <2>3. on' => rxcie' = lx'
      BY <2>2, Zenon DEF Something, Served
    <2>4. QED
      BY <2>1, <2>2, <2>3 DEF Something, Served
  <1>8. CASE Drain
    <2>1. CASE TakeFrame /\ UNCHANGED call
      BY <1>8, <2>1, FrameSeen DEF Drain
    <2>2. CASE (~ Polls \/ hw = <<>>) /\ pc' = "lo" /\ op' = "take" /\ UNCHANGED <<ring, usart, seen, ret, lost>>
      BY <1>8, <2>2 DEF Drain, Polls, Pending, Something, Served, ring, usart
    <2>3. QED
      BY <1>8, <2>1, <2>2 DEF Drain
  <1>9. CASE UNCHANGED vars
    BY <1>9 DEF vars, ring, usart, call, Something, Served
  <1>10. QED
    BY <1>1, <1>2, <1>3, <1>4, <1>5, <1>6, <1>7, <1>8, <1>9 DEF Next, Body

\* readBytes ends before its time only if a frame was bad or the ring was
\* overrun, on the chips whose receive interrupt initiate() enables, and on the
\* others as long as interrupts are off: for every size of ring and USART.
THEOREM NoEarlyEndAlways == Spec => []NoEarlyEnd
  <1>1. Init => Something
    BY DEF Init, Something, Served
  <1>2. IInv /\ Something /\ [Next]_vars => Something' /\ IInv'
    BY SomethingStays, StepRefines
  <1>3. IInv /\ Something => NoEarlyEnd
    <2>1. ASSUME IInv PROVE Loaded = seen
      <3>1. top \div Base = 0 /\ 0 * Base = 0
        BY <2>1, OnePage, SizeAssumption DEF IInv, TypeOK
      <3>2. QED
        BY <2>1, <3>1 DEF Loaded, IInv, TypeOK, Slots
    <2>2. QED
      BY <2>1 DEF Something, Served, NoEarlyEnd
  <1>4. QED
    BY <1>1, <1>2, <1>3, Starts, PTL DEF Spec
=============================================================================
