-------------------------- MODULE CDCStreamProofs ---------------------------
(***************************************************************************)
(* Proofs, for buffers of every size and with host, bus and SOF interrupt  *)
(* between any two steps of the program, that the stream functions store   *)
(* and read within the buffers until a SetConfiguration cuts read_byte in  *)
(* two, and that the two endpoints are the two pipes of BytePipe: bytes    *)
(* arrive in order and once, until an interrupt falls where the code is    *)
(* not made for it (Writes, Reads).                                        *)
(***************************************************************************)
EXTENDS CDCStream, TLAPS, SequenceTheorems

\* A full send buffer is on its way out.
Room == sendCnt = Max => pc \in {"full", "sendFlush"}

\* The program stays within what was received, and is at the start of the
\* buffer while the host fills it.
Within ==
  ~astray => /\ recvCnt <= rCnt
             /\ ~rNak => recvCnt = 0
             /\ pc = "take" => rNak /\ recvCnt < rCnt
             /\ pc \in {"readListen", "endListen"} => recvCnt = 0

IInv == Types /\ Room /\ Within

LEMMA Bounds ==
  /\ Max \in Nat /\ 0 < Max /\ 0 \in 0 .. Max
  /\ SofMod \in Nat /\ 0 \in 0 .. SofMod - 1 /\ SofStart \in 0 .. SofMod - 1
  /\ CountMod \in Nat /\ Max < CountMod /\ 0 \in 0 .. CountMod - 1
  BY BuffersAssumption

\* The countdown of SOF interrupts, which wraps.
LEMMA Countdown ==
  ASSUME NEW n \in 0 .. SofMod - 1
  PROVE  (n + SofMod - 1) % SofMod \in 0 .. SofMod - 1
  <1> DEFINE m == n + SofMod - 1
  <1>1. m \in Nat /\ SofMod \in Nat /\ SofMod > 0
    BY Bounds
  <1>2. QED
    BY <1>1

\* RECVCNT, which wraps, and counts on while it is within the buffer.
LEMMA Counting ==
  ASSUME NEW n \in 0 .. CountMod - 1
  PROVE  /\ (n + 1) % CountMod \in 0 .. CountMod - 1
         /\ n < Max => (n + 1) % CountMod = n + 1
  <1> DEFINE m == n + 1
  <1>1. m \in Nat /\ CountMod \in Nat /\ CountMod > 0
    BY Bounds
  <1>2. m % CountMod \in 0 .. CountMod - 1
    BY <1>1
  <1>3. m < CountMod => m % CountMod = m
    BY <1>1
  <1>4. QED
    BY <1>2, <1>3, Bounds

LEMMA Empty == <<>> \in Seq(Data) /\ Len(<<>>) <= 1 /\ Len(<<>>) <= Max
  BY Bounds

LEMMA InitIInv == Init => IInv
  <1> SUFFICES ASSUME Init PROVE IInv
    OBVIOUS
  <1>1. Types
    BY Bounds, Empty DEF Init, Types
  <1>2. Room
    BY Bounds DEF Init, Room
  <1>3. Within
    BY Bounds DEF Init, Within
  <1>4. QED
    BY <1>1, <1>2, <1>3 DEF IInv

LEMMA Packet ==
  ASSUME NEW b \in Buffers, NEW n \in 0 .. Max
  PROVE  SubSeq(b, 1, n) \in Seq(Data) /\ Len(SubSeq(b, 1, n)) = n
  BY BuffersAssumption DEF Buffers

\* The steps of the host and of the bus.
LEMMA BusSteps ==
  ASSUME IInv, PollIn \/ Sof \/ BusReset \/ SetConfiguration \/ Unconfigure
               \/ \E n \in 0 .. Max : PollOut(n)
  PROVE  IInv'
  <1> USE Bounds DEF IInv, Types, Room, Within, sending, receiving, counting, history
  <1>1. CASE PollIn
    <2>1. sNak' \in BOOLEAN /\ sUnf' \in BOOLEAN
      BY <1>1 DEF PollIn
    <2>2. host' \in Seq(Data) /\ Len(host') <= Max
      <3>1. SubSeq(send, 1, sCnt) \in Seq(Data) /\ Len(SubSeq(send, 1, sCnt)) <= Max
        BY Packet
      <3>2. host' \in {host, SubSeq(send, 1, sCnt), <<>>}
        BY <1>1 DEF PollIn
      <3>3. QED
        BY <3>1, <3>2, Empty
    <2>3. Types'
      BY <1>1, <2>1, <2>2 DEF PollIn
    <2>4. Room'
      BY <1>1 DEF PollIn
    <2>5. Within'
      BY <1>1 DEF PollIn
    <2>6. QED
      BY <2>3, <2>4, <2>5 DEF IInv
  <1>2. CASE Sof
    <2>1. sof' \in 0 .. SofMod - 1 /\ sofOn' \in BOOLEAN
      BY <1>2, Countdown DEF Sof
    <2>2. /\ sendCnt' \in {0, sendCnt} /\ sCnt' \in {sCnt, sendCnt}
          /\ sNak' \in {FALSE, sNak} /\ sUnf' \in {FALSE, sUnf}
      BY <1>2 DEF Sof, SendCounted, SendListen
    <2>3. /\ UNCHANGED <<config, send, recv, recvCnt, rCnt, rNak, pc, ret, astray>>
          /\ host' \in {<<>>, host} /\ cut' \in BOOLEAN
      BY <1>2 DEF Sof
    <2>4. Types'
      <3>1. host' \in Seq(Data) /\ Len(host') <= Max
        BY <2>3, Empty
      <3>2. sendCnt' \in 0 .. Max /\ sCnt' \in 0 .. Max /\ sNak' \in BOOLEAN /\ sUnf' \in BOOLEAN
        BY <2>2
      <3>3. QED
        BY <2>1, <2>3, <3>1, <3>2
    <2>5. Room'
      BY <2>2, <2>3
    <2>6. Within'
      BY <2>3
    <2>7. QED
      BY <2>4, <2>5, <2>6 DEF IInv
  <1>3. CASE BusReset
    <2>1. Types'
      BY <1>3, Empty DEF BusReset
    <2>2. Room'
      BY <1>3 DEF BusReset
    <2>3. Within'
      BY <1>3 DEF BusReset
    <2>4. QED
      BY <2>1, <2>2, <2>3 DEF IInv
  <1>4. CASE SetConfiguration
    <2>1. Types'
      BY <1>4, Empty DEF SetConfiguration
    <2>2. Room'
      BY <1>4 DEF SetConfiguration
    <2>3. Within'
      BY <1>4 DEF SetConfiguration
    <2>4. QED
      BY <2>1, <2>2, <2>3 DEF IInv
  <1>5. CASE Unconfigure
    <2>1. Types'
      BY <1>5, Empty DEF Unconfigure
    <2>2. Room' /\ Within'
      BY <1>5 DEF Unconfigure
    <2>3. QED
      BY <2>1, <2>2 DEF IInv
  <1>6. ASSUME NEW n \in 0 .. Max, PollOut(n)
        PROVE  IInv'
    <2>1. recv' \in Buffers
      BY <1>6 DEF PollOut, Buffers
    <2>2. QED
      BY <1>6, <2>1 DEF PollOut
  <1>7. QED
    BY <1>1, <1>2, <1>3, <1>4, <1>5, <1>6

\* The steps of a write.
LEMMA WriteSteps ==
  ASSUME IInv, Writing \/ Write \/ WriteFlush
  PROVE  IInv'
  <1> USE Bounds DEF IInv, Types, Room, Within, sending, receiving, counting, history
  <1>1. CASE WriteWait
    BY <1>1 DEF WriteWait
  <1>2. ASSUME NEW c \in Data, Store(c)
        PROVE  IInv'
    <2>1. sendCnt + 1 \in 1 .. Max
      BY <1>2 DEF Store
    <2>2. send' \in Buffers
      BY <1>2, <2>1 DEF Store, Buffers
    <2>3. QED
      BY <1>2, <2>1, <2>2 DEF Store
  <1>3. CASE WriteEnds
    <2>1. Types'
      BY <1>3 DEF WriteEnds, Full, StartSof
    <2>2. Room'
      BY <1>3 DEF WriteEnds, Full, StartSof
    <2>3. Within'
      BY <1>3 DEF WriteEnds, Full, StartSof
    <2>4. QED
      BY <2>1, <2>2, <2>3 DEF IInv
  <1>4. CASE SendFlush
    BY <1>4 DEF SendFlush, SendCounted
  <1>5. CASE SendFlushed
    BY <1>5 DEF SendFlushed, SendListen
  <1>6. CASE FlushWait
    BY <1>6 DEF FlushWait
  <1>7. CASE Write
    BY <1>7 DEF Write
  <1>8. CASE WriteFlush
    BY <1>8 DEF WriteFlush
  <1>9. QED
    BY <1>1, <1>2, <1>3, <1>4, <1>5, <1>6, <1>7, <1>8 DEF Writing

\* The steps of a read.
LEMMA ReadSteps ==
  ASSUME IInv, Reading \/ Read \/ ReadAvailable \/ ReadClear
  PROVE  IInv'
  <1> USE Bounds DEF IInv, Types, Room, Within, sending, receiving, counting, history
  <1>1. CASE RecvFlush
    BY <1>1 DEF RecvFlush
  <1>2. CASE RecvFlushed
    BY <1>2 DEF RecvFlushed, RecvListen
  <1>3. CASE ReadWait
    BY <1>3 DEF ReadWait, Drained
  <1>4. CASE TakeByte
    <2>1. /\ recvCnt' \in 0 .. CountMod - 1
          /\ ~astray => recvCnt' = recvCnt + 1 /\ recvCnt < rCnt
      BY <1>4, Counting DEF TakeByte
    <2>2. Held(recvCnt + 1) \subseteq Data
      BY DEF Held, Buffers
    <2>3. ret' \in Seq(Data) /\ Len(ret') <= 1
      BY <1>4, <2>2, Empty DEF TakeByte
    <2>4. Types'
      BY <1>4, <2>1, <2>3 DEF TakeByte
    <2>5. Room' /\ Within'
      BY <1>4, <2>1 DEF TakeByte
    <2>6. QED
      BY <2>4, <2>5 DEF IInv
  <1>5. CASE ReadEnds
    BY <1>5 DEF ReadEnds
  <1>6. CASE ClearWait
    BY <1>6 DEF ClearWait
  <1>7. CASE Clear
    <2>1. Types'
      BY <1>7, Empty DEF Clear
    <2>2. Room' /\ Within'
      BY <1>7 DEF Clear
    <2>3. QED
      BY <2>1, <2>2 DEF IInv
  <1>8. CASE Read
    BY <1>8 DEF Read
  <1>9. CASE ReadAvailable
    BY <1>9 DEF ReadAvailable
  <1>10. CASE ReadClear
    BY <1>10 DEF ReadClear
  <1>11. QED
    BY <1>1, <1>2, <1>3, <1>4, <1>5, <1>6, <1>7, <1>8, <1>9, <1>10 DEF Reading

LEMMA Stutters ==
  ASSUME IInv, UNCHANGED vars
  PROVE  IInv'
  BY DEF IInv, Types, Room, Within, vars, sending, receiving, counting, history

\* Every count stays within its buffer: write_byte always stores inside the 64
\* bytes and no more than those are handed to the host, and read_byte reads
\* inside what was received until a SetConfiguration comes between its test
\* and its taking.
THEOREM TypeCorrect == Spec => []TypeOK
  <1>1. IInv /\ [Next]_vars => IInv'
    BY BusSteps, WriteSteps, ReadSteps, Stutters DEF Next
  <1>2. IInv => TypeOK
    BY DEF IInv, Within, TypeOK
  <1>3. QED
    BY InitIInv, <1>1, <1>2, PTL DEF Spec

-----------------------------------------------------------------------------
(* From the host.                                                          *)

\* The host fills an empty buffer, and the program empties one that it has
\* read to its end, and that is its own until it gives it back.
Receives ==
  ~astray =>
    /\ config /\ ~rNak => rCnt = 0
    /\ pc \in {"readListen", "endListen"} => rCnt = 0
    /\ pc \in {"readFlush", "endFlush", "availFlush"} /\ config => recvCnt = rCnt
    /\ pc \in {"readFlush", "readListen", "endFlush", "availFlush", "endListen", "take", "readEnd"} => rNak

RInv == IInv /\ Receives

LEMMA ReadStarts == Init => RInv /\ FromHost!Init
  <1> SUFFICES ASSUME Init PROVE RInv /\ FromHost!Init
    OBVIOUS
  <1>1. Receives
    BY DEF Init, Receives
  <1>2. FromHost!Init
    BY DEF Init, FromHost!Init, Unread, Reads
  <1>3. QED
    BY <1>1, <1>2, InitIInv DEF RInv

\* Nothing of the buffer between two equal counts.
LEMMA NothingUnread ==
  ASSUME NEW b \in Buffers, NEW k \in 0 .. Max
  PROVE  SubSeq(b, k + 1, k) = <<>>
  BY BuffersAssumption, b \in Seq(Data), SubSeqEmpty DEF Buffers

\* Steps that leave the receiving side alone.
LEMMA ReceivingKept ==
  ASSUME RInv, UNCHANGED <<config, receiving, ret, astray>>,
         pc' \in {"readFlush", "readListen", "endFlush", "availFlush", "endListen", "take", "readEnd"} => pc' = pc
  PROVE  Receives' /\ UNCHANGED FromHost!pvars
  BY DEF RInv, Receives, receiving, FromHost!pvars, Unread, Reads

LEMMA BusReads ==
  ASSUME RInv, PollIn \/ Sof \/ BusReset \/ SetConfiguration \/ Unconfigure
               \/ \E n \in 0 .. Max : PollOut(n)
  PROVE  Receives' /\ [FromHost!Next]_(FromHost!pvars)
  <1> USE DEF FromHost!Next
  <1>1. CASE PollIn
    BY <1>1, ReceivingKept DEF PollIn, history
  <1>2. CASE Sof
    BY <1>2, ReceivingKept DEF Sof
  <1>3. CASE BusReset
    BY <1>3 DEF BusReset, history, RInv, IInv, Within, Receives, FromHost!Down, Unread, Reads
  <1>4. CASE SetConfiguration
    <2>1. rCnt' = 0 /\ recvCnt' = 0 /\ rNak' /\ config' /\ ret' = <<>> /\ recv' = recv /\ recv \in Buffers
      BY <1>4 DEF SetConfiguration, RInv, IInv, Types
    <2>2. Unread' = <<>>
      BY <2>1, Bounds, NothingUnread DEF Unread
    <2>3. Receives'
      BY <1>4, <2>1 DEF SetConfiguration, Receives
    <2>4. CASE pc = "take"
      BY <1>4, <2>1, <2>2, <2>3, <2>4 DEF SetConfiguration, Reads, FromHost!Down
    <2>5. CASE pc # "take"
      BY <1>4, <2>1, <2>2, <2>3, <2>5 DEF SetConfiguration, Reads, FromHost!Configure
    <2>6. QED
      BY <2>4, <2>5
  <1>5. CASE Unconfigure
    BY <1>5 DEF Unconfigure, receiving, history, RInv, Receives, FromHost!Down, Unread, Reads
  <1>6. ASSUME NEW n \in 0 .. Max, PollOut(n)
        PROVE  Receives' /\ [FromHost!Next]_(FromHost!pvars)
    <2>1. /\ config /\ ~rNak /\ recv \in Buffers /\ rCnt' = n /\ rNak' /\ config' = config /\ ret' = ret
          /\ recvCnt' = recvCnt /\ pc' = pc /\ astray' = astray /\ astray \in BOOLEAN
          /\ ~astray => recvCnt = 0 /\ rCnt = 0
      BY <1>6 DEF PollOut, history, RInv, IInv, Types, Within, Receives
    <2>2. recv' \in Buffers
      BY <1>6, <2>1, Bounds DEF PollOut, Buffers
    <2>3. Receives'
      BY <2>1 DEF RInv, Receives
    <2>4. CASE astray
      BY <2>1, <2>3, <2>4 DEF FromHost!pvars, Unread, Reads
    <2>5. CASE ~astray
      <3>1. Unread = <<>>
        BY <2>1, <2>5, Bounds, NothingUnread DEF Unread
      <3>2. Unread' = SubSeq(recv', 1, n)
        BY <2>1, <2>5 DEF Unread, Reads
      <3>3. Len(Unread') = n /\ Unread' \in Seq(Data)
        BY <2>2, <3>2, Packet
      <3>4. SubSeq(Unread', 1, Len(Unread)) = Unread
        BY <3>1, <3>3, SubSeqEmpty
      <3>5. FromHost!Give
        BY <2>1, <2>5, <3>1, <3>3, <3>4 DEF FromHost!Give, Reads
      <3>6. QED
        BY <2>3, <3>5
    <2>6. QED
      BY <2>1, <2>4, <2>5
  <1>7. QED
    BY <1>1, <1>2, <1>3, <1>4, <1>5, <1>6

LEMMA WritesAside ==
  ASSUME RInv, Writing \/ Write \/ WriteFlush
  PROVE  Receives' /\ [FromHost!Next]_(FromHost!pvars)
  <1>1. UNCHANGED <<config, receiving, ret, astray>>
    BY DEF Writing, WriteWait, Store, WriteEnds, SendFlush, SendFlushed, FlushWait, Write, WriteFlush, history
  <1>2. pc' \in {"app", "writeWait", "store", "full", "sendFlush", "flushNow", "sendListen", "flushListen", "flushWait"}
    BY DEF Writing, WriteWait, Store, WriteEnds, SendFlush, SendFlushed, FlushWait, Write, WriteFlush
  <1>3. QED
    BY <1>1, <1>2, ReceivingKept

\* read_byte takes the first of the unread bytes.
LEMMA Takes ==
  ASSUME RInv, TakeByte
  PROVE  Receives' /\ [FromHost!Next]_(FromHost!pvars)
  <1>1. /\ recv \in Buffers /\ recv' = recv /\ rNak' = rNak /\ config' = config /\ config \in BOOLEAN
        /\ astray' = astray /\ astray \in BOOLEAN /\ rCnt' = rCnt /\ pc' = "readEnd"
    BY DEF TakeByte, history, RInv, IInv, Types
  <1>2. Receives'
    BY <1>1 DEF RInv, IInv, Within, Receives, TakeByte
  <1>3. CASE ~Reads
    BY <1>1, <1>2, <1>3 DEF FromHost!Next, FromHost!Stray, Unread, Reads
  <1>4. CASE Reads
    <2>0. /\ rNak /\ recvCnt \in Nat /\ rCnt \in Nat /\ recvCnt < rCnt /\ rCnt <= Max
          /\ recvCnt' = recvCnt + 1 /\ ret' = <<recv[recvCnt + 1]>> /\ Reads'
      <3>1. /\ recvCnt \in 0 .. CountMod - 1 /\ rCnt \in 0 .. Max /\ rNak /\ recvCnt < rCnt
            /\ recvCnt' = (recvCnt + 1) % CountMod
        BY <1>4 DEF TakeByte, RInv, IInv, Types, Within, Reads
      <3>2. recvCnt + 1 <= Max /\ recvCnt' = recvCnt + 1
        BY <3>1, Bounds, Counting
      <3>3. Held(recvCnt + 1) = {recv[recvCnt + 1]}
        BY <3>2 DEF Held
      <3>4. QED
        BY <1>1, <1>4, <3>1, <3>2, <3>3, Bounds DEF TakeByte, Reads
    <2>1. recv \in Seq(Data) /\ Len(recv) = Max
      BY <1>1, BuffersAssumption DEF Buffers
    <2>2. Len(Unread) = rCnt - recvCnt
      BY <1>1, <1>4, <2>0, <2>1, SubSeqProperties DEF Unread
    <2>3. SubSeq(Unread, 1, 1) = SubSeq(recv, recvCnt + 1, recvCnt + 1)
      BY <1>1, <1>4, <2>0, <2>1 DEF Unread
    <2>4. SubSeq(recv, recvCnt + 1, recvCnt + 1) = <<recv[recvCnt + 1]>>
      <3> DEFINE k == recvCnt + 1
      <3>1. k \in 1 .. Len(recv) /\ k \in k .. Len(recv)
        BY <1>1, <2>0, <2>1
      <3> HIDE DEF k
      <3>2. SubSeq(recv, k, k) = <<recv[k]>> \o SubSeq(recv, k + 1, k)
        BY <2>1, <3>1, SubSeqRecursiveFirst
      <3>3. SubSeq(recv, k + 1, k) = <<>>
        BY <3>1, k \in Int, SubSeqEmpty
      <3>4. recv[k] \in Data
        BY <2>1, <3>1
      <3>5. <<recv[k]>> \o <<>> = <<recv[k]>>
        BY <3>4
      <3>6. QED
        BY <3>2, <3>3, <3>5 DEF k
    <2>5. SubSeq(Unread, 2, Len(Unread)) = SubSeq(recv, recvCnt + 2, rCnt)
      BY <1>1, <1>4, <2>0, <2>1, <2>2 DEF Unread
    <2>6. Unread' = SubSeq(recv, recvCnt + 2, rCnt)
      <3>1. recvCnt' + 1 = recvCnt + 2
        BY <2>0
      <3>2. QED
        BY <1>1, <2>0, <3>1 DEF Unread
    <2>7. FromHost!Take(1)
      BY <1>1, <1>4, <2>0, <2>3, <2>4, <2>5, <2>6 DEF FromHost!Take, Reads
    <2>8. 1 \in 0 .. Len(Unread)
      BY <1>1, <2>0, <2>2
    <2>9. QED
      BY <1>2, <2>7, <2>8 DEF FromHost!Next
  <1>5. QED
    BY <1>1, <1>3, <1>4

LEMMA ReadsRead ==
  ASSUME RInv, Reading \/ Read \/ ReadAvailable \/ ReadClear
  PROVE  Receives' /\ [FromHost!Next]_(FromHost!pvars)
  <1>1. CASE RecvFlush
    <2>1. /\ config' = config /\ recv' = recv /\ recv \in Buffers /\ ret' = ret /\ rNak' = rNak /\ (~astray => rNak)
          /\ recvCnt' = 0 /\ rCnt' = 0 /\ pc' \in {"readListen", "endListen"} /\ rCnt \in 0 .. Max
          /\ astray' = astray /\ (Reads => recvCnt = rCnt)
      BY <1>1 DEF RecvFlush, history, RInv, IInv, Types, Receives, Reads
    <2>2. Unread = <<>> /\ Unread' = <<>>
      BY <2>1, Bounds, NothingUnread DEF Unread, Reads
    <2>3. Receives'
      BY <2>1 DEF Receives
    <2>4. QED
      BY <2>1, <2>2, <2>3 DEF FromHost!pvars, Reads
  <1>2. CASE RecvFlushed
    BY <1>2 DEF RecvFlushed, RecvListen, history, RInv, Receives, FromHost!pvars, Unread, Reads
  <1>3. CASE ReadWait \/ ReadEnds \/ ClearWait \/ Read \/ ReadAvailable \/ ReadClear
    <2>1. UNCHANGED <<config, receiving, ret, astray>>
      BY <1>3 DEF ReadWait, ReadEnds, ClearWait, Read, ReadAvailable, ReadClear, history
    <2>2. Receives'
      BY <1>3 DEF ReadWait, ReadEnds, ClearWait, Read, ReadAvailable, ReadClear, RInv, Receives,
                  receiving, history, Drained, FlushDrained
    <2>3. QED
      BY <2>1, <2>2 DEF FromHost!pvars, Unread, receiving, Reads
  <1>4. CASE TakeByte
    BY <1>4, Takes
  <1>5. CASE Clear
    <2>1. /\ config' = config /\ recv' = recv /\ recv \in Buffers /\ ret' = <<>>
          /\ recvCnt' = 0 /\ rCnt' = 0 /\ pc' = "app" /\ config \in BOOLEAN
      BY <1>5 DEF Clear, RInv, IInv, Types
    <2>2. Unread' = <<>>
      BY <2>1, Bounds, NothingUnread DEF Unread
    <2>3. Receives'
      BY <2>1 DEF Receives
    <2>4. FromHost!Configure \/ FromHost!Stray
      BY <1>5, <2>1, <2>2 DEF Clear, FromHost!Configure, FromHost!Stray, Unread, Reads
    <2>5. QED
      BY <2>3, <2>4 DEF FromHost!Next
  <1>6. QED
    BY <1>1, <1>2, <1>3, <1>4, <1>5 DEF Reading

LEMMA ReadRefines == RInv /\ [Next]_vars => RInv' /\ [FromHost!Next]_(FromHost!pvars)
  <1> SUFFICES ASSUME RInv, [Next]_vars PROVE RInv' /\ [FromHost!Next]_(FromHost!pvars)
    OBVIOUS
  <1>1. IInv'
    BY BusSteps, WriteSteps, ReadSteps, Stutters DEF Next, RInv
  <1>2. CASE UNCHANGED vars
    BY <1>2, <1>1, ReceivingKept DEF vars, history, RInv
  <1>3. QED
    BY <1>1, <1>2, BusReads, WritesAside, ReadsRead DEF Next, RInv

\* What the host sends comes out of read_byte in order and once, and none of
\* it is lost but what read_clear discards, while the device is configured and
\* no SetConfiguration has cut read_byte in two.
THEOREM ReadPipe == Spec => ReadsArrive
  <1>1. Spec => FromHost!Init /\ [][FromHost!Next]_(FromHost!pvars)
    BY ReadStarts, ReadRefines, PTL DEF Spec
  <1>2. QED
    BY <1>1 DEF ReadsArrive, FromHost!Spec

-----------------------------------------------------------------------------
(* To the host.                                                            *)

Listening == {"sendListen", "flushListen"}
AtSend    == Windows \cup Listening

\* The program holds the buffer while it fills it and gives it away, nothing is
\* collected behind what it gives away, and a host that was told to come again
\* finds the buffer not yet its own.  At "full" a SOF interrupt may have sent
\* what there was, which leaves nothing that makes the buffer full.
Sends ==
  ~cut => /\ pc \in AtSend => sNak
          /\ pc = "full" => sNak \/ sendCnt = 0
          /\ pc \in Listening => sendCnt = 0
          /\ config => (sUnf => sNak)

WInv == IInv /\ Sends

\* What is handed over and what is collected, each on its own.
LEMMA Whose ==
  ASSUME WInv, Writes
  PROVE  /\ pc \in AtSend \ Listening => Unsent = SubSeq(send, 1, sendCnt)
         /\ sNak /\ pc \notin Listening => Unsent = SubSeq(send, 1, sendCnt)
         /\ pc \in Listening => Unsent = SubSeq(send, 1, sCnt)
         /\ ~sNak => Unsent = SubSeq(send, 1, sCnt) \o SubSeq(send, 1, sendCnt)
  <1>1. send \in Buffers /\ sendCnt \in 0 .. Max /\ sCnt \in 0 .. Max
    BY DEF WInv, IInv, Types
  <1>2. SubSeq(send, 1, sendCnt) \in Seq(Data) /\ SubSeq(send, 1, sCnt) \in Seq(Data)
    BY <1>1, Packet
  <1>3. ~Handed => Unsent = SubSeq(send, 1, sendCnt)
    BY <1>2 DEF Unsent
  <1>4. Handed => Unsent = SubSeq(send, 1, sCnt) \o SubSeq(send, 1, sendCnt)
    BY DEF Unsent
  <1>5. sendCnt = 0 => SubSeq(send, 1, sendCnt) = <<>>
    BY SubSeqEmpty
  <1>6. SubSeq(send, 1, sCnt) \o <<>> = SubSeq(send, 1, sCnt)
    BY <1>2
  <1>7. QED
    BY <1>3, <1>4, <1>5, <1>6 DEF Handed, WInv, Sends, AtSend, Windows, Listening, Writes

LEMMA Split ==
  ASSUME NEW a \in Seq(Data), NEW b \in Seq(Data)
  PROVE  /\ SubSeq(a \o b, 1, Len(a)) = a
         /\ SubSeq(a \o b, Len(a) + 1, Len(a \o b)) = b
         /\ Len(a) \in 0 .. Len(a \o b)
  <1>1. a \o b \in Seq(Data) /\ Len(a \o b) = Len(a) + Len(b) /\ Len(a) \in Nat /\ Len(b) \in Nat
    OBVIOUS
  <1>2. SubSeq(a \o b, 1, Len(a)) = a
    <2>1. CASE Len(a) = 0
      BY <2>1, <1>1, SubSeqEmpty
    <2>2. CASE Len(a) > 0
      BY <2>2, <1>1, SubSeqOfConcat1, SubSeqFull
    <2>3. QED
      BY <1>1, <2>1, <2>2
  <1>3. SubSeq(a \o b, Len(a) + 1, Len(a \o b)) = b
    <2>1. CASE Len(b) = 0
      BY <2>1, <1>1, SubSeqEmpty
    <2>2. CASE Len(b) > 0
      <3>1. Len(a) + 1 \in Len(a) + 1 .. Len(a) + Len(b) /\ Len(a) + Len(b) \in Len(a) + 1 .. Len(a) + Len(b)
        BY <2>2, <1>1
      <3>2. SubSeq(a \o b, Len(a) + 1, Len(a) + Len(b)) = SubSeq(b, Len(a) + 1 - Len(a), Len(a) + Len(b) - Len(a))
        BY <3>1, SubSeqOfConcat2
      <3>3. Len(a) + 1 - Len(a) = 1 /\ Len(a) + Len(b) - Len(a) = Len(b)
        BY <1>1
      <3>4. QED
        BY <1>1, <3>2, <3>3, SubSeqFull
    <2>3. QED
      BY <1>1, <2>1, <2>2
  <1>4. QED
    BY <1>1, <1>2, <1>3

\* A byte stored behind the others leaves those as they are.
LEMMA Behind ==
  ASSUME NEW b \in Buffers, NEW n \in 0 .. Max, n + 1 <= Max, NEW c \in Data
  PROVE  LET d == [b EXCEPT ![n + 1] = c]
         IN  /\ d \in Buffers
             /\ SubSeq(SubSeq(d, 1, n + 1), 1, n) = SubSeq(b, 1, n)
  <1> DEFINE d == [b EXCEPT ![n + 1] = c]
  <1>1. n \in Nat /\ Max \in Nat /\ d \in Buffers
    BY BuffersAssumption DEF Buffers
  <1>2. \A k \in 1 .. n : d[k] = b[k]
    BY <1>1 DEF Buffers
  <1> HIDE DEF d
  <1>3. SubSeq(d, 1, n + 1) = [k \in 1 .. n + 1 |-> d[k]]
    BY <1>1, n + 1 \in 0 .. Max
  <1>4. SubSeq(SubSeq(d, 1, n + 1), 1, n) = [k \in 1 .. n |-> d[k]]
    BY <1>1, <1>3
  <1>5. SubSeq(b, 1, n) = [k \in 1 .. n |-> b[k]]
    BY <1>1
  <1>6. QED
    BY <1>1, <1>2, <1>4, <1>5 DEF d

LEMMA WriteStarts == Init => WInv /\ ToHost!Init
  <1> SUFFICES ASSUME Init PROVE WInv /\ ToHost!Init
    OBVIOUS
  <1>1. Sends
    BY DEF Init, Sends, AtSend, Windows, Listening
  <1>2. ToHost!Init
    BY DEF Init, ToHost!Init, Unsent, Writes
  <1>3. QED
    BY <1>1, <1>2, InitIInv DEF WInv

\* Steps that leave the sending side alone.
LEMMA SendingKept ==
  ASSUME WInv, UNCHANGED <<config, sending, host, cut>>,
         ~cut => (pc' \in AtSend => sNak), pc' = "full" => pc = "full",
         pc \in Listening \/ pc' \in Listening => pc' = pc
  PROVE  Sends' /\ UNCHANGED ToHost!pvars
  BY DEF WInv, Sends, sending, ToHost!pvars, Unsent, Handed, Writes, Listening

LEMMA BusWrites ==
  ASSUME WInv, PollIn \/ Sof \/ BusReset \/ SetConfiguration \/ Unconfigure
               \/ \E n \in 0 .. Max : PollOut(n)
  PROVE  Sends' /\ [ToHost!Next]_(ToHost!pvars)
  <1> USE DEF ToHost!Next
  <1>1. CASE PollIn
    <2>1. /\ config' = config /\ config /\ send' = send /\ sendCnt' = sendCnt /\ sCnt' = sCnt /\ pc' = pc
          /\ cut' = cut /\ send \in Buffers /\ sendCnt \in 0 .. Max /\ sCnt \in 0 .. Max
      BY <1>1 DEF PollIn, history, WInv, IInv, Types
    <2>2. CASE sNak
      <3>1. sNak' = sNak /\ host' = host
        BY <1>1, <2>2 DEF PollIn
      <3>2. Sends'
        BY <2>1, <2>2, <3>1 DEF WInv, Sends
      <3>3. QED
        BY <2>1, <3>1, <3>2 DEF ToHost!pvars, Unsent, Handed, Writes
    <2>3. CASE ~sNak
      <3> DEFINE a == SubSeq(send, 1, sCnt)
                 b == SubSeq(send, 1, sendCnt)
      <3>1. sNak' /\ sUnf' = sUnf /\ (Writes => host' = a)
        BY <1>1, <2>3 DEF PollIn
      <3>2. Sends'
        BY <2>1, <2>3, <3>1 DEF WInv, Sends
      <3>3. CASE ~Writes
        BY <2>1, <3>2, <3>3 DEF ToHost!Stray, Unsent, Writes
      <3>4. CASE Writes
        <4>1. pc \notin Listening
          BY <2>3, <3>4 DEF WInv, Sends, AtSend, Writes
        <4>2. a \in Seq(Data) /\ b \in Seq(Data) /\ Len(a) = sCnt
          BY <2>1, Packet
        <4>3. Unsent = a \o b
          BY <2>1, <2>3, <3>4, Whose
        <4>4. Unsent' = b /\ Writes'
          BY <2>1, <3>1, <3>4, <4>1, <4>2 DEF Unsent, Handed, Listening, Writes
        <4> HIDE DEF a, b
        <4>5. ToHost!Take(Len(a)) /\ Len(a) \in 0 .. Len(Unsent)
          BY <2>1, <3>1, <3>4, <4>2, <4>3, <4>4, Split DEF ToHost!Take
        <4>6. QED
          BY <3>2, <4>5
      <3>5. QED
        BY <3>3, <3>4
    <2>4. QED
      BY <2>2, <2>3
  <1>2. CASE Sof
    <2>1. UNCHANGED <<config, send, pc>> /\ cut \in BOOLEAN
      BY <1>2 DEF Sof, sending, SendCounted, SendListen, WInv, IInv, Types
    <2>2. CASE UNCHANGED <<sending, cut, host>>
      BY <2>1, <2>2 DEF sending, WInv, Sends, ToHost!pvars, Unsent, Handed, Writes
    <2>3. CASE ~UNCHANGED <<sending, cut, host>>
      <3>1. /\ sUnf /\ sendCnt > 0 /\ cut' = (cut \/ pc \in Windows)
            /\ sCnt' = sendCnt /\ sendCnt' = 0 /\ ~sNak' /\ ~sUnf'
            /\ host' = IF cut' THEN <<>> ELSE host
        BY <1>2, <2>3 DEF Sof, SofSends, SendCounted, SendListen
      <3>2. CASE cut'
        <4>1. Sends'
          BY <3>2 DEF Sends
        <4>2. ~Writes' /\ Unsent' = <<>> /\ host' = <<>>
          BY <3>1, <3>2 DEF Writes, Unsent
        <4>3. ToHost!Down
          BY <4>2 DEF ToHost!Down, Writes
        <4>4. QED
          BY <4>1, <4>3
      <3>3. CASE ~cut'
        <4>1. ~cut /\ pc \notin Windows
          BY <2>1, <3>1, <3>3
        <4>2. pc \notin AtSend /\ pc \notin Listening
          BY <3>1, <4>1 DEF WInv, Sends, AtSend
        <4>3. Sends'
          BY <2>1, <3>1, <4>2 DEF Sends, AtSend, Listening
        <4>4. Unsent' = Unsent
          <5>1. CASE ~config
            BY <2>1, <5>1 DEF Unsent, Writes
          <5>2. CASE config
            <6>1. sNak /\ Writes /\ Writes'
              BY <2>1, <3>1, <3>3, <4>1, <5>2 DEF WInv, Sends, Writes
            <6>2. Unsent = SubSeq(send, 1, sendCnt)
              BY <4>2, <6>1, Whose
            <6>3. Unsent' = SubSeq(send, 1, sendCnt) \o SubSeq(send, 1, 0)
              BY <2>1, <3>1, <6>1 DEF Unsent, Handed
            <6>4. SubSeq(send, 1, 0) = <<>>
              BY SubSeqEmpty
            <6>5. SubSeq(send, 1, sendCnt) \in Seq(Data)
              BY Packet DEF WInv, IInv, Types
            <6>6. QED
              BY <6>2, <6>3, <6>4, <6>5
          <5>3. QED
            BY <5>1, <5>2
        <4>5. QED
          BY <2>1, <3>1, <3>3, <4>1, <4>3, <4>4 DEF ToHost!pvars, Writes
      <3>4. QED
        BY <3>2, <3>3
    <2>4. QED
      BY <2>2, <2>3
  <1>3. CASE BusReset
    BY <1>3 DEF BusReset, history, WInv, Sends, ToHost!Down, Unsent, Writes
  <1>4. CASE SetConfiguration
    <2>1. config' /\ ~cut' /\ sNak' /\ ~sUnf' /\ sendCnt' = 0 /\ sCnt' = 0 /\ host' = <<>>
      BY <1>4 DEF SetConfiguration
    <2>2. SubSeq(send', 1, 0) = <<>> /\ <<>> \o <<>> = <<>>
      BY SubSeqEmpty, Empty
    <2>3. Unsent' = <<>>
      BY <2>1, <2>2 DEF Unsent
    <2>4. Sends'
      BY <2>1 DEF Sends
    <2>5. QED
      BY <2>1, <2>3, <2>4 DEF ToHost!Configure, Writes
  <1>5. CASE Unconfigure
    BY <1>5 DEF Unconfigure, sending, history, WInv, Sends, ToHost!Down, Unsent, Writes
  <1>6. CASE \E n \in 0 .. Max : PollOut(n)
    <2>1. UNCHANGED <<config, sending, host, pc, cut>>
      BY <1>6 DEF PollOut, history
    <2>2. QED
      BY <2>1, SendingKept DEF WInv, Sends
  <1>7. QED
    BY <1>1, <1>2, <1>3, <1>4, <1>5, <1>6

LEMMA ReadsAside ==
  ASSUME WInv, Reading \/ Read \/ ReadAvailable \/ ReadClear
  PROVE  Sends' /\ UNCHANGED ToHost!pvars
  <1>1. UNCHANGED <<config, sending, host, cut>>
    BY DEF Reading, RecvFlush, RecvFlushed, ReadWait, TakeByte, ReadEnds, ClearWait, Clear, Read, ReadAvailable, ReadClear,
           history
  <1>2. pc \notin AtSend \cup Listening /\ pc' \notin AtSend \cup Listening \cup {"full"}
    BY DEF Reading, RecvFlush, RecvFlushed, ReadWait, TakeByte, ReadEnds, ClearWait, Clear, Read, ReadAvailable, ReadClear,
           AtSend, Windows, Listening
  <1>3. QED
    BY <1>1, <1>2, SendingKept

\* write_byte stores the byte behind those collected.
LEMMA Gives ==
  ASSUME WInv, NEW c \in Data, Store(c)
  PROVE  Sends' /\ [ToHost!Next]_(ToHost!pvars)
  <1>1. /\ send \in Buffers /\ sendCnt \in 0 .. Max /\ pc = "store" /\ pc' = "full" /\ config' = config /\ config \in BOOLEAN
        /\ send' = [send EXCEPT ![sendCnt + 1] = c] /\ sendCnt' = sendCnt + 1 /\ sNak' = sNak /\ sUnf' = sUnf /\ host' = host
        /\ cut' = cut /\ cut \in BOOLEAN
    BY DEF Store, history, WInv, IInv, Types
  <1>2. ~cut => sNak
    BY <1>1 DEF WInv, Sends, AtSend, Windows
  <1>3. Sends'
    BY <1>1, <1>2 DEF WInv, Sends, AtSend, Windows, Listening
  <1>4. CASE ~Writes
    BY <1>1, <1>3, <1>4 DEF ToHost!Next, ToHost!Stray, Unsent, Writes
  <1>5. CASE Writes
    <2>0. sNak /\ Writes'
      BY <1>1, <1>2, <1>5 DEF Writes
    <2>1. sendCnt + 1 <= Max /\ sendCnt + 1 \in 0 .. Max
      BY <1>1, Bounds DEF WInv, IInv, Room
    <2>2. Unsent = SubSeq(send, 1, sendCnt)
      BY <1>1, <2>0, <1>5, Whose DEF Listening
    <2>3. send' \in Buffers /\ SubSeq(SubSeq(send', 1, sendCnt + 1), 1, sendCnt) = SubSeq(send, 1, sendCnt)
      BY <1>1, <2>1, Behind
    <2>4. SubSeq(send', 1, sendCnt + 1) \in Seq(Data) /\ Len(SubSeq(send', 1, sendCnt + 1)) = sendCnt + 1
      BY <2>1, <2>3, Packet
    <2>5. Unsent' = SubSeq(send', 1, sendCnt + 1)
      BY <1>1, <2>0, <1>5, <2>4 DEF Unsent, Handed
    <2>6. Len(Unsent) = sendCnt /\ Len(Unsent') = sendCnt + 1
      BY <1>1, <2>2, <2>4, <2>5, Packet
    <2>7. Len(Unsent') >= Len(Unsent)
      BY <1>1, <2>6
    <2>8. ToHost!Give
      BY <1>1, <1>5, <2>2, <2>3, <2>5, <2>6, <2>7, <2>0 DEF ToHost!Give
    <2>9. QED
      BY <1>3, <2>8 DEF ToHost!Next
  <1>6. QED
    BY <1>1, <1>4, <1>5

LEMMA WritesWrite ==
  ASSUME WInv, Writing \/ Write \/ WriteFlush
  PROVE  Sends' /\ [ToHost!Next]_(ToHost!pvars)
  <1>1. CASE WriteWait \/ WriteEnds \/ FlushWait \/ Write \/ WriteFlush
    <2>1. UNCHANGED <<config, sending, host, cut>>
      BY <1>1 DEF WriteWait, WriteEnds, FlushWait, Write, WriteFlush, history
    <2>2. Full => sendCnt # 0
      BY Bounds DEF Full
    <2>3. /\ pc \notin Listening /\ pc' \notin Listening /\ (~cut => (pc' \in AtSend => sNak))
          /\ pc' # "full"
      BY <1>1, <2>2 DEF WriteWait, Mine, WriteEnds, FlushWait, Write, WriteFlush, WInv, Sends, AtSend, Windows, Listening
    <2>4. QED
      BY <2>1, <2>3, SendingKept
  <1>2. ASSUME NEW c \in Data, Store(c)
        PROVE  Sends' /\ [ToHost!Next]_(ToHost!pvars)
    BY <1>2, Gives
  <1>3. CASE SendFlush
    <2>1. /\ pc \in AtSend /\ pc \notin Listening /\ pc' \in Listening
          /\ UNCHANGED <<config, send, sNak, sUnf, host, cut>> /\ sCnt' = sendCnt /\ sendCnt' = 0 /\ pc' # "full"
      BY <1>3 DEF SendFlush, SendCounted, AtSend, Windows, Listening, history
    <2>2. Sends'
      BY <2>1 DEF WInv, Sends
    <2>3. Unsent' = Unsent
      <3>1. CASE ~Writes
        BY <2>1, <3>1 DEF Unsent, Writes
      <3>2. CASE Writes
        <4>1. Unsent = SubSeq(send, 1, sendCnt)
          BY <2>1, <3>2, Whose
        <4>2. Unsent' = SubSeq(send, 1, sendCnt) \o SubSeq(send, 1, 0)
          BY <2>1, <3>2 DEF Unsent, Handed, Listening, Writes
        <4>3. SubSeq(send, 1, 0) = <<>>
          BY SubSeqEmpty
        <4>4. SubSeq(send, 1, sendCnt) \in Seq(Data)
          BY Packet DEF WInv, IInv, Types
        <4>5. QED
          BY <4>1, <4>2, <4>3, <4>4
      <3>3. QED
        BY <3>1, <3>2
    <2>4. QED
      BY <2>1, <2>2, <2>3 DEF ToHost!pvars, Writes
  <1>4. CASE SendFlushed
    <2>1. /\ pc \in Listening /\ pc' \notin AtSend /\ pc' \notin Listening /\ ~sNak' /\ ~sUnf' /\ pc' # "full"
          /\ UNCHANGED <<config, send, sendCnt, sCnt, host, cut>>
      BY <1>4 DEF SendFlushed, SendListen, AtSend, Windows, Listening, history
    <2>2. Sends'
      BY <2>1 DEF Sends
    <2>3. QED
      BY <2>1, <2>2 DEF ToHost!pvars, Unsent, Handed, Listening, Writes
  <1>5. QED
    BY <1>1, <1>2, <1>3, <1>4 DEF Writing

LEMMA WriteRefines == WInv /\ [Next]_vars => WInv' /\ [ToHost!Next]_(ToHost!pvars)
  <1> SUFFICES ASSUME WInv, [Next]_vars PROVE WInv' /\ [ToHost!Next]_(ToHost!pvars)
    OBVIOUS
  <1>1. IInv'
    BY BusSteps, WriteSteps, ReadSteps, Stutters DEF Next, WInv
  <1>2. CASE UNCHANGED vars
    <2>1. UNCHANGED <<config, sending, host, pc, cut>>
      BY <1>2 DEF vars, history
    <2>2. QED
      BY <2>1, <1>1, SendingKept DEF WInv, Sends
  <1>3. QED
    BY <1>1, <1>2, BusWrites, WritesWrite, ReadsAside DEF Next, WInv

\* What write_byte takes comes to the host in order and once while the device
\* is configured, sent by write_byte, write_flush or the SOF interrupt, until
\* that interrupt sends within the steps of a write that are its own (Windows).
THEOREM WritePipe == Spec => WritesArrive
  <1>1. Spec => ToHost!Init /\ [][ToHost!Next]_(ToHost!pvars)
    BY WriteStarts, WriteRefines, PTL DEF Spec
  <1>2. QED
    BY <1>1 DEF WritesArrive, ToHost!Spec
=============================================================================
