----------------------------- MODULE CDCStream ------------------------------
(***************************************************************************)
(* The byte streams of USB::CDC (src/USB/CDC/cpp/interface.cpp): the two   *)
(* bulk endpoints, whose buffers the program and the USB controller hand   *)
(* to each other through the BUSNAK bit, the SOF interrupt that sends what *)
(* has waited too long, and a bus reset or a SetConfiguration meanwhile.   *)
(*                                                                         *)
(* BUSNAK set: the buffer is the program's.  Clear: it is the host's.      *)
(***************************************************************************)
EXTENDS Integers, Sequences

CONSTANTS
  Max,      \* USB_BULK_SEND_MAX and USB_BULK_RECV_MAX (64)
  Data,     \* bytes
  SofStart, \* what enable_interrupt_sof sets the counter to (10)
  SofMod,   \* values of that counter (256)
  CountMod, \* values of RECVCNT (65536)
  KeepsUp   \* the host polls in every frame

ASSUME BuffersAssumption ==
  /\ Max \in Nat \ {0} /\ SofStart \in Nat \ {0} /\ SofMod \in Nat /\ SofStart < SofMod
  /\ CountMod \in Nat /\ Max < CountMod /\ KeepsUp \in BOOLEAN

VARIABLES
  config,                       \* USBSTATE.CONFIG
  send, sendCnt,                \* USB_SEND_BUFFER, USBSTATE.SENDCNT
  sCnt, sNak, sUnf,             \* USB_EP_SEND: CNT, and BUSNAK and UNFOVF of STATUS
  recv, recvCnt,                \* USB_RECV_BUFFER, USBSTATE.RECVCNT
  rCnt, rNak,                   \* USB_EP_RECV: CNT, and BUSNAK of STATUS
  sof, sofOn,                   \* USBSTATE.SOF, USB_SOF_bm in USB0_INTCTRLA
  pc,                           \* where the program is in a call
  cut,                          \* history: SOF has sent within the steps of a write
  astray,                       \* history: SetConfiguration has cut read_byte in two
  ret,                          \* history: what the last read while Reads returned
  host                          \* history: the packet the host got last while Writes

sending   == <<send, sendCnt, sCnt, sNak, sUnf>>
receiving == <<recv, recvCnt, rCnt, rNak>>
counting  == <<sof, sofOn>>
history   == <<cut, astray>>
vars == <<config, sending, receiving, counting, pc, ret, host, history>>

\* Each direction is promised while the device is configured, until an
\* interrupt falls where the code is not made for it.
Writes == config /\ ~cut
Reads  == config /\ ~astray

Buffers == [1 .. Max -> Data]

\* The buffers and the endpoint table are NOINIT: whatever they held.
Init ==
  /\ config = FALSE
  /\ send \in Buffers /\ sendCnt = 0 /\ sCnt \in 0 .. Max /\ sNak \in BOOLEAN /\ sUnf \in BOOLEAN
  /\ recv \in Buffers /\ recvCnt = 0 /\ rCnt \in 0 .. Max /\ rNak \in BOOLEAN
  /\ sof = 0 /\ sofOn = FALSE
  /\ pc = "app" /\ ret = <<>> /\ host = <<>> /\ cut = FALSE /\ astray = FALSE

-----------------------------------------------------------------------------
(* The host.                                                               *)

\* An IN token: the packet goes out, or the host is told to come again.
PollIn ==
  /\ config
  /\ IF sNak THEN sUnf' = TRUE /\ UNCHANGED <<sNak, host>>
     ELSE sNak' = TRUE /\ host' = (IF Writes THEN SubSeq(send, 1, sCnt) ELSE <<>>) /\ UNCHANGED sUnf
  /\ UNCHANGED <<config, send, sendCnt, sCnt, receiving, counting, pc, ret, history>>

\* An OUT packet of n bytes.
PollOut(n) ==
  /\ config /\ ~rNak
  /\ \E b \in Buffers : recv' = [k \in 1 .. Max |-> IF k <= n THEN b[k] ELSE recv[k]]
  /\ rCnt' = n /\ rNak' = TRUE
  /\ UNCHANGED <<config, sending, recvCnt, counting, pc, ret, host, history>>

-----------------------------------------------------------------------------
(* The bus interrupts.                                                     *)

SendCounted == sCnt' = sendCnt /\ sendCnt' = 0

SendListen == sNak' = FALSE /\ sUnf' = FALSE
RecvListen == rNak' = FALSE

\* Where the program takes the send buffer for its own and has more to do with
\* it: it has seen BUSNAK, and is about to store or to count what it sends.
Windows == {"store", "sendFlush", "flushNow"}

\* cb_event_class_sof: one attempt, when the counter comes to 0.
SofSends == sUnf /\ sendCnt > 0
Sof ==
  /\ sofOn /\ (KeepsUp /\ config /\ sNak => sUnf)
  /\ sof' = (sof + SofMod - 1) % SofMod
  /\ IF sof' = 0
       THEN /\ sofOn' = FALSE
            /\ IF SofSends
                 THEN /\ SendCounted /\ SendListen /\ UNCHANGED send
                      /\ cut' = (cut \/ pc \in Windows)
                      /\ host' = IF cut' THEN <<>> ELSE host
                 ELSE UNCHANGED <<sending, cut, host>>
       ELSE UNCHANGED <<sofOn, sending, cut, host>>
  /\ UNCHANGED <<config, receiving, pc, ret, astray>>

\* RESET or RESUME: bus_reset clears the state, and the endpoints stay.
BusReset ==
  /\ config' = FALSE /\ sendCnt' = 0 /\ recvCnt' = 0 /\ sof' = 0 /\ ret' = <<>> /\ host' = <<>>
  /\ UNCHANGED <<send, sCnt, sNak, sUnf, recv, rCnt, rNak, sofOn, pc, history>>

\* SetConfiguration(1), in the USB interrupt, whatever the program is about.
SetConfiguration ==
  /\ config' = TRUE /\ sendCnt' = 0 /\ recvCnt' = 0
  /\ sNak' = TRUE /\ sUnf' = FALSE /\ sCnt' = 0 /\ rNak' = TRUE /\ rCnt' = 0
  /\ ret' = <<>> /\ host' = <<>> /\ UNCHANGED <<send, recv, counting, pc>>
  /\ cut' = FALSE /\ astray' = (pc = "take")

\* SetConfiguration(0).
Unconfigure ==
  /\ config' = FALSE /\ ret' = <<>> /\ host' = <<>>
  /\ UNCHANGED <<sending, receiving, counting, pc, history>>

-----------------------------------------------------------------------------
(* Writing.                                                                *)

\* write_byte.  Which byte it is matters only in Store.
Write ==
  /\ pc = "app" /\ config /\ pc' = "writeWait"
  /\ UNCHANGED <<config, sending, receiving, counting, ret, host, history>>

Anyone == TRUE                                    \* mutant: nothing is waited for
Mine   == sNak
WriteWait ==
  /\ pc = "writeWait" /\ Mine /\ pc' = "store"
  /\ UNCHANGED <<config, sending, receiving, counting, ret, host, history>>

Store(c) ==
  /\ pc = "store" /\ pc' = "full"
  /\ send' = [send EXCEPT ![sendCnt + 1] = c] /\ sendCnt' = sendCnt + 1
  /\ UNCHANGED <<config, sCnt, sNak, sUnf, receiving, counting, ret, host, history>>

FullLate == sendCnt > Max                         \* mutant: one byte too late
Full     == sendCnt >= Max
MaskSof  == sof' = SofStart /\ UNCHANGED sofOn     \* mutant: interrupt left off
StartSof == sof' = SofStart /\ sofOn' = TRUE
WriteEnds ==
  /\ pc = "full"
  /\ IF Full THEN pc' = "sendFlush" /\ UNCHANGED counting ELSE pc' = "app" /\ StartSof
  /\ UNCHANGED <<config, sending, receiving, ret, host, history>>

\* ep_send_flush: an atomic section, then BUSNAK.
SendFlush ==
  /\ pc \in {"sendFlush", "flushNow"} /\ SendCounted
  /\ pc' = IF pc = "sendFlush" THEN "sendListen" ELSE "flushListen"
  /\ UNCHANGED <<config, send, sNak, sUnf, receiving, counting, ret, host, history>>

SendFlushed ==
  /\ pc \in {"sendListen", "flushListen"} /\ SendListen
  /\ pc' = IF pc = "sendListen" THEN "app" ELSE "flushWait"
  /\ UNCHANGED <<config, send, sendCnt, sCnt, receiving, counting, ret, host, history>>

\* write_flush.
WriteFlush ==
  /\ pc = "app" /\ config
  /\ pc' = IF sendCnt > 0 /\ sNak THEN "flushNow" ELSE "flushWait"
  /\ UNCHANGED <<config, sending, receiving, counting, ret, host, history>>

FlushWait ==
  /\ pc = "flushWait" /\ sNak /\ pc' = "app"
  /\ UNCHANGED <<config, sending, receiving, counting, ret, host, history>>

-----------------------------------------------------------------------------
(* Reading.                                                                *)

\* ep_recv_flush, from where it goes on to.
Drained == rCnt = recvCnt

RecvFlush ==
  /\ pc \in {"readFlush", "endFlush", "availFlush"}
  /\ recvCnt' = 0 /\ rCnt' = 0
  /\ pc' = CASE pc = "readFlush" -> "readListen" [] OTHER -> "endListen"
  /\ UNCHANGED <<config, sending, recv, rNak, counting, ret, host, history>>

RecvFlushed ==
  /\ pc \in {"readListen", "endListen"} /\ RecvListen
  /\ pc' = IF pc = "readListen" THEN "readWait" ELSE "app"
  /\ UNCHANGED <<config, sending, recv, recvCnt, rCnt, counting, ret, host, history>>

\* read_byte.
Read ==
  /\ pc = "app"
  /\ pc' = IF rNak /\ Drained /\ config THEN "readFlush" ELSE "readWait"
  /\ UNCHANGED <<config, sending, receiving, counting, ret, host, history>>

ReadWait ==
  /\ pc = "readWait" /\ rNak
  /\ pc' = IF Drained THEN "readEnd" ELSE "take"
  /\ UNCHANGED <<config, sending, receiving, counting, ret, host, history>>

\* What is behind the buffer may be anything.
Held(k) == IF k <= Max THEN {recv[k]} ELSE Data

TakeByte ==
  /\ pc = "take" /\ pc' = "readEnd"
  /\ \E c \in Held(recvCnt + 1) : ret' = IF Reads THEN <<c>> ELSE <<>>
  /\ recvCnt' = (recvCnt + 1) % CountMod
  /\ UNCHANGED <<config, sending, recv, rCnt, rNak, counting, host, history>>

FlushAlways == config                             \* mutant: after every byte
FlushDrained == Drained /\ config
ReadEnds ==
  /\ pc = "readEnd" /\ pc' = IF FlushDrained THEN "endFlush" ELSE "app"
  /\ UNCHANGED <<config, sending, receiving, counting, ret, host, history>>

\* read_available.
ReadAvailable ==
  /\ pc = "app" /\ config /\ rNak
  /\ pc' = IF Drained THEN "availFlush" ELSE "app"
  /\ UNCHANGED <<config, sending, receiving, counting, ret, host, history>>

\* read_clear.
ReadClear ==
  /\ pc = "app" /\ pc' = IF config THEN "clearWait" ELSE "clear"
  /\ UNCHANGED <<config, sending, receiving, counting, ret, host, history>>

ClearWait ==
  /\ pc = "clearWait" /\ rNak /\ pc' = "clear"
  /\ UNCHANGED <<config, sending, receiving, counting, ret, host, history>>

Clear ==
  /\ pc = "clear" /\ pc' = "app" /\ recvCnt' = 0 /\ rCnt' = 0 /\ ret' = <<>>
  /\ astray' = FALSE
  /\ UNCHANGED <<config, sending, recv, rNak, counting, host, cut>>

-----------------------------------------------------------------------------

Writing == \/ WriteWait \/ (\E c \in Data : Store(c)) \/ WriteEnds \/ SendFlush \/ SendFlushed \/ FlushWait
Reading == \/ RecvFlush \/ RecvFlushed \/ ReadWait \/ TakeByte \/ ReadEnds
           \/ ClearWait \/ Clear

Next == \/ PollIn \/ Sof \/ BusReset \/ SetConfiguration \/ Writing \/ Reading
        \/ Write \/ WriteFlush \/ Read \/ ReadAvailable \/ ReadClear
        \/ Unconfigure \/ \E n \in 0 .. Max : PollOut(n)

Spec == Init /\ [][Next]_vars

\* The host goes on polling, frames go on, and the program's calls go on.
FairSpec == Spec /\ WF_vars(PollIn) /\ WF_vars(Sof) /\ WF_vars(Writing) /\ WF_vars(Reading)

-----------------------------------------------------------------------------
(* Properties.                                                             *)

Types ==
  /\ config \in BOOLEAN /\ sNak \in BOOLEAN /\ sUnf \in BOOLEAN /\ rNak \in BOOLEAN
  /\ send \in Buffers /\ recv \in Buffers
  /\ sendCnt \in 0 .. Max /\ sCnt \in 0 .. Max /\ rCnt \in 0 .. Max /\ recvCnt \in 0 .. CountMod - 1
  /\ sof \in 0 .. SofMod - 1 /\ sofOn \in BOOLEAN
  /\ ret \in Seq(Data) /\ Len(ret) <= 1 /\ host \in Seq(Data) /\ Len(host) <= Max
  /\ pc \in {"app", "writeWait", "store", "full", "sendFlush", "sendListen",
             "flushNow", "flushListen", "flushWait", "readFlush", "readListen", "readWait",
             "take", "readEnd", "endFlush", "availFlush", "endListen", "clearWait", "clear"}
  /\ cut \in BOOLEAN /\ astray \in BOOLEAN

\* The counts stay within their buffers: write_byte and read_byte, which do
\* not look, touch nothing beyond them, for as long as no SetConfiguration has
\* come between the test of read_byte and what it takes.
TypeOK == Types /\ (~astray => recvCnt <= rCnt)

\* Bytes handed to the host or about to be, and bytes still collected.
Handed == ~sNak \/ pc \in {"sendListen", "flushListen"}
Unsent == IF ~Writes THEN <<>>
          ELSE (IF Handed THEN SubSeq(send, 1, sCnt) ELSE <<>>) \o SubSeq(send, 1, sendCnt)
Unread == IF Reads THEN SubSeq(recv, recvCnt + 1, rCnt) ELSE <<>>

ToHost   == INSTANCE BytePipe WITH Discards <- FALSE, up <- Writes,
                                   giving <- pc = "store", queue <- Unsent, out <- host
FromHost == INSTANCE BytePipe WITH Discards <- TRUE, up <- Reads,
                                   giving <- ~rNak, queue <- Unread, out <- ret

\* What write_byte takes comes to the host in order, each byte once, while the
\* device stays configured, by whichever of write_byte, write_flush and the SOF
\* interrupt it is sent: until that interrupt sends between the wait of
\* write_byte and its store, or before the count of a flush.
WritesArrive == ToHost!Spec

\* What the host sends comes out of read_byte in order, each byte once, while
\* the device stays configured: until a SetConfiguration comes between the test
\* of read_byte and what it takes, and again from the next SetConfiguration or
\* read_clear.
ReadsArrive == FromHost!Spec

\* What is written does not stay in the send buffer, though the program never
\* writes again: the SOF interrupt that write_byte enables sends it, as long as
\* it has not sent within the steps of a write.
Sent == Writes /\ sendCnt > 0 ~> ~Writes \/ sendCnt = 0
=============================================================================
