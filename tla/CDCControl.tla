----------------------------- MODULE CDCControl -----------------------------
(***************************************************************************)
(* The control side of USB::CDC: the two interrupt handlers of             *)
(* src/USB/CDC/cpp/control.cpp, the control endpoint (endpoint.cpp), and   *)
(* the class requests, the notification endpoint and the break of          *)
(* interface.cpp.  The byte streams are in CDCStream.                      *)
(*                                                                         *)
(* A packet of the host needs microseconds, a handler less: a handler is   *)
(* one step from one place where it waits for the host to the next.  Setup *)
(* packet, answer and notification share their memory (USB_WM_TABLE_t):    *)
(* `area' is what its first bytes are.                                     *)
(***************************************************************************)
EXTENDS USBDescriptors

CONSTANT Forever                  \* the 0xFFFF of BREAKCNT
ASSUME ForeverAssumption == Forever \in Nat \ {0}

VARIABLES
  attached,                       \* USB_ATTACH_bm of USB0_CTRLB
  addr,                           \* USB0_ADDR
  flags, seen,                    \* USB0_INTFLAGSA, and busstate of the handler
  sflag, trn,                     \* USB0_INTFLAGSB: SETUP, and what is in the FIFO
  ep0,                            \* USB_EP_REQ and USB_EP_RES
  intr,                           \* USB_EP_INTR: BUSNAK and CNT
  eps,                            \* the endpoints set up, as the host would name them
  area, rq,                       \* EP_BUFFER, and the request being served
  st,                             \* USBSTATE
  pc                              \* where the handler is; "main": in none

usb0 == <<attached, addr, flags, seen, sflag, trn>>
ep   == <<ep0, intr, eps, area, rq>>
devVars == <<usb0, ep, st, pc>>

\* A request: its name, wValue, wLength.
Req(q, v, n) == [q |-> q, v |-> v, n |-> n]
StandardRequests ==
  {"GetStatus", "ClearFeature", "SetFeature", "SetAddress", "GetDescriptor", "SetDescriptor",
   "GetConfiguration", "SetConfiguration", "GetInterface", "SetInterface", "SynchFrame"}
ClassRequests == {"SetLineEncoding", "GetLineEncoding", "SetLineState", "SendBreak"}
ToHost == {"GetStatus", "GetDescriptor", "GetConfiguration", "GetInterface", "SynchFrame",
           "GetLineEncoding", "Notification"}

\* Notification_SerialState_t, as a request.
Notification == Req("Notification", 0, 2)

\* What the bytes of `area' are as a setup packet: a notification begins
\* like a class request 0x20 towards the host, the two bytes written for a
\* string there is not like a SetFeature.
AsSetup(a) == CASE a[1] = "setup" -> a[2]
                [] a[1] = "note"  -> Notification
                [] a[1] = "descriptor" -> Req("SetFeature", 0, 0)
AsLine(a) == IF a[1] = "data" THEN a[2] ELSE "garbage"

-----------------------------------------------------------------------------
\* cb_clear_state.
Cleared == [CONFIG |-> 0, BREAKCNT |-> 0, bBreak |-> FALSE, T1200 |-> TRUE,
            LineEncoding |-> "9600", bLineState |-> FALSE]

InitDevice ==
  /\ attached = FALSE /\ addr = 0 /\ flags = {} /\ seen = {} /\ sflag = FALSE /\ trn = 0
  /\ ep0 = [setup |-> FALSE, onak |-> TRUE, inak |-> TRUE, stall |-> FALSE, cnt |-> 0]
  /\ intr = [nak |-> TRUE, cnt |-> 0] /\ eps = {}
  /\ area = <<"small", 0>> /\ rq = Req("GetStatus", 0, 0) /\ st = Cleared /\ pc = "off"

ep_setup_clear ==
  /\ addr' = 0 /\ trn' = 0
  /\ ep0' = [setup |-> FALSE, onak |-> FALSE, inak |-> TRUE, stall |-> FALSE, cnt |-> ep0.cnt]

ClearNothing == UNCHANGED st                      \* mutant: the state stays
cb_clear_state == st' = Cleared
bus_reset == ep_setup_clear /\ cb_clear_state /\ attached' = TRUE

\* The operations of endpoint 0, on its value e.
InUnheard(e) == e                                 \* mutant: BUSNAK is left set
in_listen(e)  == [e EXCEPT !.inak = FALSE, !.stall = FALSE]
out_listen(e) == [e EXCEPT !.onak = FALSE, !.setup = FALSE]
stalled(e)    == [e EXCEPT !.stall = TRUE]

\* The end of a request: what is answered, or that it is refused.
Accept(n) == /\ ep0' = out_listen(in_listen([ep0 EXCEPT !.cnt = n]))
             /\ sflag' = FALSE /\ pc' = "complete"
Refuse    == ep0' = stalled(ep0) /\ sflag' = FALSE /\ pc' = "complete"

\* ep_interrupt_send, and the notification that send_serialstate writes.
Send(n)   == intr' = [nak |-> FALSE, cnt |-> n]
Notify(b) == area' = <<"note", b>> /\ Send(10)

-----------------------------------------------------------------------------
(* start, from the program; and handling_bus_events, which reads the       *)
(* flags, and then clears those that are set with every one it served.     *)
start ==
  /\ pc = "off" /\ bus_reset /\ pc' = "main"
  /\ UNCHANGED <<flags, seen, sflag, intr, eps, area, rq>>

\* set_use1200touch(FALSE), from the program.
NoTouch ==
  /\ pc = "main" /\ st.T1200 /\ st' = [st EXCEPT !.T1200 = FALSE]
  /\ UNCHANGED <<usb0, ep, pc>>

BusEvent ==
  /\ pc = "main" /\ flags # {} /\ seen' = flags /\ pc' = "bus"
  /\ UNCHANGED <<attached, addr, flags, sflag, trn, ep, st>>

BusHandled ==
  /\ pc = "bus" /\ flags' = {} /\ seen' = {} /\ pc' = "main"
  /\ IF seen \cap {"RESUME", "RESET"} # {} THEN bus_reset
     ELSE UNCHANGED <<attached, addr, trn, ep0, st>>
  /\ UNCHANGED <<sflag, intr, eps, area, rq>>

-----------------------------------------------------------------------------
(* handling_transaction_events.                                            *)

\* A request with data from the host may have them at once.
Transaction ==
  /\ pc = "main" /\ (sflag \/ trn > 0)
  /\ IF ep0.setup
       THEN /\ rq' = AsSetup(area) /\ pc' = "serve"
            /\ ep0' = IF rq'.q \in ToHost THEN ep0 ELSE out_listen(ep0)
       ELSE pc' = "complete" /\ UNCHANGED <<rq, ep0>>
  /\ UNCHANGED <<usb0, intr, eps, area, st>>

Serving(q) == pc = "serve" /\ rq.q = q

\* request_standard.
GetDescriptor ==
  /\ Serving("GetDescriptor") /\ area' = <<"descriptor", rq.v>>
  /\ LET size == Len(cb_get_descriptor_data(rq.v))
     IN  IF size = 0 THEN Refuse ELSE Accept(IF size > rq.n THEN rq.n ELSE size)
  /\ UNCHANGED <<attached, addr, flags, seen, trn, intr, eps, rq, st>>

\* GetStatus, GetConfiguration, GetInterface, SynchFrame.
Answers == [GetStatus |-> 2, GetConfiguration |-> 1, GetInterface |-> 1, SynchFrame |-> 2]
GetSmall ==
  /\ pc = "serve" /\ rq.q \in DOMAIN Answers
  /\ area' = <<"small", IF rq.q = "GetConfiguration" THEN st.CONFIG ELSE 0>>
  /\ Accept(Answers[rq.q])
  /\ UNCHANGED <<attached, addr, flags, seen, trn, intr, eps, rq, st>>

\* The callbacks answer: cb_clear_feature and cb_set_feature TRUE, and
\* cb_set_interface and those for the other requests FALSE.
Served(q) == q \in (StandardRequests \ {"SetDescriptor"}) \cup ClassRequests \cup {"Notification"}
SetSmall ==
  /\ pc = "serve" /\ (rq.q \in {"ClearFeature", "SetFeature", "SetInterface"} \/ ~ Served(rq.q))
  /\ IF rq.q \in {"ClearFeature", "SetFeature"} THEN Accept(ep0.cnt) ELSE Refuse
  /\ UNCHANGED <<attached, addr, flags, seen, trn, intr, eps, area, rq, st>>

\* The status stage is waited for, and only then the address taken.
SetAddress ==
  /\ Serving("SetAddress") /\ ep0' = in_listen([ep0 EXCEPT !.cnt = 0]) /\ pc' = "addressing"
  /\ UNCHANGED <<usb0, intr, eps, area, rq, st>>

AtOnce   == TRUE                                  \* mutant: the status stage is not waited for
Answered == ep0.inak
Addressed ==
  /\ pc = "addressing" /\ Answered
  /\ addr' = AsSetup(area).v % 128 /\ Accept(0)
  /\ UNCHANGED <<attached, flags, seen, trn, intr, eps, area, rq, st>>

\* EPFIFO as the address and size in an endpoint descriptor.
EpAddress(fifo) == fifo \div 16 + IF fifo % 16 = 8 THEN EpIn ELSE 0
Opened == {<<EpAddress(24), IntrSize>>, <<EpAddress(32), DataSize>>, <<EpAddress(40), DataSize>>}

\* cb_set_configuration: the notification endpoint is new, and not waited for.
SetConfiguration ==
  /\ Serving("SetConfiguration") /\ st' = [st EXCEPT !.CONFIG = rq.v]
  /\ IF rq.v # 0 THEN eps' = Opened /\ Notify(st.bBreak) /\ Accept(0)
                 ELSE UNCHANGED <<eps, area, intr>> /\ Refuse
  /\ UNCHANGED <<attached, addr, flags, seen, trn, rq>>

-----------------------------------------------------------------------------
(* cb_request_class.                                                       *)

\* 1200 bps is the request to leave: stop, and a reset of the chip.
stop   == attached' = FALSE /\ st' = Cleared
reboot == addr' = 0 /\ flags' = {} /\ sflag' = FALSE /\ trn' = 0 /\ pc' = "off"

\* The data are waited for.
SetLineEncoding ==
  /\ pc = "serve" /\ rq.q \in {"SetLineEncoding", "Notification"} /\ ep0.onak
  /\ IF AsLine(area) = "1200" /\ st.T1200
       THEN stop /\ reboot /\ UNCHANGED <<ep0, seen>>
       ELSE st' = [st EXCEPT !.LineEncoding = AsLine(area)] /\ Accept(0)
            /\ UNCHANGED <<attached, addr, flags, seen, trn>>
  /\ UNCHANGED <<intr, eps, area, rq>>

GetLineEncoding ==
  /\ Serving("GetLineEncoding") /\ area' = <<"line", st.LineEncoding>> /\ Accept(7)
  /\ UNCHANGED <<attached, addr, flags, seen, trn, intr, eps, rq, st>>

SetLineState ==
  /\ Serving("SetLineState") /\ st' = [st EXCEPT !.bLineState = rq.v = 1] /\ Accept(0)
  /\ UNCHANGED <<attached, addr, flags, seen, trn, intr, eps, area, rq>>

\* SendBreak, up to where send_serialstate waits for the notification
\* endpoint; and from there.
SendBreak ==
  /\ Serving("SendBreak") /\ st' = [st EXCEPT !.BREAKCNT = rq.v, !.bBreak = rq.v > 0]
  /\ pc' = "breaking"
  /\ UNCHANGED <<usb0, ep>>

BreakTold ==
  /\ pc = "breaking" /\ intr.nak /\ Notify(st.bBreak) /\ Accept(0)
  /\ UNCHANGED <<attached, addr, flags, seen, trn, eps, rq, st>>

-----------------------------------------------------------------------------
(* The transactions that are complete: those of the notification endpoint. *)
Complete ==
  /\ pc = "complete"
  /\ IF trn = 0 THEN pc' = "main" /\ UNCHANGED trn ELSE pc' = "counting" /\ trn' = trn - 1
  /\ UNCHANGED <<attached, addr, flags, seen, sflag, ep, st>>

\* cb_endpoint_complete, once the endpoint is not armed.
CountDown(n)  == n - IF n < IntrInterval THEN n ELSE IntrInterval

SendNothing == UNCHANGED intr                     \* mutant: the next poll is not prepared
SendEmpty   == Send(0)
Counting ==
  /\ pc = "counting" /\ intr.nak /\ pc' = "complete"
  /\ CASE st.BREAKCNT \notin {0, Forever} ->
            st' = [st EXCEPT !.BREAKCNT = CountDown(@)] /\ SendEmpty /\ UNCHANGED area
       [] st.BREAKCNT = 0 /\ st.bBreak ->
            st' = [st EXCEPT !.bBreak = FALSE] /\ Notify(FALSE)
       [] OTHER -> UNCHANGED <<st, intr, area>>
  /\ UNCHANGED <<usb0, ep0, eps, rq>>

Device == \/ start \/ BusEvent \/ BusHandled \/ Transaction
          \/ GetDescriptor \/ GetSmall \/ SetSmall \/ SetAddress \/ Addressed \/ SetConfiguration
          \/ SetLineEncoding \/ GetLineEncoding \/ SetLineState \/ SendBreak \/ BreakTold
          \/ Complete \/ Counting

\* A handler waits for what only the host can do.
Stuck == \/ pc = "addressing" /\ ~ep0.inak
         \/ pc = "serve" /\ rq.q \in {"SetLineEncoding", "Notification"} /\ ~ep0.onak
         \/ pc \in {"breaking", "counting"} /\ ~intr.nak
Idle  == pc = "main" /\ flags = {} /\ ~sflag /\ trn = 0
=============================================================================
