------------------------------ MODULE UsbHost -------------------------------
(***************************************************************************)
(* CDCControl and the host it is attached to: the USB controller's answer  *)
(* to each packet, the enumeration, the class requests of an open port,    *)
(* and the polls of the notification endpoint.  The host resets a device   *)
(* that does not answer and begins again; it may also reset, suspend or    *)
(* resume it at any time.                                                  *)
(***************************************************************************)
EXTENDS CDCControl

CONSTANTS
  Requests,      \* what an open port asks of the device
  MaxRequests,   \* bound: so many of them
  MaxEvents      \* bound: resets and suspensions that nothing called for

\* Address and configuration are given by the enumeration only.
ASSUME RequestsAssumption == \A r \in Requests : r.q \notin {"SetAddress", "SetConfiguration"}

VARIABLES
  stage,         \* of the enumeration
  ht, hreq,      \* the control transfer: its next packet, and its request
  total, parsed, \* what the host read: wTotalLength, the endpoints
  asleep,        \* the bus is suspended
  asked, events  \* counters of the bounds

hostVars == <<stage, ht, hreq, total, parsed, asleep, asked, events>>
vars == <<devVars, hostVars>>

Init ==
  /\ InitDevice
  /\ stage = "gone" /\ ht = "idle" /\ hreq = Req("GetStatus", 0, 0)
  /\ total = 0 /\ parsed = {} /\ asleep = FALSE /\ asked = 0 /\ events = 0

-----------------------------------------------------------------------------
(* The enumeration.                                                        *)
Order == <<"device", "address", "header", "whole", "configure", "run">>
After(s) == Order[1 + CHOOSE k \in 1 .. 5 : Order[k] = s]

Asks == [device    |-> Req("GetDescriptor", DeviceValue, 64),
         address   |-> Req("SetAddress", 1, 0),
         header    |-> Req("GetDescriptor", ConfigValue, 9),
         whole     |-> Req("GetDescriptor", ConfigValue, total),
         configure |-> Req("SetConfiguration", 1, 0)]

\* The address the host uses, and whether the device has it.
HostAddr == IF stage \in {"device", "address"} THEN 0 ELSE 1
Heard    == attached /\ addr = HostAddr

\* A reset, a resume and a SetAddress are given the time a handler needs.
Recovered == \/ Stuck
             \/ flags = {} /\ pc # "bus" /\ (stage = "header" => Idle)

\* The first packet after SETUP: data from the host, data to it, or none.
First(r) == IF r.q \in ToHost THEN "in" ELSE IF r.q = "SetLineEncoding" THEN "out" ELSE "ack"

\* A setup packet is always taken, whatever the endpoint waits for.
Setup(r) ==
  /\ ht = "idle" /\ ~asleep /\ Recovered /\ hreq' = r
  /\ IF Heard
       THEN /\ ep0' = [ep0 EXCEPT !.setup = TRUE, !.onak = TRUE, !.inak = TRUE, !.stall = FALSE]
            /\ area' = <<"setup", r>> /\ sflag' = TRUE /\ ht' = First(r)
       ELSE ht' = "lost" /\ UNCHANGED <<ep0, area, sflag>>
  /\ UNCHANGED <<attached, addr, flags, seen, trn, intr, eps, rq, st, pc>>
  /\ UNCHANGED <<stage, total, parsed, asleep, events>>

Enumerate == stage \in DOMAIN Asks /\ Setup(Asks[stage]) /\ UNCHANGED asked
Ask(r)    == stage = "run" /\ asked < MaxRequests /\ Setup(r) /\ asked' = asked + 1

-----------------------------------------------------------------------------
(* The packets of a transfer.                                              *)
Bus == ~asleep /\ Heard
Untouched == UNCHANGED <<usb0, intr, eps, rq, st, pc>> /\ UNCHANGED <<hreq, asleep, asked, events>>

\* What the host makes of what it read.
Read == IF area[1] = "descriptor"
        THEN SubSeq(cb_get_descriptor_data(area[2]), 1, ep0.cnt) ELSE <<>>
Usable(b) == stage = "whole" => Len(b) = total /\ Sound

DataOut ==
  /\ Bus /\ ht = "out" /\ ~ep0.onak
  /\ area' = <<"data", hreq.v>> /\ ep0' = [ep0 EXCEPT !.onak = TRUE] /\ ht' = "ack"
  /\ Untouched /\ UNCHANGED <<stage, total, parsed>>

DataIn ==
  /\ Bus /\ ht = "in" /\ ~ep0.stall /\ ~ep0.inak
  /\ ep0' = [ep0 EXCEPT !.inak = TRUE]
  /\ ht' = IF Usable(Read) THEN "end" ELSE "failed"
  /\ total' = IF stage = "header" THEN TotalLength(Read) ELSE total
  /\ parsed' = IF stage = "whole" THEN Known ELSE parsed
  /\ Untouched /\ UNCHANGED <<area, stage>>

\* The status stage, and with it the request's end.
Status ==
  /\ Bus
  /\ \/ ht = "end" /\ ~ep0.onak /\ ep0' = [ep0 EXCEPT !.onak = TRUE]
     \/ ht = "ack" /\ ~ep0.stall /\ ~ep0.inak /\ ep0' = [ep0 EXCEPT !.inak = TRUE]
  /\ ht' = "idle" /\ stage' = IF stage = "run" THEN "run" ELSE After(stage)
  /\ Untouched /\ UNCHANGED <<area, total, parsed>>

\* A refused request: an open port lives with it, an enumeration does not.
Refused ==
  /\ Bus /\ ep0.stall /\ ht \in {"out", "in", "ack"}
  /\ ht' = IF stage = "run" THEN "idle" ELSE "failed"
  /\ Untouched /\ UNCHANGED <<ep0, area, stage, total, parsed>>

\* The notification endpoint is polled while the port is open.
Poll ==
  /\ Bus /\ stage = "run" /\ ~intr.nak
  /\ intr' = [intr EXCEPT !.nak = TRUE] /\ trn' = trn + 1
  /\ UNCHANGED <<attached, addr, flags, seen, sflag, ep0, eps, area, rq, st, pc, hostVars>>

-----------------------------------------------------------------------------
(* What happens to the bus.                                                *)
Signal(f) == flags' = flags \cup {f}
Wired == UNCHANGED <<attached, addr, seen, sflag, trn, ep, st, pc, hreq, total, asked>>

ResetBus == /\ attached /\ pc # "off" /\ Signal("RESET")
            /\ stage' = "device" /\ ht' = "idle" /\ parsed' = {} /\ asleep' = FALSE /\ Wired
AnyReset == events < MaxEvents /\ events' = events + 1 /\ ResetBus

Suspend == /\ events < MaxEvents /\ attached /\ ~asleep /\ Signal("SUSPEND")
           /\ events' = events + 1 /\ asleep' = TRUE /\ Wired /\ UNCHANGED <<stage, ht, parsed>>
Resume  == /\ asleep /\ attached /\ Signal("RESUME") /\ asleep' = FALSE /\ Wired
           /\ UNCHANGED <<stage, ht, parsed, events>>

\* The SETUP flag without a setup packet: the handler is called again and again.
Storm == sflag /\ ~ep0.setup /\ flags = {} /\ trn = 0 /\ pc \in {"main", "complete"}

\* The device has been silent for longer than any handler takes: it did not
\* answer a request, or the polls of an open port.
CanMove == \/ ht \in {"out", "end"} /\ ~ep0.onak
           \/ ht \in {"in", "ack"} /\ ~ep0.inak
           \/ ht # "end" /\ ep0.stall
Silent == \/ ht \in {"lost", "failed"}
          \/ stage = "run" /\ Idle /\ ~Heard
          \/ ht # "idle" /\ (Idle \/ Stuck \/ Storm) /\ ~(Heard /\ CanMove)
GiveUp == ~asleep /\ Silent /\ ~(stage = "run" /\ Heard /\ ~intr.nak) /\ ResetBus /\ UNCHANGED events

\* A device that is detached is forgotten, and one that is attached is reset.
Forget == /\ ~attached /\ stage # "gone" /\ stage' = "gone" /\ ht' = "idle" /\ parsed' = {}
          /\ asleep' = FALSE /\ UNCHANGED <<devVars, hreq, total, asked, events>>
Meet   == stage = "gone" /\ ResetBus /\ UNCHANGED events

Host == Enumerate \/ DataOut \/ DataIn \/ Status \/ Refused \/ Poll \/ Resume \/ GiveUp \/ Forget \/ Meet

-----------------------------------------------------------------------------
Dev == Device /\ (pc = "off" => stage = "gone") /\ UNCHANGED hostVars
SwitchOff == NoTouch /\ UNCHANGED hostVars
Next == Dev \/ SwitchOff \/ Host \/ AnyReset \/ Suspend \/ \E r \in Requests : Ask(r)
Spec == Init /\ [][Next]_vars

\* Handlers run, and the host goes on with what it began; nothing makes a
\* port ask, and nothing makes the bus reset or sleep.
NoticeBus == BusEvent /\ UNCHANGED hostVars
Fairness == WF_vars(Dev) /\ SF_vars(NoticeBus) /\ WF_vars(Host) /\ WF_vars(Poll)
FairSpec == Spec /\ Fairness

-----------------------------------------------------------------------------
(* Properties.                                                             *)

\* The device takes its address (control.cpp, SetAddress) only when the
\* status stage of the request is over: the host hears that at address 0.
StatusFirst == [][addr' = 1 /\ addr = 0 => ht # "ack"]_vars

\* The device goes through the states of the USB specification: address,
\* configuration and attachment change together (bus_reset, stop, start).
State == IF ~attached THEN "off"
         ELSE CASE addr = 0 /\ st.CONFIG = 0 -> "default"
                [] addr = 1 /\ st.CONFIG = 0 -> "address"
                [] addr = 1 /\ st.CONFIG = 1 -> "configured"
                [] OTHER -> "none"
U == INSTANCE USBDevice WITH state <- State
Lawful == U!Spec
=============================================================================
