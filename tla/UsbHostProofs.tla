---------------------------- MODULE UsbHostProofs ----------------------------
(***************************************************************************)
(* Proof, for any requests of an open port, any number of them and of      *)
(* resets and suspensions between any two steps, that the device goes      *)
(* through the states of the USB specification and takes its address only  *)
(* after the status stage.                                                 *)
(***************************************************************************)
EXTENDS UsbHost, TLAPS

\* The device has a setup packet that it has not looked at, in its memory.
Unserved(q) == attached /\ ep0.setup /\ area[1] = "setup" /\ area[2].q = q

\* The handler is about to wait, or waits, for the status stage of SetAddress.
Addressing == (pc = "serve" /\ rq.q = "SetAddress") \/ pc = "addressing"

Types ==
  /\ attached \in BOOLEAN /\ addr \in {0, 1} /\ st.CONFIG \in {0, 1}
  /\ DOMAIN st = DOMAIN Cleared
  /\ DOMAIN ep0 = {"setup", "onak", "inak", "stall", "cnt"}
  /\ ep0.setup \in BOOLEAN /\ ep0.onak \in BOOLEAN /\ ep0.inak \in BOOLEAN
  /\ stage \in {"gone", "device", "address", "header", "whole", "configure", "run"}

\* The device is off when it is detached, and configured only at its address.
Attached ==
  /\ attached <=> pc # "off"
  /\ addr = 0 => st.CONFIG = 0
  /\ stage = "gone" => ht = "idle"

\* A setup packet not looked at is there, or what came to lie over it.
Setups ==
  /\ attached /\ ep0.setup => ep0.onak /\ area[1] \in {"setup", "note", "descriptor"}
  /\ ht = "out" => stage = "run"
  /\ stage = "device" => ht # "ack"

\* A configuration is asked for at the address only.
Configuring ==
  /\ Unserved("SetConfiguration") => addr = 1 /\ area[2].v = 1
  /\ pc = "serve" /\ rq.q = "SetConfiguration" => addr = 1 /\ rq.v = 1

\* An address is asked for at address 0.  While the device is at it, the host
\* does not come to ask for it again: it has to begin with the device descriptor,
\* and that is answered after the address is taken.
Asked ==
  /\ Unserved("SetAddress") =>
       /\ addr = 0 /\ area[2].v = 1 /\ ep0.inak
       /\ \/ stage = "address" /\ ht \in {"ack", "failed"}
          \/ stage = "device" /\ ht = "idle"
  /\ Addressing =>
       /\ addr = 0 /\ area[1] = "setup" /\ area[2].v \in {1, DeviceValue}
       /\ ~(stage = "address" /\ ht = "idle")
       /\ stage = "device" /\ ht \in {"in", "end"} => ep0.onak
       /\ ~Unserved("SetAddress")
  /\ pc = "addressing" /\ ht = "ack" => ~ep0.inak

IInv == Types /\ Attached /\ Setups /\ Configuring /\ Asked

-----------------------------------------------------------------------------
(* What the steps are made of.                                             *)

LEMMA Constants ==
  /\ DOMAIN Cleared = {"CONFIG", "BREAKCNT", "bBreak", "T1200", "LineEncoding", "bLineState"}
  /\ Cleared.CONFIG = 0 /\ DeviceValue = 256 /\ ConfigValue = 512
  BY DEF Cleared, DeviceValue, ConfigValue, DTYPE

\* What each stage of the enumeration is followed by.
LEMMA Stages ==
  /\ After("device") = "address" /\ After("address") = "header" /\ After("header") = "whole"
  /\ After("whole") = "configure" /\ After("configure") = "run"
  <1>1. \A k \in 1 .. 5 : k = 1 \/ k = 2 \/ k = 3 \/ k = 4 \/ k = 5
    OBVIOUS
  <1>2. Order[1] = "device" /\ Order[2] = "address" /\ Order[3] = "header" /\ Order[4] = "whole"
        /\ Order[5] = "configure" /\ Order[6] = "run"
    BY DEF Order
  <1>3. ASSUME NEW n \in 1 .. 5
        PROVE  (CHOOSE k \in 1 .. 5 : Order[k] = Order[n]) = n
    <2>1. \A k \in 1 .. 5 : Order[k] = Order[n] => k = n
      BY <1>1, <1>2
    <2>2. QED
      BY <2>1
  <1>4. \A n \in 1 .. 5 : After(Order[n]) = Order[1 + n]
    BY <1>3 DEF After
  <1>5. QED
    BY <1>2, <1>4

LEMMA Listening ==
  ASSUME NEW e, DOMAIN e = {"setup", "onak", "inak", "stall", "cnt"}, NEW n
  PROVE  LET f == out_listen(in_listen([e EXCEPT !.cnt = n]))
             g == in_listen([e EXCEPT !.cnt = n])
             h == out_listen(e)
             i == stalled(e)
         IN  /\ DOMAIN f = DOMAIN e /\ f.setup = FALSE /\ f.onak = FALSE /\ f.inak = FALSE
             /\ DOMAIN g = DOMAIN e /\ g.setup = e.setup /\ g.onak = e.onak /\ g.inak = FALSE
             /\ DOMAIN h = DOMAIN e /\ h.setup = FALSE /\ h.onak = FALSE /\ h.inak = e.inak
             /\ DOMAIN i = DOMAIN e /\ i.setup = e.setup /\ i.onak = e.onak /\ i.inak = e.inak
  BY DEF out_listen, in_listen, stalled

\* A request that ends with an answer, whatever its memory holds.
LEMMA Accepting ==
  ASSUME IInv, attached, NEW n, Accept(n), attached' = attached, UNCHANGED hostVars,
         addr' \in {0, 1}, st'.CONFIG \in {0, 1}, DOMAIN st' = DOMAIN st, addr' = 0 => st'.CONFIG = 0
  PROVE  IInv'
  <1>1. DOMAIN ep0' = DOMAIN ep0 /\ ep0'.setup = FALSE /\ ep0'.onak = FALSE /\ ep0'.inak = FALSE /\ pc' = "complete"
    BY Listening DEF Accept, IInv, Types
  <1>2. Types'
    BY <1>1 DEF IInv, Types, hostVars
  <1>3. Attached'
    BY <1>1 DEF IInv, Attached, hostVars
  <1>4. Setups'
    BY <1>1 DEF IInv, Setups, hostVars
  <1>5. Configuring' /\ Asked'
    BY <1>1 DEF Configuring, Asked, Unserved, Addressing
  <1>6. QED
    BY <1>2, <1>3, <1>4, <1>5 DEF IInv

\* One that is refused: its setup packet is over, or a descriptor lies there.
LEMMA Refusing ==
  ASSUME IInv, attached, Refuse, UNCHANGED <<attached, addr, st, hostVars>>,
         area' = area \/ area'[1] = "descriptor"
  PROVE  IInv'
  <1>1. /\ DOMAIN ep0' = DOMAIN ep0 /\ ep0'.setup = ep0.setup /\ ep0'.onak = ep0.onak /\ ep0'.inak = ep0.inak
        /\ pc' = "complete"
    BY Listening DEF Refuse, IInv, Types
  <1>2. Types'
    BY <1>1 DEF IInv, Types, hostVars
  <1>3. Attached'
    BY <1>1 DEF IInv, Attached, hostVars
  <1>4. Setups'
    BY <1>1 DEF IInv, Setups, hostVars
  <1>5. Configuring' /\ Asked'
    BY <1>1 DEF IInv, Configuring, Asked, Unserved, Addressing, hostVars
  <1>6. QED
    BY <1>2, <1>3, <1>4, <1>5 DEF IInv

\* A step of the handler that no request, address or answer is about.
LEMMA Elsewhere ==
  ASSUME IInv, UNCHANGED <<attached, addr, ep0, hostVars>>, st'.CONFIG = st.CONFIG, DOMAIN st' = DOMAIN st,
         area' = area \/ (area'[1] = "note" /\ ~Addressing), pc' # "serve", pc' # "addressing", pc # "off", pc' # "off"
  PROVE  IInv'
  <1>1. Types'
    BY DEF IInv, Types, hostVars
  <1>2. Attached'
    BY DEF IInv, Attached, hostVars
  <1>3. Setups'
    BY DEF IInv, Setups, hostVars
  <1>4. Configuring' /\ Asked'
    BY DEF IInv, Configuring, Asked, Unserved, Addressing, hostVars
  <1>5. QED
    BY <1>1, <1>2, <1>3, <1>4 DEF IInv

\* The device as it is after a bus reset.
LEMMA BusReset ==
  ASSUME IInv, bus_reset, pc' \notin {"off", "serve", "addressing"}, UNCHANGED hostVars
  PROVE  IInv'
  <1>1. /\ attached' = TRUE /\ addr' = 0 /\ st' = Cleared
        /\ DOMAIN ep0' = {"setup", "onak", "inak", "stall", "cnt"}
        /\ ep0'.setup = FALSE /\ ep0'.onak = FALSE /\ ep0'.inak = TRUE
    BY DEF bus_reset, ep_setup_clear, cb_clear_state
  <1>2. Types'
    BY <1>1, Constants DEF IInv, Types, hostVars
  <1>3. Attached'
    BY <1>1, Constants DEF IInv, Attached, hostVars
  <1>4. Setups' /\ Configuring' /\ Asked'
    BY <1>1 DEF IInv, Setups, Configuring, Asked, Unserved, Addressing, hostVars
  <1>5. QED
    BY <1>2, <1>3, <1>4 DEF IInv

-----------------------------------------------------------------------------
(* The steps of the device, and the step of USBDevice that each is.        *)

Step ==
  /\ [U!Next]_State
  /\ addr' = 1 /\ addr = 0 => ht # "ack"

LEMMA SameState ==
  ASSUME UNCHANGED <<attached, addr>>, st'.CONFIG = st.CONFIG
  PROVE  Step
  BY DEF Step, State

LEMMA Resets ==
  ASSUME IInv, attached', addr' = 0, st'.CONFIG = 0
  PROVE  Step
  BY DEF Step, State, U!Next, U!Reset

LEMMA BusSteps ==
  ASSUME IInv, start \/ NoTouch \/ BusEvent \/ BusHandled, UNCHANGED hostVars
  PROVE  IInv' /\ Step
  <1>1. CASE start
    <2>1. bus_reset /\ pc' = "main"
      BY <1>1 DEF start
    <2>2. attached' /\ addr' = 0 /\ st'.CONFIG = 0
      BY <2>1, Constants DEF bus_reset, ep_setup_clear, cb_clear_state
    <2>3. QED
      BY <2>1, <2>2, BusReset, Resets
  <1>2. CASE NoTouch
    <2>1. /\ UNCHANGED <<attached, addr, ep0, area, pc>> /\ pc = "main"
          /\ st'.CONFIG = st.CONFIG /\ DOMAIN st' = DOMAIN st
      BY <1>2, Constants DEF NoTouch, usb0, ep, IInv, Types
    <2>2. QED
      BY <2>1, Elsewhere, SameState
  <1>3. CASE BusEvent
    <2>1. UNCHANGED <<attached, addr, ep0, area, st>> /\ pc = "main" /\ pc' = "bus"
      BY <1>3 DEF BusEvent, ep
    <2>2. QED
      BY <2>1, Elsewhere, SameState
  <1>4. CASE BusHandled
    <2>1. pc = "bus" /\ pc' = "main" /\ area' = area
      BY <1>4 DEF BusHandled
    <2>2. CASE bus_reset
      <3>1. attached' /\ addr' = 0 /\ st'.CONFIG = 0
        BY <2>2, Constants DEF bus_reset, ep_setup_clear, cb_clear_state
      <3>2. QED
        BY <2>1, <2>2, <3>1, BusReset, Resets
    <2>3. CASE UNCHANGED <<attached, addr, trn, ep0, st>>
      BY <2>1, <2>3, Elsewhere, SameState
    <2>4. QED
      BY <1>4, <2>2, <2>3 DEF BusHandled
  <1>5. QED
    BY <1>1, <1>2, <1>3, <1>4

\* The setup packet is taken for what its memory says.
LEMMA Transacted ==
  ASSUME IInv, Transaction, UNCHANGED hostVars
  PROVE  IInv' /\ Step
  <1>1. pc = "main" /\ UNCHANGED <<attached, addr, st, area, sflag, trn, flags>> /\ attached
    BY DEF Transaction, usb0, IInv, Attached
  <1>2. CASE ~ep0.setup
    <2>1. pc' = "complete" /\ ep0' = ep0
      BY <1>2 DEF Transaction
    <2>2. QED
      BY <1>1, <2>1, Elsewhere, SameState
  <1>3. CASE ep0.setup
    <2>1. rq' = AsSetup(area) /\ pc' = "serve" /\ ep0' = IF rq'.q \in ToHost THEN ep0 ELSE out_listen(ep0)
      BY <1>3 DEF Transaction
    <2>2. area[1] \in {"setup", "note", "descriptor"}
      BY <1>1, <1>3 DEF IInv, Setups
    <2>3. \/ area[1] = "setup" /\ rq' = area[2]
          \/ area[1] # "setup" /\ rq'.q \in {"SetFeature", "Notification"}
      BY <2>1, <2>2 DEF AsSetup, Notification, Req
    <2>4. /\ DOMAIN ep0' = DOMAIN ep0 /\ ep0'.inak = ep0.inak
          /\ ep0'.setup \in {FALSE, ep0.setup} /\ ep0'.onak \in {FALSE, ep0.onak}
          /\ ep0'.setup => ep0'.onak
          /\ rq'.q = "SetAddress" => ep0'.setup = FALSE
      <3>1. LET h == out_listen(ep0)
            IN  DOMAIN h = DOMAIN ep0 /\ h.setup = FALSE /\ h.onak = FALSE /\ h.inak = ep0.inak
        BY DEF out_listen, IInv, Types
      <3>2. attached /\ ep0.setup => ep0.onak
        BY DEF IInv, Setups
      <3>3. "SetAddress" \notin ToHost
        BY DEF ToHost
      <3>4. CASE rq'.q \in ToHost
        BY <1>1, <2>1, <3>2, <3>3, <3>4
      <3>5. CASE rq'.q \notin ToHost
        BY <2>1, <3>1, <3>5
      <3>6. QED
        BY <3>4, <3>5
    <2>5. Types'
      BY <1>1, <2>4 DEF IInv, Types, hostVars
    <2>6. Attached'
      BY <1>1, <2>1 DEF IInv, Attached, hostVars
    <2>7. Setups'
      BY <1>1, <2>2, <2>4 DEF IInv, Setups, hostVars
    <2>8. Configuring'
      BY <1>1, <1>3, <2>1, <2>3, <2>4 DEF IInv, Configuring, Unserved
    <2>9. Asked'
      BY <1>1, <1>3, <2>1, <2>3, <2>4 DEF IInv, Asked, Unserved, Addressing, hostVars
    <2>10. Step
      BY <1>1, SameState
    <2>11. QED
      BY <2>5, <2>6, <2>7, <2>8, <2>9, <2>10 DEF IInv
  <1>4. QED
    BY <1>2, <1>3

\* The requests that leave address and configuration alone.
LEMMA Requested ==
  ASSUME IInv, UNCHANGED hostVars,
         GetDescriptor \/ GetSmall \/ SetSmall \/ GetLineEncoding \/ SetLineState \/ SendBreak \/ BreakTold
  PROVE  IInv' /\ Step
  <1>1. pc \in {"serve", "breaking"} /\ attached
    BY DEF GetDescriptor, GetSmall, SetSmall, GetLineEncoding, SetLineState, SendBreak, BreakTold, Serving, IInv, Attached
  <1>2. UNCHANGED <<attached, addr>>
    BY DEF GetDescriptor, GetSmall, SetSmall, GetLineEncoding, SetLineState, SendBreak, BreakTold, usb0
  <1>3. st'.CONFIG = st.CONFIG /\ DOMAIN st' = DOMAIN st
    BY Constants DEF GetDescriptor, GetSmall, SetSmall, GetLineEncoding, SetLineState, SendBreak, BreakTold, IInv, Types
  <1>4. addr' \in {0, 1} /\ st'.CONFIG \in {0, 1} /\ (addr' = 0 => st'.CONFIG = 0)
    BY <1>2, <1>3 DEF IInv, Types, Attached
  <1>5. CASE GetDescriptor
    <2>1. area'[1] = "descriptor" /\ st' = st
      BY <1>5 DEF GetDescriptor
    <2>2. Refuse \/ \E n \in {Len(cb_get_descriptor_data(rq.v)), rq.n} : Accept(n)
      BY <1>5 DEF GetDescriptor
    <2>3. CASE Refuse
      BY <1>1, <1>2, <2>1, <2>3, Refusing, <1>3, SameState
    <2>4. ASSUME NEW n, Accept(n)
          PROVE  IInv'
      BY <1>1, <1>2, <1>3, <1>4, <2>4, Accepting
    <2>5. QED
      BY <1>2, <1>3, <2>2, <2>3, <2>4, SameState
  <1>6. CASE GetSmall
    <2>1. Accept(Answers[rq.q])
      BY <1>6 DEF GetSmall
    <2>2. QED
      BY <1>1, <1>2, <1>3, <1>4, <2>1, Accepting, SameState
  <1>7. CASE SetSmall
    <2>1. UNCHANGED <<area, st>> /\ (Accept(ep0.cnt) \/ Refuse)
      BY <1>7 DEF SetSmall
    <2>2. QED
      BY <1>1, <1>2, <1>3, <1>4, <2>1, Accepting, Refusing, SameState
  <1>8. CASE GetLineEncoding
    <2>1. Accept(7)
      BY <1>8 DEF GetLineEncoding
    <2>2. QED
      BY <1>1, <1>2, <1>3, <1>4, <2>1, Accepting, SameState
  <1>9. CASE SetLineState
    <2>1. Accept(0)
      BY <1>9 DEF SetLineState
    <2>2. QED
      BY <1>1, <1>2, <1>3, <1>4, <2>1, Accepting, SameState
  <1>10. CASE SendBreak
    <2>1. UNCHANGED <<ep0, area>> /\ pc = "serve" /\ pc' = "breaking"
      BY <1>10 DEF SendBreak, Serving, ep
    <2>2. QED
      BY <1>2, <1>3, <2>1, Elsewhere, SameState
  <1>11. CASE BreakTold
    <2>1. Accept(0)
      BY <1>11 DEF BreakTold
    <2>2. QED
      BY <1>1, <1>2, <1>3, <1>4, <2>1, Accepting, SameState
  <1>12. QED
    BY <1>5, <1>6, <1>7, <1>8, <1>9, <1>10, <1>11

\* SetAddress waits, and then takes the address that lies in its memory: the
\* one asked for, or 0 where a reset came between and a request after it.
LEMMA Addresses ==
  ASSUME IInv, SetAddress \/ Addressed, UNCHANGED hostVars
  PROVE  IInv' /\ Step
  <1>1. Addressing /\ attached
    BY DEF SetAddress, Serving, Addressed, Addressing, IInv, Attached
  <1>2. addr = 0 /\ area[1] = "setup" /\ area[2].v \in {1, DeviceValue} /\ st.CONFIG = 0
    BY <1>1 DEF IInv, Asked, Attached
  <1>3. CASE SetAddress
    <2>1. /\ UNCHANGED <<attached, addr, area, rq, st>> /\ pc' = "addressing" /\ rq.q = "SetAddress"
          /\ ep0' = in_listen([ep0 EXCEPT !.cnt = 0])
      BY <1>3 DEF SetAddress, Serving, usb0
    <2>2. DOMAIN ep0' = DOMAIN ep0 /\ ep0'.setup = ep0.setup /\ ep0'.onak = ep0.onak /\ ep0'.inak = FALSE
      BY <2>1 DEF in_listen, IInv, Types
    <2>3. ~Unserved("SetAddress")
      BY <1>1 DEF IInv, Asked
    <2>4. Types'
      BY <2>1, <2>2 DEF IInv, Types, hostVars
    <2>5. Attached' /\ Setups'
      BY <1>1, <2>1, <2>2 DEF IInv, Attached, Setups, hostVars
    <2>6. Configuring'
      BY <2>1, <2>2 DEF IInv, Configuring, Unserved
    <2>7. Asked'
      BY <1>1, <1>2, <2>1, <2>2, <2>3 DEF IInv, Asked, Unserved, Addressing, hostVars
    <2>8. QED
      BY <2>1, <2>4, <2>5, <2>6, <2>7, SameState DEF IInv
  <1>4. CASE Addressed
    <2>1. /\ UNCHANGED <<attached, st>> /\ pc = "addressing" /\ ep0.inak
          /\ addr' = AsSetup(area).v % 128 /\ Accept(0)
      BY <1>4 DEF Addressed, Answered
    <2>2. addr' \in {0, 1}
      BY <1>2, <2>1, Constants DEF AsSetup
    <2>3. IInv'
      BY <1>1, <1>2, <2>1, <2>2, Accepting, Constants DEF IInv, Types
    <2>4. ht # "ack"
      BY <2>1 DEF IInv, Asked
    <2>5. [U!Next]_State
      BY <1>1, <1>2, <2>1, <2>2 DEF State, U!Next, U!Address
    <2>6. QED
      BY <2>3, <2>4, <2>5 DEF Step
  <1>5. QED
    BY <1>3, <1>4

LEMMA Configures ==
  ASSUME IInv, SetConfiguration, UNCHANGED hostVars
  PROVE  IInv' /\ Step
  <1>1. attached /\ addr = 1 /\ rq.v = 1 /\ UNCHANGED <<attached, addr>>
    BY DEF SetConfiguration, Serving, IInv, Attached, Configuring
  <1>2. st'.CONFIG = 1 /\ DOMAIN st' = DOMAIN st /\ Accept(0)
    BY <1>1, Constants DEF SetConfiguration, IInv, Types
  <1>3. IInv'
    BY <1>1, <1>2, Accepting
  <1>4. Step
    BY <1>1, <1>2 DEF Step, State, U!Next, U!Configure, IInv, Types
  <1>5. QED
    BY <1>3, <1>4

\* SetLineEncoding, which may end the device.
LEMMA LineEncoded ==
  ASSUME IInv, SetLineEncoding, UNCHANGED hostVars
  PROVE  IInv' /\ Step
  <1>1. attached /\ pc = "serve" /\ area' = area
    BY DEF SetLineEncoding, IInv, Attached
  <1>2. CASE stop /\ reboot /\ UNCHANGED <<ep0, seen>>
    <2>1. attached' = FALSE /\ st' = Cleared /\ addr' = 0 /\ pc' = "off" /\ ep0' = ep0
      BY <1>2 DEF stop, reboot
    <2>2. Types'
      BY <2>1, Constants DEF IInv, Types, hostVars
    <2>3. Attached' /\ Setups'
      BY <2>1, Constants DEF IInv, Attached, Setups, hostVars
    <2>4. Configuring' /\ Asked'
      BY <2>1 DEF Configuring, Asked, Unserved, Addressing
    <2>5. Step
      BY <2>1 DEF Step, State, U!Next, U!Detach
    <2>6. QED
      BY <2>2, <2>3, <2>4, <2>5 DEF IInv
  <1>3. CASE /\ st' = [st EXCEPT !.LineEncoding = AsLine(area)] /\ Accept(0)
             /\ UNCHANGED <<attached, addr, flags, seen, trn>>
    <2>1. st'.CONFIG = st.CONFIG /\ DOMAIN st' = DOMAIN st
      BY <1>3, Constants DEF IInv, Types
    <2>2. addr' \in {0, 1} /\ st'.CONFIG \in {0, 1} /\ (addr' = 0 => st'.CONFIG = 0)
      BY <1>3, <2>1 DEF IInv, Types, Attached
    <2>3. QED
      BY <1>1, <1>3, <2>1, <2>2, Accepting, SameState
  <1>4. QED
    BY <1>2, <1>3 DEF SetLineEncoding

LEMMA Completes ==
  ASSUME IInv, Complete \/ Counting, UNCHANGED hostVars
  PROVE  IInv' /\ Step
  <1>1. UNCHANGED <<attached, addr, ep0>> /\ pc \in {"complete", "counting"} /\ pc' \in {"main", "counting", "complete"}
    BY DEF Complete, Counting, usb0, ep
  <1>2. st'.CONFIG = st.CONFIG /\ DOMAIN st' = DOMAIN st /\ (area' = area \/ area'[1] = "note")
    <2>1. CASE Complete
      BY <2>1 DEF Complete, ep
    <2>2. CASE Counting
      <3>1. area' = area \/ area' = <<"note", FALSE>>
        BY <2>2 DEF Counting, SendEmpty, Send, Notify
      <3>2. st' \in {st, [st EXCEPT !.BREAKCNT = CountDown(@)], [st EXCEPT !.bBreak = FALSE]}
        BY <2>2 DEF Counting
      <3>3. st'.CONFIG = st.CONFIG /\ DOMAIN st' = DOMAIN st
        BY <3>2, Constants DEF IInv, Types
      <3>4. area' = area \/ area'[1] = "note"
        <4>1. \A b : <<"note", b>>[1] = "note"
          OBVIOUS
        <4>2. QED
          BY <3>1, <4>1, Zenon
      <3>5. QED
        BY <3>3, <3>4
    <2>3. QED
      BY <2>1, <2>2
  <1>3. ~Addressing
    BY <1>1 DEF Addressing
  <1>4. QED
    BY <1>1, <1>2, <1>3, Elsewhere, SameState

LEMMA DeviceSteps ==
  ASSUME IInv, Device, UNCHANGED hostVars
  PROVE  IInv' /\ Step
  BY BusSteps, Transacted, Requested, Addresses, Configures, LineEncoded, Completes DEF Device

-----------------------------------------------------------------------------
(* The steps of the host.                                                  *)

\* A setup packet: for the address at the stage of its own and at address 0,
\* for the configuration at the address.
LEMMA SetupTaken ==
  ASSUME IInv, NEW r, Setup(r), stage # "gone",
         \/ stage = "device" /\ r.q = "GetDescriptor" /\ r.v = DeviceValue
         \/ stage = "address" /\ r.q = "SetAddress" /\ r.v = 1
         \/ stage = "configure" /\ r.q = "SetConfiguration" /\ r.v = 1
         \/ stage \in {"header", "whole"} /\ r.q = "GetDescriptor"
         \/ stage = "run" /\ r.q \notin {"SetAddress", "SetConfiguration"}
  PROVE  IInv' /\ Step
  <1>1. ht = "idle" /\ stage' = stage /\ UNCHANGED <<attached, addr, rq, st, pc>>
    BY DEF Setup
  <1>2. Step
    BY <1>1, SameState
  <1>3. CASE ~Heard
    <2>1. ht' = "lost" /\ UNCHANGED <<ep0, area>>
      BY <1>3 DEF Setup
    <2>2. ~Unserved("SetAddress")
      <3>1. SUFFICES ASSUME Unserved("SetAddress") PROVE Heard
        BY <1>3
      <3>2. QED
        BY <1>1, <3>1 DEF IInv, Asked, Heard, HostAddr, Unserved
    <2>3. Types' /\ Attached' /\ Setups' /\ Configuring'
      BY <1>1, <2>1 DEF IInv, Types, Attached, Setups, Configuring, Unserved
    <2>4. Asked'
      BY <1>1, <2>1, <2>2 DEF IInv, Asked, Unserved, Addressing
    <2>5. QED
      BY <1>2, <2>3, <2>4 DEF IInv
  <1>4. CASE Heard
    <2>1. /\ ep0' = [ep0 EXCEPT !.setup = TRUE, !.onak = TRUE, !.inak = TRUE, !.stall = FALSE]
          /\ area' = <<"setup", r>> /\ ht' = First(r)
          /\ attached /\ (stage \in {"device", "address"} <=> addr = 0)
      BY <1>4 DEF Setup, Heard, HostAddr, IInv, Types
    <2>2. DOMAIN ep0' = DOMAIN ep0 /\ ep0'.setup = TRUE /\ ep0'.onak = TRUE /\ ep0'.inak = TRUE
      BY <2>1 DEF IInv, Types
    <2>3. area'[1] = "setup" /\ area'[2] = r
      BY <2>1
    <2>4. /\ ht' \in {"in", "out", "ack"} /\ (ht' = "out" => stage = "run")
          /\ stage = "device" => ht' = "in"
          /\ stage = "address" => ht' = "ack"
      BY <2>1 DEF First, ToHost
    <2>5. Types'
      BY <1>1, <2>2 DEF IInv, Types
    <2>6. Attached' /\ Setups'
      BY <1>1, <2>1, <2>2, <2>3, <2>4 DEF IInv, Attached, Setups
    <2>7. Configuring'
      BY <1>1, <2>1, <2>2, <2>3 DEF IInv, Types, Configuring, Unserved
    <2>8. Asked'
      <3>1. Unserved("SetAddress")' => stage = "address" /\ r.v = 1
        BY <2>1, <2>3, Constants DEF Unserved, IInv, Types
      <3>2. Addressing' = Addressing
        BY <1>1 DEF Addressing
      <3>3. Addressing => stage = "device" /\ r.v = DeviceValue /\ r.q # "SetAddress"
        BY <1>1, <2>1 DEF IInv, Asked
      <3>4. QED
        BY <1>1, <2>1, <2>2, <2>3, <2>4, <3>1, <3>2, <3>3 DEF IInv, Asked, Unserved, Addressing
    <2>9. QED
      BY <1>2, <2>5, <2>6, <2>7, <2>8 DEF IInv
  <1>5. QED
    BY <1>3, <1>4

LEMMA SetupSteps ==
  ASSUME IInv, Enumerate \/ \E r \in Requests : Ask(r)
  PROVE  IInv' /\ Step
  <1>1. CASE Enumerate
    <2>1. stage \in {"device", "address", "header", "whole", "configure"} /\ Setup(Asks[stage])
      BY <1>1 DEF Enumerate, Asks
    <2>2. /\ stage = "device" => Asks[stage] = Req("GetDescriptor", DeviceValue, 64)
          /\ stage = "address" => Asks[stage] = Req("SetAddress", 1, 0)
          /\ stage = "header" => Asks[stage] = Req("GetDescriptor", ConfigValue, 9)
          /\ stage = "whole" => Asks[stage] = Req("GetDescriptor", ConfigValue, total)
          /\ stage = "configure" => Asks[stage] = Req("SetConfiguration", 1, 0)
      BY DEF Asks
    <2>3. \A q, v, n : Req(q, v, n).q = q /\ Req(q, v, n).v = v
      BY DEF Req
    <2>4. QED
      BY <2>1, <2>2, <2>3, SetupTaken
  <1>2. ASSUME NEW r \in Requests, Ask(r)
        PROVE  IInv' /\ Step
    BY <1>2, SetupTaken, RequestsAssumption DEF Ask
  <1>3. QED
    BY <1>1, <1>2

\* The packets of a transfer.
LEMMA PacketSteps ==
  ASSUME IInv, DataOut \/ DataIn \/ Status \/ Refused
  PROVE  IInv' /\ Step
  <1>1. UNCHANGED <<attached, addr, rq, st, pc>> /\ Heard /\ attached /\ stage # "gone"
    <2>1. UNCHANGED <<attached, addr, rq, st, pc>> /\ Heard /\ ht # "idle"
      BY DEF DataOut, DataIn, Status, Refused, Bus, Untouched, usb0
    <2>2. QED
      BY <2>1 DEF Heard, IInv, Attached
  <1>2. stage \in {"device", "address"} <=> addr = 0
    BY <1>1 DEF Heard, HostAddr, IInv, Types
  <1>3. Step
    BY <1>1, SameState
  <1>4. CASE DataOut
    <2>1. /\ ht = "out" /\ ep0.onak = FALSE /\ area' = <<"data", hreq.v>> /\ ep0' = [ep0 EXCEPT !.onak = TRUE]
          /\ ht' = "ack" /\ stage' = stage /\ stage = "run" /\ addr = 1 /\ ep0.setup = FALSE
      BY <1>1, <1>2, <1>4 DEF DataOut, IInv, Types, Setups
    <2>2. /\ DOMAIN ep0' = DOMAIN ep0 /\ ep0'.setup = ep0.setup /\ ep0'.onak = TRUE /\ ep0'.inak = ep0.inak
      BY <2>1 DEF IInv, Types
    <2>3. ~Addressing
      BY <2>1 DEF IInv, Asked
    <2>4. Types' /\ Attached' /\ Setups'
      BY <1>1, <2>1, <2>2 DEF IInv, Types, Attached, Setups
    <2>5. Configuring' /\ Asked'
      BY <1>1, <2>1, <2>2, <2>3 DEF IInv, Configuring, Asked, Unserved, Addressing
    <2>6. QED
      BY <1>3, <2>4, <2>5 DEF IInv
  <1>5. CASE DataIn
    <2>1. /\ ht = "in" /\ ep0.inak = FALSE /\ ep0' = [ep0 EXCEPT !.inak = TRUE]
          /\ ht' \in {"end", "failed"} /\ UNCHANGED <<area, stage>>
      BY <1>5 DEF DataIn, IInv, Types
    <2>2. /\ DOMAIN ep0' = DOMAIN ep0 /\ ep0'.setup = ep0.setup /\ ep0'.onak = ep0.onak /\ ep0'.inak = TRUE
      BY <2>1 DEF IInv, Types
    <2>3. Types' /\ Attached' /\ Setups'
      BY <1>1, <2>1, <2>2 DEF IInv, Types, Attached, Setups
    <2>4. Configuring'
      BY <1>1, <2>1, <2>2 DEF IInv, Configuring, Unserved
    <2>5. ~Unserved("SetAddress")
      BY <2>1 DEF IInv, Asked
    <2>6. Asked'
      BY <1>1, <2>1, <2>2, <2>5 DEF IInv, Asked, Unserved, Addressing
    <2>7. QED
      BY <1>3, <2>3, <2>4, <2>6 DEF IInv
  <1>6. CASE Status
    <2>1. /\ \/ ht = "end" /\ ep0.onak = FALSE /\ ep0' = [ep0 EXCEPT !.onak = TRUE]
             \/ ht = "ack" /\ ep0.inak = FALSE /\ ep0' = [ep0 EXCEPT !.inak = TRUE]
          /\ ht' = "idle" /\ UNCHANGED area
          /\ stage' = IF stage = "run" THEN "run" ELSE After(stage)
      BY <1>6 DEF Status, IInv, Types
    <2>2. /\ DOMAIN ep0' = DOMAIN ep0 /\ ep0'.setup = ep0.setup
          /\ ep0'.onak \in {TRUE, ep0.onak} /\ ep0'.inak \in {TRUE, ep0.inak}
      BY <2>1 DEF IInv, Types
    <2>3. /\ stage' \in {"address", "header", "whole", "configure", "run"}
          /\ stage' = "address" <=> stage = "device"
      BY <1>1, <2>1, Stages DEF IInv, Types
    <2>4. Types' /\ Attached' /\ Setups'
      BY <1>1, <2>1, <2>2, <2>3 DEF IInv, Types, Attached, Setups
    <2>5. Configuring'
      BY <1>1, <2>1, <2>2 DEF IInv, Configuring, Unserved
    <2>6. ~Unserved("SetAddress")
      BY <2>1 DEF IInv, Asked, Unserved, Setups
    <2>7. Addressing => stage # "device"
      BY <2>1 DEF IInv, Asked, Setups
    <2>8. Asked'
      BY <1>1, <2>1, <2>2, <2>3, <2>6, <2>7 DEF IInv, Asked, Unserved, Addressing
    <2>9. QED
      BY <1>3, <2>4, <2>5, <2>8 DEF IInv
  <1>7. CASE Refused
    <2>1. /\ ht' = IF stage = "run" THEN "idle" ELSE "failed"
          /\ UNCHANGED <<ep0, area, stage>>
      BY <1>7 DEF Refused
    <2>2. Types' /\ Attached' /\ Setups' /\ Configuring'
      BY <1>1, <2>1 DEF IInv, Types, Attached, Setups, Configuring, Unserved
    <2>3. Unserved("SetAddress") => stage = "address" /\ ht' = "failed"
      BY <1>7, <2>1 DEF Refused, IInv, Asked
    <2>4. Asked'
      BY <1>1, <2>1, <2>3 DEF IInv, Asked, Unserved, Addressing
    <2>5. QED
      BY <1>3, <2>2, <2>4 DEF IInv
  <1>8. QED
    BY <1>4, <1>5, <1>6, <1>7

\* The bus is reset, suspended, resumed, polled; the device is forgotten.
LEMMA SignalSteps ==
  ASSUME IInv, AnyReset \/ GiveUp \/ Meet \/ Suspend \/ Resume \/ Poll \/ Forget
  PROVE  IInv' /\ Step
  <1>1. UNCHANGED <<attached, addr, ep0, area, rq, st, pc>>
    BY DEF AnyReset, GiveUp, Meet, ResetBus, Suspend, Resume, Poll, Forget, Wired, ep, devVars, usb0
  <1>2. \/ UNCHANGED <<stage, ht>>
        \/ stage' = "device" /\ ht' = "idle"
        \/ stage' = "gone" /\ ht' = "idle" /\ ~attached
    BY DEF AnyReset, GiveUp, Meet, ResetBus, Suspend, Resume, Poll, Forget, hostVars
  <1>3. Types' /\ Attached' /\ Setups' /\ Configuring'
    BY <1>1, <1>2 DEF IInv, Types, Attached, Setups, Configuring, Unserved
  <1>4. Addressing => attached
    BY DEF IInv, Attached, Addressing
  <1>5. Asked'
    BY <1>1, <1>2, <1>4 DEF IInv, Asked, Unserved, Addressing
  <1>6. QED
    BY <1>1, <1>3, <1>5, SameState DEF IInv

LEMMA InitSteps == Init => IInv /\ U!Init
  <1> SUFFICES ASSUME Init PROVE IInv /\ U!Init
    OBVIOUS
  <1>1. Types
    BY Constants DEF Init, InitDevice, Types
  <1>2. Attached /\ Setups /\ Configuring /\ Asked
    BY Constants DEF Init, InitDevice, Attached, Setups, Configuring, Asked, Unserved, Addressing
  <1>3. U!Init
    BY DEF Init, InitDevice, U!Init, State
  <1>4. QED
    BY <1>1, <1>2, <1>3 DEF IInv

LEMMA NextSteps == IInv /\ [Next]_vars => IInv' /\ [U!Next]_State /\ [addr' = 1 /\ addr = 0 => ht # "ack"]_vars
  <1> SUFFICES ASSUME IInv, [Next]_vars
               PROVE  IInv' /\ Step
    BY DEF Step
  <1>1. CASE Dev
    BY <1>1, DeviceSteps DEF Dev
  <1>2. CASE SwitchOff
    BY <1>2, BusSteps DEF SwitchOff
  <1>3. CASE Host
    BY <1>3, SetupSteps, PacketSteps, SignalSteps DEF Host
  <1>4. CASE AnyReset \/ Suspend \/ \E r \in Requests : Ask(r)
    BY <1>4, SetupSteps, SignalSteps
  <1>5. CASE UNCHANGED vars
    <2>1. UNCHANGED <<attached, addr, ep0, area, rq, st, pc, stage, ht>>
      BY <1>5 DEF vars, devVars, usb0, ep, hostVars
    <2>2. Types' /\ Attached' /\ Setups' /\ Configuring' /\ Asked'
      BY <2>1 DEF IInv, Types, Attached, Setups, Configuring, Asked, Unserved, Addressing
    <2>3. QED
      BY <2>1, <2>2, SameState DEF IInv
  <1>6. QED
    BY <1>1, <1>2, <1>3, <1>4, <1>5 DEF Next

-----------------------------------------------------------------------------
(* The theorems.                                                           *)

\* The device takes its address only after the status stage of SetAddress,
\* also when resets and setup packets come while the handler waits for it.
THEOREM StatusFirstAlways == Spec => StatusFirst
  BY InitSteps, NextSteps, PTL DEF Spec, StatusFirst

\* Address, configuration and attachment change together, as the USB
\* specification says, whatever is reset, suspended, lost or asked for.
THEOREM LawfulAlways == Spec => Lawful
  <1>1. Spec => U!Init /\ [][U!Next]_State
    BY InitSteps, NextSteps, PTL DEF Spec
  <1>2. QED
    BY <1>1 DEF Lawful, U!Spec
=============================================================================
