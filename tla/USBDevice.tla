----------------------------- MODULE USBDevice ------------------------------
(***************************************************************************)
(* The device states of the USB specification, as far as a device reaches  *)
(* them by itself or by a request: what CDCControl implements.             *)
(***************************************************************************)
VARIABLE state

Init == state = "off"

Attach      == state = "off" /\ state' = "default"
Reset       == state' = "default"
Address     == state = "default" /\ state' = "address"
Configure   == state \in {"address", "configured"} /\ state' = "configured"
Unconfigure == state = "configured" /\ state' = "address"
Detach      == state' = "off"

Next == Attach \/ Reset \/ Address \/ Configure \/ Unconfigure \/ Detach
Spec == Init /\ [][Next]_state
=============================================================================
