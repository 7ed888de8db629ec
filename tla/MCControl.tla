----------------------------- MODULE MCControl ------------------------------
(***************************************************************************)
(* An instance of UsbHost for TLC: breaks of 7 ms, of no end and of none,  *)
(* with a poll every 5 ms, and requests of every kind.                     *)
(***************************************************************************)
EXTENDS UsbHost

MCRequests == {Req("SetLineEncoding", b, 7) : b \in {"19200", "1200"}}
              \cup {Req("SendBreak", n, 0) : n \in {0, 7, Forever}}
              \cup {Req("GetLineEncoding", 0, 7), Req("SetLineState", 1, 0),
                    Req("GetDescriptor", StringValue(4), 255),
                    Req("GetConfiguration", 0, 1), Req("SetFeature", 1, 0), Req("SetInterface", 0, 0),
                    Req("SetDescriptor", 0, 8)}

\* Handlers that wait for the host while the bus was reset: the host has
\* forgotten what they wait for, and the reset is not served before them.
Hung == Stuck /\ "RESET" \in flags

\* A break of a finite length ends (cb_endpoint_complete counts it down with
\* the polls), or a later request made it endless.
Breaking  == st.bBreak /\ st.BREAKCNT # Forever
BreakEnds == Breaking ~> ~Breaking \/ Hung

\* Whatever was reset, suspended, lost or refused: in the end the device is
\* configured again, with the endpoints that the host read of in its
\* configuration descriptor, except where a handler hangs.
Up      == stage = "run" /\ addr = 1 /\ st.CONFIG = 1 /\ parsed = eps
ComesUp == <>[](Up \/ Hung)

-----------------------------------------------------------------------------
\* "Avoid buffer operations until transmission is complete" (interface.cpp,
\* ep_interrupt_listen): while a notification is there to be polled, its
\* buffer holds it.
Intact == ~intr.nak /\ intr.cnt = 10 => area[1] = "note"
=============================================================================
