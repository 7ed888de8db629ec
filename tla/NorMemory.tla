----------------------------- MODULE NorMemory ------------------------------
(***************************************************************************)
(* What the two NVM libraries promise of the memory: a call changes only   *)
(* the addresses it is about, each of them once and to what was asked, and *)
(* all of them by the time it returns.  A reset leaves each as it was or   *)
(* as asked, and nothing in between.                                       *)
(***************************************************************************)
VARIABLES
  mem,   \* the memory
  want,  \* the call's addresses, with the bytes it may leave there
  up     \* FALSE from a reset on until the program starts again

mvars == <<mem, want, up>>

None == <<>>
Init == want = None /\ up = FALSE

Start == ~up /\ up' /\ UNCHANGED <<mem, want>>
Ask   == up /\ want = None /\ want' # None /\ UNCHANGED <<mem, up>>
Touch == /\ up /\ want # None /\ UNCHANGED <<want, up>>
         /\ \A l \in DOMAIN mem : mem'[l] # mem[l] => l \in DOMAIN want /\ mem'[l] \in want[l]
Reply == /\ up /\ want # None /\ want' = None /\ UNCHANGED <<mem, up>>
         /\ \A l \in DOMAIN want : mem[l] \in want[l]
Reset == ~up' /\ want' = None /\ UNCHANGED mem

Next == Start \/ Ask \/ Touch \/ Reply \/ Reset

Spec == Init /\ [][Next]_mvars
=============================================================================
