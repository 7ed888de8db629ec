------------------------------ MODULE BytePipe ------------------------------
(***************************************************************************)
(* One direction of the serial port that USB::CDC promises: while the      *)
(* device is configured, bytes come out in the order they went in, each of *)
(* them once.  What is under way when the pipe goes down or is set up anew *)
(* is gone, and nothing is promised while it is down.                      *)
(***************************************************************************)
EXTENDS Integers, Sequences

CONSTANT Discards   \* the reader may discard what is unread

VARIABLES
  up,      \* the pipe is promised
  giving,  \* bytes are being put in
  queue,   \* bytes gone in and not yet out
  out      \* the bytes that came out last

pvars == <<up, queue, out>>

Init == up = FALSE /\ queue = <<>> /\ out = <<>>

\* Nothing is put in twice: one Give each time.
Give == /\ up /\ giving /\ ~giving' /\ UNCHANGED <<up, out>>
        /\ Len(queue') >= Len(queue) /\ SubSeq(queue', 1, Len(queue)) = queue

Take(n) == /\ up /\ out' = SubSeq(queue, 1, n) /\ queue' = SubSeq(queue, n + 1, Len(queue))
           /\ UNCHANGED up

Discard == Discards /\ up /\ queue' = <<>> /\ out' = <<>> /\ UNCHANGED up

Down      == up' = FALSE /\ queue' = <<>> /\ out' = <<>>
Configure == up' = TRUE /\ queue' = <<>> /\ out' = <<>>
Stray     == ~up /\ UNCHANGED <<up, queue>>

Next == \/ Give \/ Discard \/ Down \/ Configure \/ Stray
        \/ \E n \in 0 .. Len(queue) : Take(n)

Spec == Init /\ [][Next]_pvars
=============================================================================
