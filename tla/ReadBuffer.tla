----------------------------- MODULE ReadBuffer -----------------------------
(***************************************************************************)
(* What ReadUART promises: the bytes received are read in the order of     *)
(* their arrival, each of them once.  There is room for Size - 1 of them;  *)
(* the next one costs all that is unread, unless a read or a peek has just *)
(* found the buffer not empty, which leaves room for one more.             *)
(***************************************************************************)
EXTENDS Integers, Sequences

CONSTANTS Size, Data, None

VARIABLES
  unread,   \* the bytes received and not yet read
  got       \* what the last read or peek returned: a byte, or None for -1

bvars == <<unread, got>>

Init == unread = <<>> /\ got = None

Put(x) == Len(unread) < Size /\ unread' = Append(unread, x) /\ UNCHANGED got

Overrun == Len(unread) >= Size - 1 /\ unread' = <<>> /\ UNCHANGED got

\* The second byte too many begins a new queue.
Restart(x) == Len(unread) = Size /\ unread' = <<x>> /\ UNCHANGED got

Read == unread # <<>> /\ got' = Head(unread) /\ unread' = Tail(unread)

\* A peek leaves the byte where it is, in a buffer not overrun meanwhile.
Peek == /\ unread # <<>> /\ got' = Head(unread)
        /\ unread' = IF Len(unread) = Size THEN <<>> ELSE unread

Nothing == unread = <<>> /\ got' = None /\ UNCHANGED unread

Next == Overrun \/ Read \/ Peek \/ Nothing \/ \E x \in Data : Put(x) \/ Restart(x)

Spec == Init /\ [][Next]_bvars
=============================================================================
