--------------------------- MODULE MCTaskChanger ----------------------------
(***************************************************************************)
(* TaskChanger on small instances.                                         *)
(***************************************************************************)
EXTENDS TaskChanger

\* A state with an ended task put back in the table is reached and checked, and
\* not followed: every property but the type invariant ends its promise there.
Followed == ~revived
=============================================================================
