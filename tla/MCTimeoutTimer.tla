--------------------------- MODULE MCTimeoutTimer ---------------------------
(***************************************************************************)
(* TimeoutTimer on small instances.                                        *)
(***************************************************************************)
EXTENDS TimeoutTimer
=============================================================================
