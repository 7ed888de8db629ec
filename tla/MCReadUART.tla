----------------------------- MODULE MCReadUART -----------------------------
(***************************************************************************)
(* ReadUART on small instances.                                            *)
(***************************************************************************)
EXTENDS ReadUART
=============================================================================
