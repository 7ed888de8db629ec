---------------------------- MODULE MCCDCStream -----------------------------
(***************************************************************************)
(* CDCStream on small instances.                                           *)
(***************************************************************************)
EXTENDS CDCStream
=============================================================================
