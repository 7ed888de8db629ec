------------------------------- MODULE MCNvm --------------------------------
(***************************************************************************)
(* NvmSample on small instances.                                           *)
(***************************************************************************)
EXTENDS NvmSample

MCRecords == {<<"flash", 0>>, <<"flash", 4>>, <<"boot", 0>>, <<"user", 0>>}
MCSources == {<<{0}>>, <<{0}, {1}, {}, {0, 1}, {1}>>, <<{1}, {1}, {0}>>}
=============================================================================
