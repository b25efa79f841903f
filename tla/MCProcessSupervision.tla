------------------------ MODULE MCProcessSupervision ------------------------
(***************************************************************************)
(* ProcessSupervision for TLC.                                             *)
(***************************************************************************)
EXTENDS ProcessSupervision
=============================================================================
