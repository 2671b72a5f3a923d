-------------------------------- MODULE MCSmoke --------------------------------
(***************************************************************************)
(* Model checking of SmokeRunner.tla; its constants are all given in the   *)
(* .cfg file.                                                              *)
(***************************************************************************)
EXTENDS SmokeRunner

=============================================================================
