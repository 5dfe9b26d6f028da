------------------------- MODULE MCControllerClient -------------------------
(***************************************************************************)
(* ControllerClient for TLC.  The number of writes in the air is what      *)
(* bounds the queue of handlers.                                           *)
(***************************************************************************)
EXTENDS ControllerClient
=============================================================================
