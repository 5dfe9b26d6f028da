--------------------------- MODULE MCShadowServer ---------------------------
(***************************************************************************)
(* ShadowServer with its bounds in the configuration file.  MaxProcs must  *)
(* not be what stops a START: TAKE_CONTROL is one of the clicks, each of   *)
(* the others spawns at most NumApps processes.                            *)
(***************************************************************************)
EXTENDS ShadowServer

ASSUME BoundsFit == MaxProcs >= (MaxClicks - 1) * NumApps
=============================================================================
