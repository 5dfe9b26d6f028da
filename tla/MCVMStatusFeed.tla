--------------------------- MODULE MCVMStatusFeed ---------------------------
(***************************************************************************)
(* VMStatusFeed for TLC.  MaxQueue = 4 lets the VM thread be a whole poll  *)
(* ahead of the main thread while it posts the next.                       *)
(***************************************************************************)
EXTENDS VMStatusFeed
=============================================================================
