---------------------------- MODULE MCSupervisor ----------------------------
(***************************************************************************)
(* Supervisor for TLC.  With two applications and seven processes the      *)
(* simulation may be started three times, or started, stopped and started  *)
(* again, which is what it takes for one instance to stand in for another. *)
(***************************************************************************)
EXTENDS Supervisor
=============================================================================
