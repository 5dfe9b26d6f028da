---------------------------- MODULE SimLifecycle ----------------------------
(***************************************************************************)
(* What the shadow server promises about the simulation, whoever asks and  *)
(* whatever the processes do: a simulation is off, on, or being killed,    *)
(* and the server that drives it may abort.                                *)
(*                                                                         *)
(* This is the abstract specification.  Supervisor (the process table      *)
(* behind Shadow's power_sim callback) and HostServer (the sessions in     *)
(* front of it) are both shown to implement it, and HostServer's handlers  *)
(* call the operators below where the code calls power_sim_callback.       *)
(***************************************************************************)

VARIABLES
    up,               \* the server process exists
    sim_started,      \* HostServer::sim_started, what the clients are told
    processing_kill   \* Shadow::processing_kill, the kill script is pending

simVars == <<up, sim_started, processing_kill>>

SimTypeOK ==
    /\ up \in BOOLEAN
    /\ sim_started \in BOOLEAN
    /\ processing_kill \in BOOLEAN

SimInit ==
    /\ up = TRUE
    /\ sim_started = FALSE
    /\ processing_kill = FALSE

(* power_sim_callback(true, n) with a configuration number in range: every *)
(* script is spawned and update_sim(true) is called.  A second START while *)
(* the simulation is on takes the same path.                               *)
PowerOn ==
    /\ up
    /\ ~processing_kill
    /\ sim_started' = TRUE
    /\ UNCHANGED <<up, processing_kill>>

(* power_sim_callback(false, n): the kill script is started.  The clients  *)
(* are told nothing yet.                                                   *)
PowerOff ==
    /\ up
    /\ ~processing_kill
    /\ processing_kill' = TRUE
    /\ UNCHANGED <<up, sim_started>>

(* The kill script has exited and its exit handler has cleaned up.         *)
KillExit ==
    /\ up
    /\ processing_kill
    /\ processing_kill' = FALSE
    /\ sim_started' = FALSE
    /\ UNCHANGED up

(* The server process dies: an exception leaves io_service.run(), or       *)
(* undefined behaviour brings it down.                                     *)
Abort ==
    /\ up
    /\ up' = FALSE
    /\ UNCHANGED <<sim_started, processing_kill>>

SimNext == PowerOn \/ PowerOff \/ KillExit \/ Abort

SimSpec == SimInit /\ [][SimNext]_simVars /\ WF_simVars(KillExit)
=============================================================================
