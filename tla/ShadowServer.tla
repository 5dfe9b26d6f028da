---------------------------- MODULE ShadowServer ----------------------------
(***************************************************************************)
(* The shadow server as a whole: the sessions (HostServer) in front of the *)
(* process table (Supervisor), joined by power_sim_callback, by the kill   *)
(* script's exit handler, which ends in a broadcast, and by the fate of    *)
(* the one process they live in.                                           *)
(*                                                                         *)
(* Both run on the one thread of io_service: while the walk over the       *)
(* receivers is under way no session's handler runs (Sup!Idle).            *)
(***************************************************************************)
EXTENDS Integers, Sequences

CONSTANTS NumApps, NumConfigs, MaxProcs, MaxSessions, MaxClicks

VARIABLES
    up, sim_started, processing_kill,
    spawned, program, status, children, receivers, scan, sigchld,
    accepting, client_number_count, socket_map, client_in_control_id,
    arrived, gone, rx, tx, view, informed, clicks

supVars == <<spawned, program, status, children, receivers, scan, sigchld>>
hostVars == <<accepting, client_number_count, socket_map, client_in_control_id,
              arrived, gone, rx, tx, view, informed, clicks>>
vars == <<up, sim_started, processing_kill, supVars, hostVars>>

Sup == INSTANCE Supervisor
Host == INSTANCE HostServer

ASSUME ServerAssumption == Sup!SupervisorAssumption /\ Host!HostServerAssumption

Init == Sup!Init /\ Host!Init

-----------------------------------------------------------------------------
(* What takes a step of both.                                              *)

(* Broken variant of StartSim: the callback is lost.                       *)
StartSimUnconnected(i) == Sup!Idle /\ Host!HandleStartSim(i) /\ UNCHANGED supVars

(* START_SIM of the session in control: spawn, update_sim, broadcast.  The *)
(* controllers only ever ask for configuration 0.                          *)
StartSim(i) == Host!HandleStartSim(i) /\ Sup!PowerOn(0)

(* STOP_SIM of the session in control.                                     *)
StopSim(i) == Host!HandleStopSim(i) /\ Sup!PowerOff

(* The script, or the kill script, cannot be spawned.                      *)
SpawnFails(i) ==
    /\ Host!SpawnFails(i)
    /\ \/ Head(rx[i]) = "START_SIM" /\ \E k \in Sup!Apps : Sup!PowerOnFails(0, k)
       \/ Head(rx[i]) = "STOP_SIM" /\ Sup!PowerOffFails

(* Broken variant of KillNotice: the broadcast is forgotten.               *)
KillNoticeSilently(p) == Sup!KillNotice(p) /\ UNCHANGED hostVars

(* The exit handler of the kill script: clean-up, update_sim, broadcast.   *)
KillNotice(p) == Sup!KillNotice(p) /\ Host!KillScriptExits

(* The exit handler of an application that indexes the cleared children:   *)
(* the server survives it or not, and its sessions with it.                *)
AppNoticePastEnd(p) ==
    /\ Sup!AppNoticePastEnd(p)
    /\ \/ Host!EndsElsewhere
       \/ up' /\ UNCHANGED hostVars

(* A session that does not survive its own reset ends the server.          *)
SessionCrashes(i) == Sup!Idle /\ Host!ResetCrashes(i) /\ Sup!EndsElsewhere

-----------------------------------------------------------------------------
(* What takes a step of one.                                               *)
Accept == Sup!Idle /\ Host!Accept /\ UNCHANGED supVars
AcceptError == Sup!Idle /\ Host!AcceptError /\ UNCHANGED supVars

(* The handlers of a session that do not reach power_sim_callback's body,  *)
(* the end of its stream among them, and the loss of its connection.       *)
SessionHandles(i) ==
    /\ Sup!Idle
    /\ Host!HandleTakeControl(i) \/ Host!HandleSimics(i) \/ Host!HandleIgnored(i) \/ Host!EndOfFile(i)
    /\ UNCHANGED supVars
ConnectionReset(i) == Sup!Idle /\ Host!ConnectionReset(i) /\ UNCHANGED supVars

(* Processes, the walk, and the exit handlers of applications.             *)
ProcessExit(p) == Sup!ProcessExit(p) /\ UNCHANGED hostVars
ScanStart == Sup!ScanStart /\ UNCHANGED hostVars
Scan(p) == (Sup!ScanAlive(p) \/ Sup!AppNotice(p)) /\ UNCHANGED hostVars

(* The controllers, at any time.                                           *)
Peers ==
    /\ \/ Host!Arrive
       \/ \E i \in Host!Sessions :
            \/ Host!PressTakeControl(i) \/ Host!PressStart(i) \/ Host!PressStop(i) \/ Host!PressPlay(i)
            \/ Host!Receive(i) \/ Host!Leave(i)
    /\ UNCHANGED supVars

Serve(i) == StartSim(i) \/ StopSim(i) \/ SpawnFails(i) \/ SessionHandles(i)
Walk == ScanStart \/ \E p \in Sup!Pids : Scan(p) \/ AppNoticePastEnd(p) \/ KillNotice(p)

Next ==
    \/ Accept \/ AcceptError \/ Peers \/ Walk
    \/ \E i \in Host!Sessions : Serve(i) \/ SessionCrashes(i) \/ ConnectionReset(i)
    \/ \E p \in Sup!Pids : ProcessExit(p)

(* The fairness of the two parts, but for the kill script: that a STOP is  *)
(* completed, which HostServer assumes, is here a consequence of the       *)
(* script's end and of the walk that notices it.                           *)
Fairness ==
    /\ WF_vars(Accept)
    /\ WF_vars(Walk)
    /\ WF_vars(\E p \in Sup!Pids : program[p] = Sup!KillScript /\ ProcessExit(p))
    /\ \A i \in Host!Sessions : WF_vars(Serve(i)) /\ WF_vars(Host!Receive(i) /\ UNCHANGED supVars)

Spec == Init /\ [][Next]_vars /\ Fairness

-----------------------------------------------------------------------------
(* The whole implements its parts: nothing the sessions do can bring the   *)
(* process table where Supervisor alone would not go, and the other way    *)
(* round; the server's fairness includes what each part assumes of the     *)
(* other.                                                                  *)
ImplementsSupervisor == Sup!Spec
ImplementsHostServer == Host!Spec

(* End to end: a client that has been told, or is about to be told, that   *)
(* the simulation is off is right: not one application runs, whatever      *)
(* STARTs, STOPs, exits and changes of control came before.                *)
ToldOffMeansOff ==
    up => \A i \in (socket_map \cap informed) \ gone :
        ~Host!LastTold(i).sim =>
            \A p \in Sup!Pids : program[p] \in Sup!Apps => ~Sup!Running(p)

(* End to end: once a STOP has been accepted, every client that was told   *)
(* of the simulation gets to see it off, or it leaves, or the server ends. *)
StopReachesEveryView ==
    \A i \in Host!Sessions :
        (processing_kill /\ i \in (socket_map \cap informed) \ gone)
            ~> (~view[i].sim \/ i \in gone \/ ~up)

(* Liveness of the sessions (see HostServer), when the kill script and the *)
(* walk that notices its end are the real ones: sessions whose peer is     *)
(* gone are removed, and clients that were told anything end up showing    *)
(* the state of the server, whichever handlers the walk holds up.          *)
GoneIsForgotten == Host!GoneIsForgotten
ViewsConverge == Host!ViewsConverge
=============================================================================
