----------------------------- MODULE HostServer -----------------------------
(***************************************************************************)
(* The sessions of the shadow server (src/shadow/host_server.cpp): who is  *)
(* connected, who is in control, which commands are obeyed, and what each  *)
(* client has been told, together with the controllers at the other end of *)
(* the connections, as far as their buttons and their view of the server   *)
(* go.                                                                     *)
(*                                                                         *)
(* The server is one thread running io_service: a handler is one step.     *)
(* A connection is two FIFO byte streams: rx carries commands to the       *)
(* server, tx carries MAIN_STATUS messages back.  A controller that        *)
(* reconnects is a new session.  The simulation behind power_sim_callback  *)
(* is SimLifecycle, which Supervisor implements.                           *)
(*                                                                         *)
(* simics_playing is left out of MAIN_STATUS: update_simics has no caller, *)
(* so it is FALSE in every message.  The APP_INITIAL_STATUS and VM_LIST    *)
(* messages a new session is sent carry nothing of the state below.        *)
(***************************************************************************)
EXTENDS Integers, Sequences

CONSTANTS
    MaxSessions,    \* bound: connections ever made
    MaxClicks       \* bound: buttons ever pressed

ASSUME HostServerAssumption ==
    /\ MaxSessions \in Nat
    /\ MaxClicks \in Nat

Sessions == 1..MaxSessions
NobodyYet == 0      \* initial value of client_in_control_id
Nobody == -1        \* its value after the controller left (2^64 - 1 in the code)

Command == {"TAKE_CONTROL", "START_SIM", "STOP_SIM", "PLAY_SIMICS", "PAUSE_SIMICS"}
Status == [control : BOOLEAN, sim : BOOLEAN]
NoStatus == [control |-> FALSE, sim |-> FALSE]    \* what a controller shows before it is told

VARIABLES
    up, sim_started, processing_kill,   \* see SimLifecycle
    accepting,              \* an async_accept is outstanding
    client_number_count,    \* number of the next session
    socket_map,             \* keys of HostServer::socket_map
    client_in_control_id,
    arrived,                \* connections made so far; those not accepted wait in the backlog
    gone,                   \* sessions whose peer has closed or vanished
    rx,                     \* commands sent by a peer and not handled
    tx,                     \* statuses sent to a peer and not received
    view,                   \* what the peer's controller shows
    informed,               \* history: sessions that were ever sent a MAIN_STATUS
    clicks                  \* buttons pressed so far

simVars == <<up, sim_started, processing_kill>>
mapVars == <<accepting, client_number_count, socket_map>>
netVars == <<arrived, gone>>
peerVars == <<view, clicks>>
vars == <<simVars, mapVars, client_in_control_id, netVars, rx, tx, informed, peerVars>>

Sim == INSTANCE SimLifecycle WITH
    up <- up, sim_started <- sim_started, processing_kill <- processing_kill

TypeOK ==
    /\ Sim!SimTypeOK
    /\ accepting \in BOOLEAN
    /\ client_number_count \in 1..(MaxSessions + 1)
    /\ socket_map \subseteq Sessions
    /\ client_in_control_id \in Sessions \cup {NobodyYet, Nobody}
    /\ arrived \in 0..MaxSessions
    /\ gone \subseteq Sessions
    /\ rx \in [Sessions -> Seq(Command)]
    /\ tx \in [Sessions -> Seq(Status)]
    /\ view \in [Sessions -> Status]
    /\ informed \subseteq Sessions
    /\ clicks \in 0..MaxClicks

Init ==
    /\ Sim!SimInit
    /\ accepting = TRUE
    /\ client_number_count = 1
    /\ socket_map = {}
    /\ client_in_control_id = NobodyYet
    /\ arrived = 0
    /\ gone = {}
    /\ rx = [i \in Sessions |-> << >>]
    /\ tx = [i \in Sessions |-> << >>]
    /\ view = [i \in Sessions |-> NoStatus]
    /\ informed = {}
    /\ clicks = 0

-----------------------------------------------------------------------------
(* The server.                                                             *)

(* HostServer::send_status_update, called at the end of a handler: every   *)
(* session in socket_map is sent who is in control and whether the         *)
(* simulation is on.  What is written to a peer that is gone is lost.      *)
StatusOf(i) == [control |-> i = client_in_control_id, sim |-> sim_started]
SendStatusUpdate ==
    LET told == socket_map' \ gone IN
    /\ tx' = [i \in Sessions |-> IF i \in told THEN Append(tx[i], StatusOf(i)') ELSE tx[i]]
    /\ informed' = informed \cup told

(* The accept handler: the oldest waiting connection becomes a session.    *)
(* It is sent the applications and the VMs, but no MAIN_STATUS.            *)
Accept ==
    /\ up
    /\ accepting
    /\ client_number_count <= arrived
    /\ socket_map' = socket_map \cup {client_number_count}
    /\ client_number_count' = client_number_count + 1
    /\ UNCHANGED <<simVars, accepting, client_in_control_id, netVars, rx, tx, informed, peerVars>>

(* The accept handler with an error: it returns before start_async_accept. *)
AcceptError ==
    /\ up
    /\ accepting
    /\ accepting' = FALSE
    /\ UNCHANGED <<simVars, client_number_count, socket_map, client_in_control_id, netVars, rx, tx, informed, peerVars>>

(* The read handler of session i takes a command of one of the types ms.   *)
Handles(i, ms) ==
    /\ up
    /\ i \in socket_map
    /\ rx[i] # << >>
    /\ Head(rx[i]) \in ms
    /\ rx' = [rx EXCEPT ![i] = Tail(@)]
    /\ UNCHANGED <<mapVars, netVars, peerVars>>

InControl(i) == i = client_in_control_id

(* Broken variant of HandleTakeControl: only the new controller is told.   *)
HandleTakeControlPrivately(i) ==
    /\ Handles(i, {"TAKE_CONTROL"})
    /\ client_in_control_id' = i
    /\ UNCHANGED simVars
    /\ tx' = IF i \in gone THEN tx ELSE [tx EXCEPT ![i] = Append(@, StatusOf(i)')]
    /\ informed' = informed \cup ({i} \ gone)

(* TAKE_CONTROL is granted to whoever asks, at once.                       *)
HandleTakeControl(i) ==
    /\ Handles(i, {"TAKE_CONTROL"})
    /\ client_in_control_id' = i
    /\ UNCHANGED simVars
    /\ SendStatusUpdate

(* START_SIM of configuration 0, the one the controller asks for and which *)
(* main() makes sure exists.  Obeyed, it ends with update_sim(true) and a  *)
(* broadcast.                                                              *)
StartAccepted(i) == InControl(i) /\ ~processing_kill
HandleStartSim(i) ==
    /\ Handles(i, {"START_SIM"})
    /\ StartAccepted(i)
    /\ Sim!PowerOn
    /\ UNCHANGED client_in_control_id
    /\ SendStatusUpdate

(* Broken variant of StopAccepted: anybody may stop the simulation.        *)
StopAcceptedFromAnyone(i) == ~processing_kill

(* STOP_SIM: the kill script is started, nobody is told yet.               *)
StopAccepted(i) == InControl(i) /\ ~processing_kill
HandleStopSim(i) ==
    /\ Handles(i, {"STOP_SIM"})
    /\ StopAccepted(i)
    /\ Sim!PowerOff
    /\ UNCHANGED <<client_in_control_id, tx, informed>>

(* PLAY_SIMICS and PAUSE_SIMICS: a TODO, followed by a broadcast.          *)
HandleSimics(i) ==
    /\ Handles(i, {"PLAY_SIMICS", "PAUSE_SIMICS"})
    /\ InControl(i)
    /\ UNCHANGED <<simVars, client_in_control_id>>
    /\ SendStatusUpdate

(* A command of a client that is not in control, a START or a STOP while   *)
(* the kill script runs: logged at most, and dropped without an answer.    *)
HandleIgnored(i) ==
    /\ \/ Handles(i, {"START_SIM"}) /\ ~StartAccepted(i)
       \/ Handles(i, {"STOP_SIM"}) /\ ~StopAccepted(i)
       \/ Handles(i, {"PLAY_SIMICS", "PAUSE_SIMICS"}) /\ ~InControl(i)
    /\ UNCHANGED <<simVars, client_in_control_id, tx, informed>>

(* A script that START or STOP needs cannot be spawned: the exception      *)
(* leaves io_service.run() and the server ends.                            *)
SpawnFails(i) ==
    /\ \/ Handles(i, {"START_SIM"}) /\ StartAccepted(i)
       \/ Handles(i, {"STOP_SIM"}) /\ StopAccepted(i)
    /\ Sim!Abort
    /\ UNCHANGED <<client_in_control_id, tx, informed>>

(* Broken variant of KillScriptExits: the broadcast comes before           *)
(* update_sim(false).                                                      *)
KillScriptExitsTellsFirst ==
    /\ Sim!KillExit
    /\ UNCHANGED <<mapVars, client_in_control_id, netVars, rx, peerVars>>
    /\ tx' = [i \in Sessions |-> IF i \in socket_map \ gone THEN Append(tx[i], StatusOf(i)) ELSE tx[i]]
    /\ informed' = informed \cup (socket_map \ gone)

(* The kill script has exited: update_sim(false) and a broadcast.          *)
KillScriptExits ==
    /\ Sim!KillExit
    /\ UNCHANGED <<mapVars, client_in_control_id, netVars, rx, peerVars>>
    /\ SendStatusUpdate

(* Broken variant of Reset: control stays with the session that ended.     *)
ResetKeepsControl(i) ==
    /\ up
    /\ i \in socket_map \cap gone
    /\ socket_map' = socket_map \ {i}
    /\ rx' = [rx EXCEPT ![i] = << >>]
    /\ UNCHANGED <<simVars, accepting, client_number_count, client_in_control_id, netVars, tx, informed, peerVars>>

(* HostServerClient::reset and the disconnect callback: session i leaves   *)
(* the map, and gives control up if it has it.                             *)
Reset(i) ==
    /\ up
    /\ i \in socket_map \cap gone
    /\ socket_map' = socket_map \ {i}
    /\ rx' = [rx EXCEPT ![i] = << >>]
    /\ UNCHANGED <<simVars, accepting, client_number_count, netVars, peerVars>>
    /\ \/ /\ InControl(i)
          /\ client_in_control_id' = Nobody
          /\ SendStatusUpdate
       \/ /\ ~InControl(i)
          /\ UNCHANGED <<client_in_control_id, tx, informed>>

(* Broken variant of EndOfFile: the read chain ends without a reset.       *)
EndOfFileUnnoticed(i) ==
    /\ i \in socket_map \cap gone
    /\ rx[i] = << >>
    /\ UNCHANGED vars

(* A read ends with end-of-file, after everything the peer had sent.       *)
EndOfFile(i) == rx[i] = << >> /\ Reset(i)

(* A read or a write ends with a connection reset or a broken pipe, at any *)
(* time and before the commands still in the stream.                       *)
ConnectionReset(i) == rx[i] # << >> /\ Reset(i)

(* Erasing the session from the map destroys the HostServerClient whose    *)
(* member function is running, which then writes to itself, and whose      *)
(* other handlers are still to run: the server may not survive it.         *)
ResetCrashes(i) ==
    /\ i \in socket_map \cap gone
    /\ Sim!Abort
    /\ UNCHANGED <<mapVars, client_in_control_id, netVars, rx, tx, informed, peerVars>>

(* What is not a session's doing ends the server: an exit handler of an    *)
(* application (Supervisor!AppNoticePastEnd), or std::exit on the VM       *)
(* thread while VirtualBox is set up.                                      *)
EndsElsewhere ==
    /\ Sim!Abort
    /\ UNCHANGED <<mapVars, client_in_control_id, netVars, rx, tx, informed, peerVars>>

-----------------------------------------------------------------------------
(* The controllers.                                                        *)

Peer(i) == i \in (1..arrived) \ gone

(* A controller connects; the kernel queues the connection.                *)
Arrive ==
    /\ up
    /\ arrived < MaxSessions
    /\ arrived' = arrived + 1
    /\ UNCHANGED <<simVars, mapVars, client_in_control_id, gone, rx, tx, informed, peerVars>>

(* A button sends a command; the guard is the one that enables the button. *)
Press(i, cmd, enabled) ==
    /\ up
    /\ Peer(i)
    /\ clicks < MaxClicks
    /\ enabled
    /\ clicks' = clicks + 1
    /\ rx' = [rx EXCEPT ![i] = Append(@, cmd)]
    /\ UNCHANGED <<simVars, mapVars, client_in_control_id, netVars, tx, informed, view>>

PressTakeControl(i) == Press(i, "TAKE_CONTROL", ~view[i].control)
PressStart(i) == Press(i, "START_SIM", view[i].control /\ ~view[i].sim)
PressStop(i) == Press(i, "STOP_SIM", view[i].control /\ view[i].sim)
PressPlay(i) == Press(i, "PLAY_SIMICS", view[i].control /\ view[i].sim)

(* A MAIN_STATUS arrives and the controller shows it.                      *)
Receive(i) ==
    /\ Peer(i)
    /\ tx[i] # << >>
    /\ view' = [view EXCEPT ![i] = Head(tx[i])]
    /\ tx' = [tx EXCEPT ![i] = Tail(@)]
    /\ UNCHANGED <<simVars, mapVars, client_in_control_id, netVars, rx, informed, clicks>>

(* The controller exits, or resets its socket, or its machine is lost.     *)
(* What it shows is cleared and what was on its way is lost.               *)
Leave(i) ==
    /\ Peer(i)
    /\ gone' = gone \cup {i}
    /\ view' = [view EXCEPT ![i] = NoStatus]
    /\ tx' = [tx EXCEPT ![i] = << >>]
    /\ UNCHANGED <<simVars, mapVars, client_in_control_id, arrived, rx, informed, clicks>>

-----------------------------------------------------------------------------
Serve(i) ==
    \/ HandleTakeControl(i) \/ HandleStartSim(i) \/ HandleStopSim(i)
    \/ HandleSimics(i) \/ HandleIgnored(i) \/ SpawnFails(i)
    \/ EndOfFile(i)

Next ==
    \/ Accept
    \/ AcceptError
    \/ KillScriptExits
    \/ EndsElsewhere
    \/ Arrive
    \/ \E i \in Sessions :
        \/ Serve(i) \/ ConnectionReset(i) \/ ResetCrashes(i)
        \/ PressTakeControl(i) \/ PressStart(i) \/ PressStop(i) \/ PressPlay(i)
        \/ Receive(i) \/ Leave(i)

(* io_service.run() runs every handler that is ready, TCP delivers to a    *)
(* peer that stays, and the kill script ends (SimLifecycle's fairness).    *)
Fairness ==
    /\ WF_vars(Accept)
    /\ WF_vars(KillScriptExits)
    /\ \A i \in Sessions : WF_vars(Serve(i)) /\ WF_vars(Receive(i))

Spec == Init /\ [][Next]_vars /\ Fairness

-----------------------------------------------------------------------------
(* Safety.                                                                 *)

(* What session i's controller will show once everything sent has arrived. *)
LastTold(i) == IF tx[i] = << >> THEN view[i] ELSE tx[i][Len(tx[i])]

(* The clients agree with the server: whatever handlers ran in whatever    *)
(* order, the last status on its way to a connected client is the current  *)
(* one, so no change of control or of the simulation is left unannounced   *)
(* and no client believes for good that it is in control when it is not.   *)
(* A client that was told nothing since it joined shows nothing, which is  *)
(* right of control but not of a simulation that was already on.           *)
StatusAgreement ==
    up => \A i \in socket_map \ gone :
        IF i \in informed
        THEN LastTold(i) = StatusOf(i)
        ELSE LastTold(i) = NoStatus /\ ~InControl(i)

(* Control never stays with a session that is not there: client ids are    *)
(* not reused, so nobody else could ever command with it.                  *)
ControllerIsConnected ==
    up => client_in_control_id \in socket_map \cup {NobodyYet, Nobody}

(* A session ends only once its peer is gone, and takes control away from  *)
(* no other session; while it lasts, control passes only to a session that *)
(* asked for it.                                                           *)
ControlIsTakenOrLeft ==
    [][LET old == client_in_control_id
           new == client_in_control_id'
       IN  new # old => \/ new \in socket_map /\ rx[new] # << >> /\ Head(rx[new]) = "TAKE_CONTROL"
                        \/ new = Nobody /\ old \in gone /\ old \notin socket_map']_vars

(* The simulation obeys the controller alone, as of the moment a command   *)
(* is handled: a START or STOP sent by a client that was in control when   *)
(* its button was pressed, but is no more, changes nothing.                *)
CommandsNeedControl ==
    [][(sim_started' /\ ~sim_started) \/ (processing_kill' /\ ~processing_kill) =>
        \E i \in socket_map : InControl(i) /\ Len(rx'[i]) < Len(rx[i])]_vars

(* Liveness: a session whose peer is gone is removed, and with it the      *)
(* control it may have, or the server has ended; the commands its peer     *)
(* left in the stream do not keep it.                                      *)
GoneIsForgotten ==
    \A i \in Sessions :
        (i \in gone /\ (i \in socket_map \/ InControl(i))) ~> ((i \notin socket_map /\ ~InControl(i)) \/ ~up)

(* Liveness: once the buttons and the connections are quiet, every client  *)
(* that was told anything ends up showing the state of the server.         *)
ViewsConverge ==
    <>[](up => \A i \in (socket_map \cap informed) \ gone : view[i] = StatusOf(i))

=============================================================================
