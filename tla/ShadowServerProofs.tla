------------------------- MODULE ShadowServerProofs -------------------------
(***************************************************************************)
(* Proofs about ShadowServer: it implements Supervisor and HostServer, so  *)
(* what was proved of each holds of the whole, and the two together give   *)
(* what neither can say alone.                                             *)
(***************************************************************************)
EXTENDS ShadowServer, TLAPS

SupP == INSTANCE SupervisorProofs
HostP == INSTANCE HostServerProofs

(* The instances of the proof modules speak of the same specifications as  *)
(* the instances in ShadowServer.                                          *)
LEMMA SameSupervisor ==
    /\ SupP!SupervisorAssumption <=> Sup!SupervisorAssumption
    /\ SupP!Init <=> Sup!Init
    /\ [SupP!Next]_(SupP!vars) <=> [Sup!Next]_(Sup!vars)
    /\ SupP!SimOffMeansNothingRuns <=> Sup!SimOffMeansNothingRuns
BY DEF SupP!SupervisorAssumption, Sup!SupervisorAssumption, SupP!Init, Sup!Init, SupP!Next,
       Sup!Next, SupP!vars, Sup!vars, SupP!procVars, Sup!procVars, SupP!Apps, Sup!Apps,
       SupP!Pids, Sup!Pids, SupP!KillScript, Sup!KillScript, SupP!Released, Sup!Released,
       SupP!Running, Sup!Running, SupP!Idle, Sup!Idle, SupP!Start, Sup!Start, SupP!Handles,
       Sup!Handles, SupP!PowerOn, Sup!PowerOn, SupP!PowerOnFails, Sup!PowerOnFails,
       SupP!PowerOff, Sup!PowerOff, SupP!PowerOffFails, Sup!PowerOffFails, SupP!EndsElsewhere,
       Sup!EndsElsewhere, SupP!ProcessExit, Sup!ProcessExit, SupP!ScanStart, Sup!ScanStart,
       SupP!Visits, Sup!Visits, SupP!ScanAlive, Sup!ScanAlive, SupP!ReapAll, Sup!ReapAll,
       SupP!Notice, Sup!Notice, SupP!AppNotice, Sup!AppNotice, SupP!AppNoticePastEnd,
       Sup!AppNoticePastEnd, SupP!KillNotice, Sup!KillNotice, SupP!SimOffMeansNothingRuns,
       Sup!SimOffMeansNothingRuns, SupP!Sim!SimInit, Sup!Sim!SimInit

LEMMA SameHostServer ==
    /\ HostP!HostServerAssumption <=> Host!HostServerAssumption
    /\ HostP!Init <=> Host!Init
    /\ [HostP!Next]_(HostP!vars) <=> [Host!Next]_(Host!vars)
    /\ HostP!StatusAgreement <=> Host!StatusAgreement
BY DEF HostP!HostServerAssumption, Host!HostServerAssumption, HostP!Init, Host!Init, HostP!Next,
       Host!Next, HostP!vars, Host!vars, HostP!simVars, Host!simVars, HostP!mapVars,
       Host!mapVars, HostP!netVars, Host!netVars, HostP!peerVars, Host!peerVars, HostP!Sessions,
       Host!Sessions, HostP!NobodyYet, Host!NobodyYet, HostP!Nobody, Host!Nobody, HostP!Command,
       Host!Command, HostP!Status, Host!Status, HostP!NoStatus, Host!NoStatus,
       HostP!Sim!SimInit, Host!Sim!SimInit, HostP!Sim!PowerOn, Host!Sim!PowerOn,
       HostP!Sim!PowerOff, Host!Sim!PowerOff, HostP!Sim!KillExit, Host!Sim!KillExit,
       HostP!Sim!Abort, Host!Sim!Abort, HostP!Serve, Host!Serve, HostP!StatusOf, Host!StatusOf,
       HostP!SendStatusUpdate, Host!SendStatusUpdate, HostP!Accept, Host!Accept,
       HostP!AcceptError, Host!AcceptError, HostP!Handles, Host!Handles, HostP!InControl,
       Host!InControl, HostP!HandleTakeControl, Host!HandleTakeControl, HostP!StartAccepted,
       Host!StartAccepted, HostP!HandleStartSim, Host!HandleStartSim, HostP!StopAccepted,
       Host!StopAccepted, HostP!HandleStopSim, Host!HandleStopSim, HostP!HandleSimics,
       Host!HandleSimics, HostP!HandleIgnored, Host!HandleIgnored, HostP!SpawnFails,
       Host!SpawnFails, HostP!KillScriptExits, Host!KillScriptExits, HostP!Reset, Host!Reset,
       HostP!EndOfFile, Host!EndOfFile, HostP!ConnectionReset, Host!ConnectionReset,
       HostP!ResetCrashes, Host!ResetCrashes, HostP!EndsElsewhere, Host!EndsElsewhere,
       HostP!Peer, Host!Peer, HostP!Arrive, Host!Arrive, HostP!Press, Host!Press,
       HostP!PressTakeControl, Host!PressTakeControl, HostP!PressStart, Host!PressStart,
       HostP!PressStop, Host!PressStop, HostP!PressPlay, Host!PressPlay, HostP!Receive,
       Host!Receive, HostP!Leave, Host!Leave, HostP!LastTold, Host!LastTold,
       HostP!StatusAgreement, Host!StatusAgreement

(* Every step of the server is a step of the process table or leaves it    *)
(* alone.                                                                  *)
LEMMA NextIsSupervisors == [Next]_vars => [Sup!Next]_(Sup!vars)
<1> SUFFICES ASSUME [Next]_vars PROVE Sup!Next \/ UNCHANGED Sup!vars
    OBVIOUS
<1>1. ASSUME NEW i \in Host!Sessions, StartSim(i) \/ StopSim(i) \/ SpawnFails(i) \/ SessionCrashes(i)
      PROVE  Sup!Next
    <2>1. 0 \in 0..(NumConfigs - 1)
        BY ServerAssumption DEF Sup!SupervisorAssumption
    <2>2. QED
        BY <1>1, <2>1 DEF StartSim, StopSim, SpawnFails, SessionCrashes, Sup!Next
<1>2. ASSUME NEW i \in Host!Sessions, SessionHandles(i) \/ ConnectionReset(i) PROVE UNCHANGED Sup!vars
    BY <1>2 DEF SessionHandles, ConnectionReset, Host!HandleTakeControl, Host!HandleSimics, Host!HandleIgnored,
                Host!EndOfFile, Host!ConnectionReset, Host!Reset, Host!simVars, supVars, Sup!vars, Sup!procVars
<1>3. CASE Accept \/ AcceptError \/ Peers
    BY <1>3 DEF Accept, AcceptError, Peers, Host!Accept, Host!AcceptError, Host!Arrive, Host!PressTakeControl,
                Host!PressStart, Host!PressStop, Host!PressPlay, Host!Press, Host!Receive, Host!Leave,
                Host!simVars, supVars, Sup!vars, Sup!procVars
<1>4. CASE Walk
    BY <1>4 DEF Walk, ScanStart, Scan, AppNoticePastEnd, KillNotice, Sup!Next
<1>5. CASE \E p \in Sup!Pids : ProcessExit(p)
    BY <1>5 DEF ProcessExit, Sup!Next
<1>6. CASE UNCHANGED vars
    BY <1>6 DEF vars, supVars, Sup!vars, Sup!procVars
<1>7. QED BY <1>1, <1>2, <1>3, <1>4, <1>5, <1>6 DEF Next, Serve

(* Every step of the server is a step of the sessions or leaves them       *)
(* alone; that a kill script exits only while one is pending is            *)
(* Supervisor's invariant.                                                 *)
LEMMA NextIsHostServers == [Next]_vars => [Host!Next]_(Host!vars)
<1> SUFFICES ASSUME [Next]_vars PROVE Host!Next \/ UNCHANGED Host!vars
    OBVIOUS
<1> USE DEF Host!Next, Host!Serve
<1>1. ASSUME NEW i \in Host!Sessions, Serve(i) \/ SessionCrashes(i) \/ ConnectionReset(i) PROVE Host!Next
    BY <1>1 DEF Serve, StartSim, StopSim, SpawnFails, SessionCrashes, SessionHandles, ConnectionReset
<1>2. CASE Accept \/ AcceptError \/ Peers
    BY <1>2 DEF Accept, AcceptError, Peers
<1>3. ASSUME NEW p \in Sup!Pids, ProcessExit(p) \/ Scan(p) \/ ScanStart \/ AppNoticePastEnd(p) \/ KillNotice(p)
      PROVE  Host!Next \/ UNCHANGED Host!vars
    <2>1. CASE ProcessExit(p) \/ Scan(p) \/ ScanStart
        BY <2>1 DEF ProcessExit, Scan, ScanStart, Sup!ProcessExit, Sup!ScanAlive, Sup!AppNotice, Sup!ScanStart,
                    hostVars, Host!vars, Host!simVars, Host!mapVars, Host!netVars, Host!peerVars
    <2>2. CASE AppNoticePastEnd(p)
        <3>1. CASE Host!EndsElsewhere
            BY <3>1
        <3>2. CASE up' /\ UNCHANGED hostVars
            BY <2>2, <3>2 DEF AppNoticePastEnd, Sup!AppNoticePastEnd, Sup!Notice, Sup!Visits,
                    hostVars, Host!vars, Host!simVars, Host!mapVars, Host!netVars, Host!peerVars
        <3>3. QED BY <2>2, <3>1, <3>2 DEF AppNoticePastEnd
    <2>3. CASE KillNotice(p)
        BY <2>3 DEF KillNotice
    <2>4. QED BY <1>3, <2>1, <2>2, <2>3
<1>4. CASE ScanStart
    BY <1>4 DEF ScanStart, Sup!ScanStart, hostVars, Host!vars, Host!simVars, Host!mapVars, Host!netVars, Host!peerVars
<1>5. CASE UNCHANGED vars
    BY <1>5 DEF vars, hostVars, Host!vars, Host!simVars, Host!mapVars, Host!netVars, Host!peerVars
<1>6. QED BY <1>1, <1>2, <1>3, <1>4, <1>5 DEF Next, Walk

(* The server implements its process table and its sessions, for every     *)
(* number of applications, processes, sessions and commands (the safety    *)
(* part of ImplementsSupervisor and ImplementsHostServer).                 *)
THEOREM ServerRefinesItsParts ==
    Spec => /\ Sup!Init /\ [][Sup!Next]_(Sup!vars)
            /\ Host!Init /\ [][Host!Next]_(Host!vars)
BY NextIsSupervisors, NextIsHostServers, PTL DEF Spec, Init

(* A client that was told "off" is right: no application runs.  The        *)
(* sessions know that what it was told is sim_started (StatusAgreement),   *)
(* the process table that sim_started is true (SimOffMeansNothingRuns).    *)
THEOREM OffReachesTheClientOnlyWhenOff == Spec => []ToldOffMeansOff
<1> USE ServerAssumption, SameSupervisor, SameHostServer
<1>1. Init => SupP!IInv /\ HostP!IInv
    BY SupP!InitEstablishesIInv, HostP!InitEstablishesIInv DEF Init
<1>2. SupP!IInv /\ HostP!IInv /\ [Next]_vars => SupP!IInv' /\ HostP!IInv'
    BY NextIsSupervisors, NextIsHostServers, SupP!NextKeepsIInv, HostP!NextKeepsIInv
<1>3. SupP!IInv /\ HostP!IInv => ToldOffMeansOff
    <2>1. SupP!IInv /\ HostP!IInv => Sup!SimOffMeansNothingRuns /\ Host!StatusAgreement
        BY DEF SupP!IInv, HostP!IInv
    <2>2. Sup!SimOffMeansNothingRuns /\ Host!StatusAgreement => ToldOffMeansOff
        BY DEF Sup!SimOffMeansNothingRuns, Host!StatusAgreement, Host!StatusOf, ToldOffMeansOff
    <2>3. QED BY <2>1, <2>2
<1>4. QED BY <1>1, <1>2, <1>3, PTL DEF Spec

=============================================================================
