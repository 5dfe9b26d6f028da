-------------------------- MODULE HostServerProofs --------------------------
(***************************************************************************)
(* Proofs about HostServer for every number of sessions and of commands.   *)
(***************************************************************************)
EXTENDS HostServer, SequenceTheorems, TLAPS

(* Sessions are numbered in the order they are accepted, and a connection  *)
(* that still waits to be accepted was told nothing and owns nothing.      *)
Numbering ==
    /\ socket_map \subseteq 1..(client_number_count - 1)
    /\ \A i \in Sessions : i >= client_number_count =>
        i \notin informed /\ tx[i] = << >> /\ view[i] = NoStatus /\ ~InControl(i)

(* The inductive invariant.                                                *)
IInv ==
    /\ TypeOK
    /\ Numbering
    /\ StatusAgreement
    /\ ControllerIsConnected

-----------------------------------------------------------------------------
(* A broadcast puts the current status at the end of every stream that is  *)
(* still read, and touches no other.                                       *)
LEMMA BroadcastTellsAll ==
    ASSUME TypeOK, SendStatusUpdate, gone' = gone, socket_map' \subseteq Sessions, sim_started' \in BOOLEAN
    PROVE  /\ tx' \in [Sessions -> Seq(Status)]
           /\ informed' \subseteq Sessions
           /\ StatusAgreement'
           /\ \A i \in Sessions \ socket_map' : tx'[i] = tx[i] /\ (i \in informed' <=> i \in informed)
<1> DEFINE told == socket_map' \ gone
<1>1. \A i \in Sessions : StatusOf(i)' \in Status /\ tx[i] \in Seq(Status)
    BY DEF StatusOf, Status, TypeOK
<1>2. \A i \in told : /\ i \in informed'
                      /\ tx'[i] = Append(tx[i], StatusOf(i)')
    BY DEF SendStatusUpdate
<1>3. \A i \in Sessions \ told : tx'[i] = tx[i] /\ (i \in informed' <=> i \in informed)
    BY DEF SendStatusUpdate
<1>4. \A i \in Sessions : tx'[i] \in Seq(Status)
    <2>1. \A i \in told : Append(tx[i], StatusOf(i)') \in Seq(Status)
        BY <1>1, AppendProperties
    <2>2. QED BY <1>1, <1>2, <1>3, <2>1
<1>5. tx' \in [Sessions -> Seq(Status)] /\ informed' \subseteq Sessions
    BY <1>4 DEF SendStatusUpdate, TypeOK
<1>6. \A i \in told : LastTold(i)' = StatusOf(i)'
    <2> SUFFICES ASSUME NEW i \in told PROVE LastTold(i)' = StatusOf(i)'
        OBVIOUS
    <2>1. /\ tx'[i] # << >>
          /\ Len(tx'[i]) = Len(tx[i]) + 1
          /\ tx'[i][Len(tx[i]) + 1] = StatusOf(i)'
        BY <1>1, <1>2, AppendProperties
    <2>2. QED BY <2>1 DEF LastTold
<1>7. StatusAgreement'
    BY <1>2, <1>6 DEF StatusAgreement
<1>8. QED BY <1>3, <1>5, <1>7

(* What a handler that takes a command from a stream leaves as it was.     *)
LEMMA HandlesFrame ==
    ASSUME IInv, NEW i \in Sessions, NEW ms, Handles(i, ms)
    PROVE  /\ up /\ i \in socket_map
           /\ UNCHANGED <<accepting, client_number_count, socket_map, arrived, gone, view, clicks>>
           /\ rx' \in [Sessions -> Seq(Command)]
<1>1. rx[i] \in Seq(Command) /\ rx[i] # << >>
    BY DEF Handles, IInv, TypeOK
<1>2. Tail(rx[i]) \in Seq(Command)
    BY <1>1, HeadTailProperties
<1>3. QED BY <1>2 DEF Handles, IInv, TypeOK, mapVars, netVars, peerVars

(* A handler that broadcasts: with the types of what it set, the invariant *)
(* follows from what the broadcast tells.                                  *)
LEMMA BroadcastKeeps ==
    ASSUME IInv, SendStatusUpdate,
           UNCHANGED <<accepting, client_number_count, arrived, gone, view, clicks>>,
           socket_map' \subseteq socket_map, Sim!SimTypeOK', rx' \in [Sessions -> Seq(Command)],
           client_in_control_id' \in socket_map' \cup {NobodyYet, Nobody}
    PROVE  IInv'
<1>1. socket_map' \subseteq Sessions /\ socket_map \subseteq 1..(client_number_count - 1)
      /\ client_number_count \in Nat /\ TypeOK
    BY HostServerAssumption DEF IInv, TypeOK, Numbering
<1>2. /\ tx' \in [Sessions -> Seq(Status)]
      /\ informed' \subseteq Sessions
      /\ StatusAgreement'
      /\ \A i \in Sessions \ socket_map' : tx'[i] = tx[i] /\ (i \in informed' <=> i \in informed)
    BY <1>1, BroadcastTellsAll DEF Sim!SimTypeOK
<1>3. TypeOK'
    BY <1>1, <1>2 DEF TypeOK
<1>4. Numbering'
    <2>1. \A i \in Sessions : i >= client_number_count => i \notin socket_map'
        BY <1>1 DEF Sessions
    <2>2. \A i \in Sessions : i >= client_number_count => i # NobodyYet /\ i # Nobody
        BY DEF Sessions, NobodyYet, Nobody
    <2>3. QED BY <1>1, <1>2, <2>1, <2>2 DEF IInv, Numbering, InControl
<1>5. ControllerIsConnected'
    BY DEF ControllerIsConnected
<1>6. QED BY <1>2, <1>3, <1>4, <1>5 DEF IInv

LEMMA AcceptKeeps ==
    ASSUME IInv, Accept \/ AcceptError PROVE IInv'
<1> USE HostServerAssumption
<1>1. CASE Accept
    <2> DEFINE n == client_number_count
    <2>1. /\ socket_map' = socket_map \cup {n} /\ client_number_count' = n + 1
          /\ n \in Sessions /\ n \in Nat
          /\ UNCHANGED <<simVars, accepting, client_in_control_id, arrived, gone, rx, tx, informed, view, clicks>>
        BY <1>1 DEF Accept, IInv, TypeOK, Sessions, netVars, peerVars
    <2>2. TypeOK'
        BY <2>1 DEF IInv, TypeOK, Sim!SimTypeOK, simVars, Sessions
    <2>3. Numbering'
        <3>1. socket_map' \subseteq 1..(client_number_count' - 1)
            BY <2>1 DEF IInv, Numbering, Sessions
        <3>2. \A i \in Sessions : i >= client_number_count' => i >= client_number_count
            BY <2>1 DEF Sessions
        <3>3. QED BY <2>1, <3>1, <3>2 DEF IInv, Numbering, InControl
    <2>4. n \notin informed /\ LastTold(n) = NoStatus /\ ~InControl(n)
        BY <2>1 DEF IInv, Numbering, LastTold
    <2>5. StatusAgreement'
        BY <2>1, <2>4 DEF IInv, StatusAgreement, LastTold, InControl, StatusOf, simVars
    <2>6. ControllerIsConnected'
        BY <2>1 DEF IInv, ControllerIsConnected, simVars
    <2>7. QED BY <2>2, <2>3, <2>5, <2>6 DEF IInv
<1>2. CASE AcceptError
    BY <1>2 DEF AcceptError, IInv, TypeOK, Sim!SimTypeOK, Numbering, StatusAgreement, ControllerIsConnected,
        LastTold, InControl, StatusOf, simVars, netVars, peerVars
<1>3. QED BY <1>1, <1>2

LEMMA CommandKeeps ==
    ASSUME IInv, NEW i \in Sessions,
           HandleTakeControl(i) \/ HandleStartSim(i) \/ HandleStopSim(i) \/ HandleSimics(i) \/ HandleIgnored(i)
    PROVE  IInv'
<1>1. ASSUME NEW ms, Handles(i, ms), UNCHANGED client_in_control_id \/ client_in_control_id' = i,
             Sim!SimTypeOK', SendStatusUpdate
      PROVE  IInv'
    <2>1. /\ UNCHANGED <<accepting, client_number_count, socket_map, arrived, gone, view, clicks>>
          /\ rx' \in [Sessions -> Seq(Command)]
          /\ up /\ i \in socket_map
        BY <1>1, HandlesFrame
    <2>2. client_in_control_id' \in socket_map' \cup {NobodyYet, Nobody}
        BY <1>1, <2>1 DEF IInv, ControllerIsConnected
    <2>3. QED BY <1>1, <2>1, <2>2, BroadcastKeeps
<1>2. ASSUME NEW ms, Handles(i, ms), UNCHANGED <<sim_started, up, client_in_control_id, tx, informed>>, Sim!SimTypeOK'
      PROVE  IInv'
    <2>1. /\ UNCHANGED <<accepting, client_number_count, socket_map, arrived, gone, view, clicks>>
          /\ rx' \in [Sessions -> Seq(Command)]
        BY <1>2, HandlesFrame
    <2>2. QED
        BY <1>2, <2>1 DEF IInv, TypeOK, Numbering, StatusAgreement, ControllerIsConnected, LastTold, InControl, StatusOf
<1>3. CASE HandleTakeControl(i)
    BY <1>1, <1>3 DEF HandleTakeControl, IInv, TypeOK, Sim!SimTypeOK, simVars
<1>4. CASE HandleStartSim(i)
    BY <1>1, <1>4 DEF HandleStartSim, IInv, TypeOK, Sim!SimTypeOK, Sim!PowerOn
<1>5. CASE HandleStopSim(i)
    BY <1>2, <1>5 DEF HandleStopSim, IInv, TypeOK, Sim!SimTypeOK, Sim!PowerOff
<1>6. CASE HandleSimics(i)
    BY <1>1, <1>6 DEF HandleSimics, IInv, TypeOK, Sim!SimTypeOK, simVars
<1>7. CASE HandleIgnored(i)
    <2>1. \E ms : Handles(i, ms)
        BY <1>7 DEF HandleIgnored
    <2>2. UNCHANGED <<simVars, client_in_control_id, tx, informed>>
        BY <1>7 DEF HandleIgnored
    <2>3. QED BY <1>2, <2>1, <2>2 DEF IInv, TypeOK, Sim!SimTypeOK, simVars
<1>8. QED BY <1>3, <1>4, <1>5, <1>6, <1>7

LEMMA KillScriptExitsKeeps ==
    ASSUME IInv, KillScriptExits PROVE IInv'
<1>1. /\ UNCHANGED <<accepting, client_number_count, socket_map, client_in_control_id, arrived, gone, rx, view, clicks>>
      /\ SendStatusUpdate
    BY DEF KillScriptExits, mapVars, netVars, peerVars
<1>2. Sim!SimTypeOK' /\ up
    BY DEF KillScriptExits, Sim!KillExit, IInv, TypeOK, Sim!SimTypeOK
<1>3. /\ socket_map' \subseteq socket_map /\ rx' \in [Sessions -> Seq(Command)]
      /\ client_in_control_id' \in socket_map' \cup {NobodyYet, Nobody}
    BY <1>1, <1>2 DEF IInv, TypeOK, ControllerIsConnected
<1>4. QED BY <1>1, <1>2, <1>3, BroadcastKeeps

LEMMA ResetKeeps ==
    ASSUME IInv, NEW i \in Sessions, Reset(i) PROVE IInv'
<1>1. /\ up /\ socket_map' = socket_map \ {i}
      /\ UNCHANGED <<up, sim_started, processing_kill, accepting, client_number_count, arrived, gone, view, clicks>>
    BY DEF Reset, simVars, netVars, peerVars
<1>2. rx' \in [Sessions -> Seq(Command)]
    <2>1. << >> \in Seq(Command)
        BY EmptySeq
    <2>2. QED BY <2>1 DEF Reset, IInv, TypeOK
<1>3. Sim!SimTypeOK'
    BY <1>1 DEF IInv, TypeOK, Sim!SimTypeOK
<1>4. CASE client_in_control_id' = Nobody /\ SendStatusUpdate
    BY <1>1, <1>2, <1>3, <1>4, BroadcastKeeps
<1>5. CASE ~InControl(i) /\ UNCHANGED <<client_in_control_id, tx, informed>>
    BY <1>1, <1>2, <1>3, <1>5
    DEF IInv, TypeOK, Numbering, StatusAgreement, ControllerIsConnected, LastTold, InControl, StatusOf
<1>6. QED BY <1>4, <1>5 DEF Reset

(* Once the server has ended, its sessions are no promise any more.        *)
LEMMA AbortKeeps ==
    ASSUME IInv, \/ \E i \in Sessions : SpawnFails(i) \/ ResetCrashes(i)
                 \/ EndsElsewhere
    PROVE  IInv'
<1>1. /\ Sim!SimTypeOK' /\ ~up'
      /\ UNCHANGED <<client_in_control_id, tx, informed>>
    BY DEF SpawnFails, ResetCrashes, EndsElsewhere, Sim!Abort, IInv, TypeOK, Sim!SimTypeOK
<1>2. /\ UNCHANGED <<accepting, client_number_count, socket_map, arrived, gone, view, clicks>>
      /\ rx' \in [Sessions -> Seq(Command)]
    <2>1. CASE \E i \in Sessions : SpawnFails(i)
        BY <2>1, HandlesFrame DEF SpawnFails
    <2>2. CASE EndsElsewhere \/ \E i \in Sessions : ResetCrashes(i)
        BY <2>2 DEF ResetCrashes, EndsElsewhere, mapVars, netVars, peerVars, IInv, TypeOK
    <2>3. QED BY <2>1, <2>2
<1>3. QED
    BY <1>1, <1>2 DEF IInv, TypeOK, Numbering, StatusAgreement, ControllerIsConnected, InControl

LEMMA EmptyHasLengthZero ==
    ASSUME NEW S, NEW s \in Seq(S)
    PROVE  Len(s) \in Nat /\ (s = << >> <=> Len(s) = 0)
BY EmptySeq

LEMMA PeerKeeps ==
    ASSUME IInv,
           \/ Arrive
           \/ \E i \in Sessions : \/ PressTakeControl(i) \/ PressStart(i) \/ PressStop(i) \/ PressPlay(i)
                                  \/ Receive(i) \/ Leave(i)
    PROVE  IInv'
<1>1. CASE Arrive
    <2>1. arrived' \in 0..MaxSessions
        BY <1>1, HostServerAssumption DEF Arrive, IInv, TypeOK
    <2>2. QED
        BY <1>1, <2>1 DEF Arrive, IInv, TypeOK, Sim!SimTypeOK, Numbering, StatusAgreement, ControllerIsConnected,
            LastTold, InControl, StatusOf, simVars, mapVars, peerVars
<1>2. ASSUME NEW i \in Sessions, NEW cmd \in Command, NEW enabled, Press(i, cmd, enabled) PROVE IInv'
    <2>1. clicks' \in 0..MaxClicks
        BY <1>2, HostServerAssumption DEF Press, IInv, TypeOK
    <2>2. rx' \in [Sessions -> Seq(Command)]
        <3>1. rx[i] \in Seq(Command)
            BY DEF IInv, TypeOK
        <3>2. Append(rx[i], cmd) \in Seq(Command)
            BY <3>1, AppendProperties
        <3>3. QED BY <1>2, <3>2 DEF Press, IInv, TypeOK
    <2>3. QED
        BY <1>2, <2>1, <2>2 DEF Press, IInv, TypeOK, Sim!SimTypeOK, Numbering, StatusAgreement,
            ControllerIsConnected, LastTold, InControl, StatusOf, simVars, mapVars, netVars
<1>3. ASSUME NEW i \in Sessions, Receive(i) PROVE IInv'
    <2>1. /\ tx[i] # << >> /\ tx[i] \in Seq(Status) /\ i \notin gone
          /\ view' = [view EXCEPT ![i] = Head(tx[i])]
          /\ tx' = [tx EXCEPT ![i] = Tail(tx[i])]
          /\ UNCHANGED <<simVars, mapVars, client_in_control_id, netVars, rx, informed, clicks>>
        BY <1>3 DEF Receive, Peer, IInv, TypeOK
    <2>2. /\ Head(tx[i]) \in Status /\ Tail(tx[i]) \in Seq(Status)
          /\ Len(Tail(tx[i])) = Len(tx[i]) - 1
          /\ \A k \in 1..Len(Tail(tx[i])) : Tail(tx[i])[k] = tx[i][k + 1]
        BY <2>1, HeadTailProperties
    <2>3. TypeOK'
        BY <2>1, <2>2 DEF IInv, TypeOK, Sim!SimTypeOK, simVars, mapVars, netVars
    <2>4. Numbering'
        BY <2>1 DEF IInv, TypeOK, Numbering, InControl, mapVars
    <2>5. LastTold(i)' = LastTold(i)
        <3> DEFINE rest == Tail(tx[i])
        <3>1. /\ Len(tx[i]) \in Nat \ {0} /\ Head(tx[i]) = tx[i][1]
              /\ tx'[i] = rest /\ view'[i] = tx[i][1]
            BY <2>1, EmptyHasLengthZero DEF IInv, TypeOK
        <3>2. rest \in Seq(Status) /\ Len(rest) = Len(tx[i]) - 1
            BY <2>2
        <3>3. rest = << >> <=> Len(tx[i]) = 1
            <4> HIDE DEF rest
            <4>1. Len(rest) \in Nat /\ (rest = << >> <=> Len(rest) = 0)
                BY <3>2, EmptyHasLengthZero
            <4>2. QED BY <3>1, <3>2, <4>1
        <3>4. CASE Len(tx[i]) = 1
            BY <2>1, <3>1, <3>3, <3>4 DEF LastTold
        <3>5. CASE Len(tx[i]) # 1
            <4>1. Len(rest) \in 1..Len(rest) /\ Len(rest) + 1 = Len(tx[i])
                <5> DEFINE n == Len(tx[i])
                           m == Len(rest)
                <5>1. n \in Nat \ {0} /\ n # 1 /\ m = n - 1
                    BY <3>1, <3>2, <3>5
                <5> HIDE DEF n, m
                <5>2. m \in 1..m /\ m + 1 = n
                    BY <5>1
                <5>3. QED BY <5>2 DEF n, m
            <4>2. rest[Len(rest)] = tx[i][Len(tx[i])]
                BY <2>2, <4>1
            <4>3. QED BY <2>1, <3>1, <3>3, <3>5, <4>2 DEF LastTold
        <3>6. QED BY <3>4, <3>5
    <2>6. \A k \in Sessions : LastTold(k)' = LastTold(k)
        BY <2>1, <2>5 DEF LastTold, IInv, TypeOK
    <2>7. StatusAgreement' /\ ControllerIsConnected'
        BY <2>1, <2>6 DEF IInv, TypeOK, StatusAgreement, ControllerIsConnected, StatusOf, InControl,
            simVars, mapVars, netVars
    <2>8. QED BY <2>3, <2>4, <2>7 DEF IInv
<1>4. ASSUME NEW i \in Sessions, Leave(i) PROVE IInv'
    <2>1. /\ gone' = gone \cup {i}
          /\ view' = [view EXCEPT ![i] = NoStatus]
          /\ tx' = [tx EXCEPT ![i] = << >>]
          /\ UNCHANGED <<simVars, mapVars, client_in_control_id, arrived, rx, informed, clicks>>
        BY <1>4 DEF Leave
    <2>2. NoStatus \in Status /\ << >> \in Seq(Status)
        BY EmptySeq DEF NoStatus, Status
    <2>3. TypeOK'
        BY <2>1, <2>2 DEF IInv, TypeOK, Sim!SimTypeOK, simVars, mapVars
    <2>4. Numbering'
        BY <2>1 DEF IInv, TypeOK, Numbering, InControl, mapVars
    <2>5. StatusAgreement' /\ ControllerIsConnected'
        BY <2>1 DEF IInv, TypeOK, StatusAgreement, ControllerIsConnected, LastTold, StatusOf, InControl,
            simVars, mapVars
    <2>6. QED BY <2>3, <2>4, <2>5 DEF IInv
<1>5. QED BY <1>1, <1>2, <1>3, <1>4 DEF PressTakeControl, PressStart, PressStop, PressPlay, Command

-----------------------------------------------------------------------------
LEMMA InitEstablishesIInv == Init => IInv
<1> SUFFICES ASSUME Init PROVE IInv
    OBVIOUS
<1>1. << >> \in Seq(Command) /\ << >> \in Seq(Status) /\ NoStatus \in Status
    BY EmptySeq DEF NoStatus, Status
<1>2. TypeOK
    <2>1. client_number_count \in 1..(MaxSessions + 1) /\ arrived \in 0..MaxSessions /\ clicks \in 0..MaxClicks
        BY HostServerAssumption DEF Init
    <2>2. Sim!SimTypeOK /\ accepting \in BOOLEAN /\ client_in_control_id \in Sessions \cup {NobodyYet, Nobody}
        BY DEF Init, Sim!SimInit, Sim!SimTypeOK
    <2>3. socket_map \subseteq Sessions /\ gone \subseteq Sessions /\ informed \subseteq Sessions
        BY DEF Init
    <2>4. rx \in [Sessions -> Seq(Command)] /\ tx \in [Sessions -> Seq(Status)] /\ view \in [Sessions -> Status]
        BY <1>1 DEF Init
    <2>5. QED BY <2>1, <2>2, <2>3, <2>4 DEF TypeOK
<1>3. Numbering
    BY DEF Init, Numbering, InControl, Sessions, NobodyYet
<1>4. StatusAgreement /\ ControllerIsConnected
    BY DEF Init, StatusAgreement, ControllerIsConnected
<1>5. QED BY <1>2, <1>3, <1>4 DEF IInv

LEMMA NextKeepsIInv == IInv /\ [Next]_vars => IInv'
<1> SUFFICES ASSUME IInv, [Next]_vars PROVE IInv'
    OBVIOUS
<1>1. CASE Accept \/ AcceptError
    BY <1>1, AcceptKeeps
<1>2. CASE KillScriptExits \/ EndsElsewhere
    BY <1>2, KillScriptExitsKeeps, AbortKeeps
<1>3. ASSUME NEW i \in Sessions, Serve(i) \/ ConnectionReset(i) \/ ResetCrashes(i) PROVE IInv'
    BY <1>3, CommandKeeps, ResetKeeps, AbortKeeps DEF Serve, EndOfFile, ConnectionReset
<1>4. CASE \/ Arrive
           \/ \E i \in Sessions : \/ PressTakeControl(i) \/ PressStart(i) \/ PressStop(i) \/ PressPlay(i)
                                  \/ Receive(i) \/ Leave(i)
    BY <1>4, PeerKeeps
<1>5. CASE UNCHANGED vars
    BY <1>5 DEF vars, simVars, mapVars, netVars, peerVars, IInv, TypeOK, Sim!SimTypeOK, Numbering, StatusAgreement,
        ControllerIsConnected, LastTold, InControl, StatusOf
<1>6. QED BY <1>1, <1>2, <1>3, <1>4, <1>5 DEF Next

LEMMA SpecKeepsIInv == Spec => []IInv
BY InitEstablishesIInv, NextKeepsIInv, PTL DEF Spec

(* The sessions, the streams and the views are well formed.                *)
THEOREM HostServerTypeCorrect == Spec => []TypeOK
<1>1. IInv => TypeOK
    BY DEF IInv
<1>2. QED BY <1>1, SpecKeepsIInv, PTL

(* For any number of clients and of commands: the last status on its way   *)
(* to a client is the current one, and a client that was told nothing is   *)
(* not in control.                                                         *)
THEOREM ClientsAgreeWithServer == Spec => []StatusAgreement
<1>1. IInv => StatusAgreement
    BY DEF IInv
<1>2. QED BY <1>1, SpecKeepsIInv, PTL

(* For any number of clients: control is never held by a session that has  *)
(* ended.                                                                  *)
THEOREM ControlDiesWithItsSession == Spec => []ControllerIsConnected
<1>1. IInv => ControllerIsConnected
    BY DEF IInv
<1>2. QED BY <1>1, SpecKeepsIInv, PTL

(* For any number of clients: control passes to a session that asks for    *)
(* it, or is given up by one that ends; a session that ends takes it from  *)
(* no other.                                                               *)
THEOREM ControlHasTwoWays == Spec => ControlIsTakenOrLeft
<1> DEFINE Moved == client_in_control_id' # client_in_control_id =>
        \/ /\ client_in_control_id' \in socket_map
           /\ rx[client_in_control_id'] # << >>
           /\ Head(rx[client_in_control_id']) = "TAKE_CONTROL"
        \/ /\ client_in_control_id' = Nobody
           /\ client_in_control_id \in gone
           /\ client_in_control_id \notin socket_map'
<1>1. [Next]_vars => [Moved]_vars
    <2> SUFFICES ASSUME Next, client_in_control_id' # client_in_control_id PROVE Moved
        BY DEF vars
    <2>1. PICK i \in Sessions : HandleTakeControl(i) \/ Reset(i)
        BY DEF Next, Accept, AcceptError, KillScriptExits, EndsElsewhere, Arrive, Serve, ConnectionReset, EndOfFile,
               ResetCrashes, HandleStartSim, HandleStopSim, HandleSimics, HandleIgnored, SpawnFails,
               PressTakeControl, PressStart, PressStop, PressPlay, Press, Receive, Leave
    <2>2. CASE HandleTakeControl(i)
        BY <2>2 DEF HandleTakeControl, Handles
    <2>3. CASE Reset(i)
        BY <2>3 DEF Reset, InControl
    <2>4. QED BY <2>1, <2>2, <2>3
<1>2. QED BY <1>1, PTL DEF Spec, ControlIsTakenOrLeft

(* For any number of clients: no START and no STOP takes effect but as the *)
(* command of the session in control when it is handled.                   *)
THEOREM OnlyTheControllerCommands == Spec => CommandsNeedControl
<1> DEFINE Commanded == (sim_started' /\ ~sim_started) \/ (processing_kill' /\ ~processing_kill) =>
        \E i \in socket_map : InControl(i) /\ Len(rx'[i]) < Len(rx[i])
<1>1. IInv /\ [Next]_vars => [Commanded]_vars
    <2> SUFFICES ASSUME IInv, Next, (sim_started' /\ ~sim_started) \/ (processing_kill' /\ ~processing_kill)
                 PROVE  Commanded
        BY DEF vars
    <2>1. PICK i \in Sessions : HandleStartSim(i) \/ HandleStopSim(i)
        BY DEF Next, simVars, Accept, AcceptError, KillScriptExits, EndsElsewhere, Arrive, Serve, ConnectionReset,
               EndOfFile, Reset, ResetCrashes, HandleTakeControl, HandleSimics, HandleIgnored, SpawnFails,
               PressTakeControl, PressStart, PressStop, PressPlay, Press, Receive, Leave, Sim!KillExit, Sim!Abort
    <2>2. InControl(i) /\ i \in socket_map /\ rx[i] # << >> /\ rx' = [rx EXCEPT ![i] = Tail(@)]
        BY <2>1 DEF HandleStartSim, HandleStopSim, StartAccepted, StopAccepted, Handles
    <2>3. rx[i] \in Seq(Command) /\ rx'[i] = Tail(rx[i])
        BY <2>2 DEF IInv, TypeOK
    <2>4. Len(rx'[i]) < Len(rx[i])
        <3>1. ASSUME NEW s \in Seq(Command), s # << >> PROVE Len(Tail(s)) < Len(s)
            BY <3>1, HeadTailProperties
        <3>2. QED BY <2>2, <2>3, <3>1
    <2>5. QED BY <2>2, <2>4
<1>2. QED BY <1>1, SpecKeepsIInv, PTL DEF Spec, CommandsNeedControl

=============================================================================
