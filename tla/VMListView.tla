----------------------------- MODULE VMListView -----------------------------
(***************************************************************************)
(* The lists of virtual machines in the controller.  When the connection   *)
(* thread has decoded a VM_LIST it posts the lists to four Dart ports, one *)
(* element at a time (create_client in shadow_client_backend.cpp); the     *)
(* listeners of the ports (ShadowClientCAPI in shadow_client_c_api.dart)   *)
(* put them together again and publish them to the widgets.                *)
(*                                                                         *)
(* All ports belong to one isolate, whose messages are handled in the      *)
(* order in which they were posted; but frames are drawn and the           *)
(* connection comes and goes in between.                                   *)
(***************************************************************************)
EXTENDS Integers, Sequences, SequencesExt

CONSTANTS
    Null,           \* Dart's null
    MaxVMs,         \* bound: machines in a VM_LIST
    MaxSnaps,       \* bound: snapshots of a machine
    MaxMessages,    \* bound: VM_LISTs ever decoded
    MaxResets       \* bound: connections made or reset

ASSUME VMListViewAssumption ==
    /\ MaxVMs \in Nat \ {0}
    /\ MaxSnaps \in Nat
    /\ MaxMessages \in Nat
    /\ MaxResets \in Nat

VARIABLES
    decoded,            \* history: the VM_LISTs decoded so far
    due,                \* history: the VM_LISTs the widgets are due to show
    link,               \* the connection; "late" if a read completed before it was lost
    resets,             \* connections made or reset so far
    inbox,              \* posted to the ports and not handled yet
    serverConnected,
    vmList, vmRunningList, snapLists,   \* published
    tempVMList, tempVMrunningList,      \* half filled
    tempSnap                            \* half filled: tempSnapNames*, tempSnapDesc*

backend == <<decoded, due, link, resets>>
published == <<serverConnected, vmList, vmRunningList, snapLists>>
temporary == <<tempVMList, tempVMrunningList, tempSnap>>
viewVars == <<backend, inbox, published, temporary>>

(* A VM_LIST says how many snapshots each machine has.  Names, states and  *)
(* descriptions are abstracted to where they come from: the message, the   *)
(* machine and the snapshot.                                               *)
VMLists == UNION {[1..n -> 0..MaxSnaps] : n \in 0..MaxVMs}
Machines(id) == IF id = 0 THEN << >> ELSE [i \in 1..Len(decoded[id]) |-> <<id, i>>]
Snaps(id) ==
    IF id = 0 THEN << >>
    ELSE [i \in 1..Len(decoded[id]) |-> [k \in 1..decoded[id][i] |-> <<id, i, k>>]]

SnapPorts == {"snapNamesPort", "snapDescPort"}

MachineName == (1..MaxMessages) \X (1..MaxVMs)
SnapName == (1..MaxMessages) \X (1..MaxVMs) \X (1..MaxSnaps)

(* Null is neither an index nor a list.                                    *)
ASSUME NullAssumption ==
    /\ Null \notin Int
    /\ Null \notin Seq(MachineName)

Post ==
         [port : {"connectionPort"}, status : BOOLEAN]
    \cup [port : {"vmRunningListPort"}, data : Seq(MachineName)]
    \cup [port : {"vmListPort"}, name : MachineName]
    \cup [port : SnapPorts, size : 0..MaxSnaps]
    \cup [port : SnapPorts, name : SnapName]

TypeOK ==
    /\ decoded \in Seq(VMLists) /\ Len(decoded) <= MaxMessages
    /\ due \in [machines : 0..Len(decoded), snaps : 0..Len(decoded)]
    /\ link \in {"down", "late", "up"}
    /\ resets \in 0..MaxResets
    /\ inbox \in Seq(Post)
    /\ serverConnected \in BOOLEAN
    /\ vmList \in Seq(MachineName) /\ Len(vmList) <= MaxVMs
    /\ vmRunningList \in Seq(MachineName) \cup {Null}
    /\ snapLists \in [SnapPorts -> Seq(Seq(SnapName))]
    /\ tempVMList \in Seq(MachineName) /\ Len(tempVMList) < MaxVMs
    /\ tempVMrunningList \in Seq(MachineName) \cup {Null}
    /\ tempSnap \in [SnapPorts -> [inner : Seq(SnapName), size : 0..MaxSnaps, outer : Seq(Seq(SnapName))]]
    /\ \A p \in SnapPorts :
           /\ Len(tempSnap[p].inner) <= tempSnap[p].size
           /\ Len(tempSnap[p].outer) < MaxVMs

ViewInit ==
    /\ decoded = << >>
    /\ due = [machines |-> 0, snaps |-> 0]
    /\ link = "down"
    /\ resets = 0
    /\ inbox = << >>
    /\ serverConnected = FALSE
    /\ vmList = << >>
    /\ vmRunningList = Null
    /\ snapLists = [p \in SnapPorts |-> << >>]
    /\ tempVMList = << >>
    /\ tempVMrunningList = Null
    /\ tempSnap = [p \in SnapPorts |-> [inner |-> << >>, size |-> 0, outer |-> << >>]]

-----------------------------------------------------------------------------
(* The connection thread.                                                  *)

(* The snapshots of all machines, to one port: for each machine their      *)
(* number and then each of them.                                           *)
SnapPosts(p, vms, id) ==
    FlattenSeq([i \in 1..Len(vms) |->
        <<[port |-> p, size |-> vms[i]]>> \o [k \in 1..vms[i] |-> [port |-> p, name |-> <<id, i, k>>]]])

(* Broken variant of VMListPosts: the snapshots come before the machines.  *)
VMListPostsSnapsFirst(vms, id) ==
    LET machines == [i \in 1..Len(vms) |-> <<id, i>>] IN
       SnapPosts("snapNamesPort", vms, id)
    \o SnapPosts("snapDescPort", vms, id)
    \o <<[port |-> "vmRunningListPort", data |-> machines]>>
    \o [i \in 1..Len(vms) |-> [port |-> "vmListPort", name |-> machines[i]]]

(* What vm_list_callback posts for a VM_LIST.                              *)
VMListPosts(vms, id) ==
    LET machines == [i \in 1..Len(vms) |-> <<id, i>>] IN
       <<[port |-> "vmRunningListPort", data |-> machines]>>
    \o [i \in 1..Len(vms) |-> [port |-> "vmListPort", name |-> machines[i]]]
    \o SnapPosts("snapNamesPort", vms, id)
    \o SnapPosts("snapDescPort", vms, id)

(* A VM_LIST has been decoded.  The last one may come from a read that had *)
(* completed when the connection was reset, and whose handler ran after.   *)
(* A VM_LIST without machines is posted, and changes nothing: the view is  *)
(* due to show the one before.                                             *)
VMListCallback(vms) ==
    /\ Len(decoded) < MaxMessages
    /\ link # "down"
    /\ link' = IF link = "late" THEN "down" ELSE link
    /\ decoded' = Append(decoded, vms)
    /\ inbox' = inbox \o VMListPosts(vms, Len(decoded) + 1)
    /\ due' = IF vms = << >> THEN due ELSE [machines |-> Len(decoded) + 1, snaps |-> Len(decoded) + 1]
    /\ UNCHANGED <<resets, published, temporary>>

ConnectionCallback(status) ==
    /\ resets < MaxResets
    /\ resets' = resets + 1
    /\ inbox' = Append(inbox, [port |-> "connectionPort", status |-> status])
    /\ UNCHANGED <<decoded, published, temporary>>

Connected ==
    /\ link # "up"
    /\ link' = "up"
    /\ ConnectionCallback(TRUE)
    /\ UNCHANGED due

(* Every reset says so, and a connection may be reset more than once, by   *)
(* the handlers of its several operations.                                 *)
Reset ==
    /\ IF link = "up"
       THEN link' = "late" /\ due' = [due EXCEPT !.machines = 0]
       ELSE UNCHANGED <<link, due>>
    /\ ConnectionCallback(FALSE)

-----------------------------------------------------------------------------
(* The listeners.                                                          *)

Take(port) ==
    /\ inbox # << >>
    /\ Head(inbox).port = port
    /\ inbox' = Tail(inbox)

(* Broken variant of HearConnection: resetAll forgets the states.          *)
HearConnectionKeepsStates ==
    /\ Take("connectionPort")
    /\ serverConnected' = Head(inbox).status
    /\ IF serverConnected /\ ~Head(inbox).status
       THEN vmList' = << >>
       ELSE UNCHANGED vmList
    /\ UNCHANGED <<backend, vmRunningList, snapLists, temporary>>

(* The connection is made, or lost, when resetAll clears the machines but  *)
(* not the snapshots; what is not news is ignored.                         *)
HearConnection ==
    /\ Take("connectionPort")
    /\ serverConnected' = Head(inbox).status
    /\ IF serverConnected /\ ~Head(inbox).status
       THEN vmList' = << >> /\ vmRunningList' = Null
       ELSE UNCHANGED <<vmList, vmRunningList>>
    /\ UNCHANGED <<backend, snapLists, temporary>>

HearRunningList ==
    /\ Take("vmRunningListPort")
    /\ tempVMrunningList' = Head(inbox).data
    /\ UNCHANGED <<backend, published, tempVMList, tempSnap>>

(* Names and states are published when there are as many of the one as of  *)
(* the other.                                                              *)
HearName ==
    LET names == Append(tempVMList, Head(inbox).name) IN
    /\ Take("vmListPort")
    /\ IF tempVMrunningList # Null /\ Len(names) = Len(tempVMrunningList)
       THEN /\ vmList' = names
            /\ vmRunningList' = tempVMrunningList
            /\ tempVMList' = << >>
            /\ tempVMrunningList' = << >>
       ELSE /\ tempVMList' = names
            /\ UNCHANGED <<vmList, vmRunningList, tempVMrunningList>>
    /\ UNCHANGED <<backend, serverConnected, snapLists, tempSnap>>

(* Broken variant of Gather: a machine without snapshots is waited for     *)
(* until a snapshot of it comes.                                           *)
GatherSkipsEmpty(temp, post) ==
    LET sized == "size" \in DOMAIN post
        size == IF sized THEN post.size ELSE temp.size
        inner == IF sized THEN << >> ELSE Append(temp.inner, post.name)
        whole == ~sized /\ Len(inner) = size
    IN [inner |-> IF whole THEN << >> ELSE inner,
        size |-> size,
        outer |-> IF whole THEN Append(temp.outer, inner) ELSE temp.outer]

(* A number begins the list of a machine, anything else is added to it; it *)
(* is whole, possibly at once, when it has as many elements as announced.  *)
Gather(temp, post) ==
    LET sized == "size" \in DOMAIN post
        size == IF sized THEN post.size ELSE temp.size
        inner == IF sized THEN << >> ELSE Append(temp.inner, post.name)
        whole == Len(inner) = size
    IN [inner |-> IF whole THEN << >> ELSE inner,
        size |-> size,
        outer |-> IF whole THEN Append(temp.outer, inner) ELSE temp.outer]

(* The lists of all machines are published when there are as many as there *)
(* are machines on display.                                                *)
HearSnap(p) ==
    /\ Take(p)
    /\ LET temp == Gather(tempSnap[p], Head(inbox)) IN
       IF Len(temp.outer) = Len(vmList)
       THEN /\ snapLists' = [snapLists EXCEPT ![p] = temp.outer]
            /\ tempSnap' = [tempSnap EXCEPT ![p] = [temp EXCEPT !.outer = << >>]]
       ELSE /\ tempSnap' = [tempSnap EXCEPT ![p] = temp]
            /\ UNCHANGED snapLists
    /\ UNCHANGED <<backend, serverConnected, vmList, vmRunningList, tempVMList, tempVMrunningList>>

-----------------------------------------------------------------------------
Hear == HearConnection \/ HearRunningList \/ HearName \/ \E p \in SnapPorts : HearSnap(p)

ViewNext ==
    \/ \E vms \in VMLists : VMListCallback(vms)
    \/ Connected
    \/ Reset
    \/ Hear

ViewSpec == ViewInit /\ [][ViewNext]_viewVars

-----------------------------------------------------------------------------
(* Safety.                                                                 *)

(* The names and the states on display are those of one VM_LIST, machine   *)
(* by machine, whatever is half filled; or there are neither.              *)
StatesAreOfTheirMachines ==
    IF vmRunningList = Null THEN vmList = << >>
    ELSE vmList = vmRunningList /\ \E id \in 1..Len(decoded) : vmList = Machines(id)

(* When nothing is on its way the widgets show the last VM_LIST that had   *)
(* machines in it, all of its lists; and no machines after the connection  *)
(* was lost.  No half-filled list is left behind for the next to stumble   *)
(* over.                                                                   *)
SettledViewIsDue ==
    inbox = << >> =>
        /\ vmList = Machines(due.machines)
        /\ \A p \in SnapPorts : snapLists[p] = Snaps(due.snaps)
        /\ tempVMList = << >>
        /\ \A p \in SnapPorts : tempSnap[p].inner = << >> /\ tempSnap[p].outer = << >>

(* Snapshots are published whole and after their machines: all those of    *)
(* the VM_LIST whose machines are on display, under their own machine.     *)
SnapsJoinTheirMachines ==
    [][\A p \in SnapPorts : snapLists'[p] # snapLists[p] =>
           \E id \in 1..Len(decoded) : vmList = Machines(id) /\ snapLists'[p] = Snaps(id)]_viewVars
=============================================================================
