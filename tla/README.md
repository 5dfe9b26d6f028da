# Verification of save_and_restore

Save and Restore is a server (`shadow`) that starts and stops a set of
simulation applications on its host and watches VirtualBox, and a Flutter
controller from which several users may look at it, one of them being in
control. This directory holds TLA+ models of the parts of it that run
concurrently, TLC configurations that check them on small instances, and TLAPS
proofs of what matters most for instances of any size.

## 1. The system

| component | code | state | operations |
|---|---|---|---|
| process supervisor | `shadow/shadow.cpp`, callback of `Shadow`'s constructor | `children`, `kill_child`, `processing_kill`, the exit handlers registered with Boost.Process | START: spawn every script; STOP: spawn the kill script; the exit handlers of an application and of the kill script |
| session server | `shadow/host_server.cpp` | `socket_map`, `client_number_count`, `client_in_control_id`, `sim_started` | accept, read a command, take control, obey or ignore, broadcast MAIN_STATUS, disconnect |
| VM status feed | `shadow/vm_handler.cpp` (thread of its own), `Shadow::worker_thread`, `HostServer::update_vm_*` | `VMHandler`'s three lists, the tasks posted, `HostServer`'s three lists | poll VirtualBox each second, post, store, broadcast VM_LIST |
| VM operations | `shadow/vm_handler.cpp` | the VirtualBox session lock, progress objects | restore, save, start, stop, delete a snapshot (no callers yet) |
| snapshot tree | `shadow/vm_handler.cpp` (`list_snapshots`, `show_snapshots`) | none | flatten a tree of snapshots into a list |
| wire format | `shadow_host_server_message.hpp`, the encoders and decoders of `host_server.cpp` and `client.cpp` | buffers, the bytes in the sockets | write a message piece by piece, read a header, read its data, decode |
| command line | `shadow/main.cpp` | options | parse and validate |
| server process | `shadow/main.cpp`, constructor and destructor of `Shadow` and `VMHandler` | two threads, their `io_service`s, `std::exit` | start, serve, end |
| controller connection | `controller/shadow_client_backend/client.cpp` (thread of its own) | `connected`, `attempting_connection`, `timer_fired`, socket, buffers | connect, retry, read, write, reset |
| C bridge | `controller/shadow_client_backend/shadow_client_backend.cpp` | `client` | post commands to the connection's thread, post what it learns to Dart ports |
| Dart view | `controller/lib/shadow_client_c_api.dart` | status booleans, VM lists and their half-filled copies | listeners, `resetAll` |
| screens | `controller/lib/screens` | chosen machine and row, kept in `StateMaintained` | buttons, the save and restore screen |

How they interact:

* the server's main thread runs one `io_service`: accept, read and write
  handlers, the exits of child processes and tasks posted by the VM thread are
  handlers of the same loop, so each runs alone, but in any order;
* the session server calls the supervisor through `power_sim_callback`; the
  supervisor calls back `update_sim` and `send_status_update`, at once for a
  START and from the kill script's exit handler for a STOP;
* the VM thread shares nothing with the main thread but tasks it posts;
* controllers and server exchange TCP byte streams: commands one way,
  MAIN_STATUS, APP_INITIAL_STATUS and VM_LIST the other;
* in the controller the connection has a thread; buttons post to its
  `io_service`, and it posts to Dart ports.

What is hard: processes that die between any two steps while signals coalesce;
a second START over the first; commands of a user who was in control when the
button was pressed and no longer is; sessions that end with control; broadcasts
from several handlers; lists that travel one by one while VirtualBox changes;
completed reads that outlive the socket they were made on; retry timers; lists
that reach the widgets one element at a time; indices that outlive the lists
they point into; messages whose sizes are computed in one place, written in a
second and read in a third; VirtualBox work that goes on by itself while an
operation that asked for it fails.
`PROJECT.json` lists these hazards, each at its line, with the properties that
would show it going wrong.

## 2. Modules

`A <- B` says that B extends A; `=>` that a module implements another.

    SimLifecycle  <== Supervisor <- MCSupervisor, SupervisorProofs
          ^               ^
          | instance      | instance, <==
          |               |
          |         ShadowServer <- MCShadowServer, ShadowServerProofs
          |               |
          |               v instance, <==
          +--------- HostServer <- MCHostServer, HostServerProofs

    CommandLine <- ServerProcess <- ServerProcessProofs

    VMStatusFeed <- MCVMStatusFeed
    VMStatusFeed, VMOperations, SnapshotTree, SequenceLemmas <- VMHandlerProofs

    WireFormat <- MessageStream <- MCMessageStream
    MessageChannel <== MessageStream

    ControllerClient <- MCControllerClient
    ControllerClient, MessageStream, SequenceLemmas <- ConnectionProofs
    VMListView <- SaveAndRestoreScreen <- MCSaveAndRestoreScreen
    SaveAndRestoreScreen, SequenceLemmas <- SaveAndRestoreScreenProofs

VMStatusFeed, VMOperations and SnapshotTree are the three things that `VMHandler`
does. They share no state and are checked one by one; one module holds what is
proved of them, so their definitions have different names (`FeedInit`, `TreeNext`, ...).
The same goes for the two layers of the connection, ControllerClient and MessageStream.

### SimLifecycle

What the server promises of the simulation: off, on, being killed; the server
may abort. `PowerOn`, `PowerOff` and `KillExit` are the three ways in which
`power_sim_callback` and the kill script's exit change `sim_started` and
`processing_kill`. Its fairness says that a STOP that was accepted is completed.

### Supervisor

The process table behind those three. A pid is a process; `status` is what the
kernel knows of it, `children` the vector of handles (0 is a handle that was
reset), `receivers` the exit handlers registered with Boost.Process. Actions:
`PowerOn`, `PowerOnFails` (a script cannot be spawned: the exception leaves
`io_service.run`), `PowerOff`, `PowerOffFails`, `ProcessExit` (any process, any
time), `AppNotice`, `AppNoticePastEnd` and `KillNotice` (the exit handlers),
`EndsElsewhere` (the server ends for a reason that is not the supervisor's).

Boost.Process is external and modelled from how it serves a SIGCHLD: it walks
the registered receivers in the order of registration, asks `waitpid(WNOHANG)`
of each and calls the handlers of those that are gone. `ScanStart` begins such a
walk and `ScanAlive` and the notices visit one receiver each, so that a process
may die behind the walk's back; `sigchld` is the one pending signal.

Indexing `children` past its end is undefined behaviour: `AppNoticePastEnd` lets
the server survive with its state unharmed or end. `boost::process::child`
terminates its process when its last handle is destroyed; that is what
`children[i].reset()` does when slot i holds another instance than the one that
exited. The reuse of pids by the kernel is not modelled.

### HostServer

One action per command handler (`HandleTakeControl`, `HandleStartSim`,
`HandleStopSim`, `HandleSimics`, `HandleIgnored`), `Accept` and `AcceptError`,
the ends of a session (`EndOfFile` after all that the peer sent,
`ConnectionReset` before it, `ResetCrashes` because the session's object is
destroyed while its member function runs), `KillScriptExits`. Each handler is
whole: the broadcast it ends with is part of it. `rx` and `tx` are the two
directions of a connection, FIFO; that they carry messages and not bytes is what
MessageStream justifies. The controllers are in the module as far as
the server can tell: a button is enabled by what the controller shows
(`application_bar.dart`, `right_panel.dart`), which is the last status it
received. A controller that reconnects is a new session. The simulation is
SimLifecycle's: `HandleStartSim` is `Sim!PowerOn` plus the server's own part.

### ShadowServer

Supervisor and HostServer as the one process that they are. They share `up`,
`sim_started` and `processing_kill`, and what happens to both happens in one step:
`StartSim` and `StopSim` (the command that reaches `power_sim_callback`),
`SpawnFails`, `KillNotice` (clean-up, then the broadcast), `AppNoticePastEnd`
and `SessionCrashes` (what ends one ends the other). All else is a step of one
that leaves the other alone; handlers of sessions do not run inside the walk over
the receivers (`Sup!Idle`), because both are handlers of one `io_service`. The
fairness does not assume, as HostServer does, that kill scripts are noticed:
it assumes that the script ends and that the walk goes on, and
`ImplementsHostServer` checks that the rest follows. The properties of the whole
are those that no part can state: `ToldOffMeansOff` relates a byte on its way to
a client with the kernel's process table.

### CommandLine and ServerProcess

`CommandLine` is `main` up to `Shadow`: `ReadConfig` (the values of `--config`, read by
hand before Boost sees them), `Store` (Boost, external: throws at a word that is
no bool) and `Validate` (`Fits`, the comparison of sizes). `ServerProcess` is what
follows: `Construct`, then two threads, each with an `io_service` that returns
when nothing is outstanding (`RunOn`, evaluated after every handler). `Join` is
`~Shadow`, `SetUp` the VM thread's construction or its `std::exit`, `Poll` its
timer. Clients connect to a port that is open whether or not an accept is
outstanding. The options are dropped at `Construct`, so that what TLC explores of
the command line is not multiplied by the life of the server.

### VMStatusFeed

The VM thread asks VirtualBox for the list, the states and the snapshots
(`GetList`, `GetRunning`, `GetSnaps`) and posts them one by one, then a
broadcast (`PostList` ... `PostBroadcast`). `RunStore` and `RunBroadcast` are
the posted tasks, `Accept` the session that joins in between. A list is
abstracted to the version of VirtualBox it was read from and its length, because
the server compares lengths and nothing else. `Change` is VirtualBox; a question
that fails yields an empty list, as the code makes it.

### VMOperations

`restore_vm`, `save_vm`, `start_vm`, `stop_vm` and `delete_snapshot` as programs: `Program` is
the order of their calls, and an action is what a call of that kind does (`Look`,
`Lock`, `Act`, `LaunchVMProcess`, `ShowProgress`, `UnlockMachine`). `Fails` is an
error that the code looks at and that leads to the next `UnlockMachine`;
`FailsUnseen` one that it does not look at, after which the operation goes on with a null
progress object (`NullProgress`). `ProgressLost` is a question to a progress
object that fails while the work goes on. `works` is what VirtualBox is doing,
which ends by itself, well (`WorkDone`) or not (`WorkFails`); `Touch` is anyone
else who uses VirtualBox. `job` is the progress object the operation holds, so a
work outlives the operation that asked for it when that gives up.

### SnapshotTree

`ListSnapshots` computes for every tree of the bound, every snapshot whose children
cannot be read and every null pointer among them what `show_snapshots` appends,
depth first. Snapshots are numbered so that a child comes after its parent, and
the children of one in the order in which `GetChildren` returns them; every tree
can be numbered so. `EveryoneOnce` and `BranchesStayTogether` compare the list with a
definition of the tree that walks nothing. A single step per tree: the component
is a function.

### WireFormat and MessageStream

`WireFormat` holds the structures of `shadow_host_server_message.hpp` with their
sizes, padding included, the pieces into which each message is written (`Pieces`),
the size that is announced for them (`AnnouncedSize`, computed before, by other
code) and what the reader makes of the bytes (`Decode`). A byte is `[of, at]`,
the piece it belongs to and its offset, and a cast shows a structure only where
all its bytes lie in order: an offset that is wrong by one yields `Garbage`, a name
`Garbled`. Names are their lengths. `Message` is the set of all messages, with
lists of any length. The loops of encoders and decoders are recursive functions
of the number of turns (`Total`, `ReadEntries`, `ReadSnaps`, `ReadAllSnaps`), one
turn being an operator of its own (`NextEntry`, `NextSnap`, `NextSnaps`). The sums
are natural numbers: that a list of names reaches 2^32 bytes, where `shm.size`
would wrap, is left out.

`MessageStream` is one direction of a connection. A handler writes its pieces one
`async_write` each (`WritePiece`); what the socket does not take at once is
written after the handler has returned (`WriteLate`), from memory that is no
longer the message's (`StaleByte`). The reader fetches any part (`Fetch`) and
handles whole headers and whole data (`TakeHeader`, `TakeData`). It stops at
stale bytes, of which nothing can be said.

`MessageChannel` is what HostServer, VMStatusFeed and VMListView rely on: messages
arrive as they were sent, in order, each once, until the writer loses track.

### ControllerClient

`Client` with its flags, at the level of Boost.Asio operations: an operation is
outstanding until the system completes it (`ConnectDone`, `TimerDone`,
`ReadDone`, `WriteDone`), then its handler waits in the queue `ready`. Closing
the socket completes what is outstanding with errors (`Aborted`) and leaves
alone what is queued already. The handlers are `HandleConnected`,
`HandleConnectFailed`, `HandleTimer`, `HandleHeader`, `HandleData`,
`HandleBadData`, `HandleReadFailed`, `HandleWritten`, `HandleWriteFailed`;
`SendCommand` is any button (START writes twice). What a message says is
abstracted, but for the control bit of MAIN_STATUS.

`overtaken` is a history variable: the one-second timer has expired while handlers
queued before it had not run. `ConnectionsDoNotMix` is promised as long as that
has not happened, and is false without the condition; the other properties hold
whether or not it has.

### VMListView

What becomes of a VM_LIST in the controller. `VMListCallback` posts it to four
Dart ports, element by element, from the connection's thread; `Connected` and
`Reset` post to the connection port. The listeners are `HearConnection` (with
`resetAll`), `HearRunningList`, `HearName` and `HearSnap`, which is one
definition for the two listeners of snapshot names and descriptions, for they
are the same code. All ports belong to one isolate, so `inbox` is one queue.
Elements are abstracted to where they come from (message, machine, snapshot),
which is what tells a mixture from a list. `link = "late"` is the read that
completes before the connection is reset and is handled after.

### SaveAndRestoreScreen

Extends VMListView with the screen. `Build` is the whole of the widget's `build`:
the sanity check, what it remembers in `StateMaintained`, and whether it throws
by indexing a list past its end. It happens some time after something the
screen looks at has changed, between any two elements of the lists.
`ChooseMachine` and `SelectRow` are the user, who acts on what the last build
shows; `RestoreEnabled`, `RestoredVM` and `RestoredSnap` are the restore button,
which changes no state (the backend prints what it is told). A screen that a
build pops is gone at `Close`, as one that the user leaves. Its run checks
VMListView too.

## 3. Runs

| run | instance | what it shows |
|---|---|---|
| `supervisor` | 2 applications, 1 configuration, 7 processes | `TypeOK`; `NoOrphans`: a living server holds a handle on every application that runs; `NoLostWakeup`: no exit is forgotten; `KilledBySiblingOrStop` (action property); `ImplementsSimLifecycle` (refinement, fairness included); `ExitIsNoticed` (liveness) |
| `host_server` | 3 sessions, 4 clicks | `StatusAgreement`: the last status on its way to a client is the current one; `ControllerIsConnected`; `CommandsNeedControl` (action property) |
| `shadow_server` | 1 application, 3 processes, 2 sessions, 4 clicks | `ToldOffMeansOff`: a client told that the simulation is off is right about the kernel's processes; `ImplementsSupervisor`, `ImplementsHostServer` (refinements, fairness included); `StopReachesEveryView`, `GoneIsForgotten`, `ViewsConverge` (liveness) |
| `vm_status_feed` | 2 VMs, 2 changes or failures, 2 sessions, 4 tasks | `BroadcastIsOnePoll` (action property); `NobodyIsLeftBehind`; `CatchesUp` (liveness) |
| `vm_operations` | 2 machines, 1 snapshot, 3 operations | `CleanBetweenOperations`: no lock and no work is left; `CrashesInTwoPlaces`; `SuccessIsReal`; `OperationEnds` (liveness) |
| `snapshot_tree` | trees of up to 5 snapshots | `EveryoneOnce`, `BranchesStayTogether` |
| `message_stream` | every message with lists of up to 2 entries and 2 snapshots, 2 messages, sockets of 100 bytes | `NeverStarves`: no header announces more than follows; `ImplementsChannel` (refinement) |
| `controller_client` | 4 writes in the air | `OneOfEach`: at most one attempt, one timer, one read; `NeverStranded`; `StaleStatusIsWithdrawn`; `ConnectionsDoNotMix`; `Reconnects` (liveness) |
| `save_restore_screen` | 2 VM_LISTs of up to 2 machines with up to 2 snapshots, 3 changes of the connection | `ScreenTypeOK`; `StatesAreOfTheirMachines`; `SettledViewIsDue`: nothing half filled is left behind, and the last VM_LIST is what is displayed; `SnapsJoinTheirMachines` (action property); `SettledScreenIsBuilt`; `SettledRestoreIsExact`: machine and snapshot named by the restore button belong together |
| `supervisor_cleaned_up` | 2 applications, 5 processes | violation: exit handlers survive the clean-up that clears `children` |
| `save_restore_screen_build` | as `save_restore_screen` | violation of `SanityCheckSuffices`: a build whose choice passes the sanity check ("chosen value was good") throws, between the names and the snapshots of a VM_LIST |
| `server_process` | 3 words, lists of 2, 2 clients, 2 processes, 3 posts | violation of `DestructorEnds`: out of `run()`, `~Shadow` waits for ever for a thread that nobody has told to stop |

Every property of a passing run has a mutant, an operator next to the one it
breaks ("Broken variant of ..."), that changes the code as a plausible bug would
and that the run then refutes.

Why the bounds are enough.

* *Supervisor*: seven processes are three STARTs of two applications and one
  STOP, or START, STOP, START, STOP: enough for a slot to hold another instance
  than the one that exits, for handlers to outlive a clean-up into the next
  START, and for a process to die behind the walk; two applications are what it
  takes for an index to be another's.
* *HostServer*: three sessions are a controller that is superseded, one that
  supersedes it and one that only looks on; four clicks are two changes of
  control and a START and a STOP.
* *ShadowServer*: one application and three processes are START, STOP, START;
  the number of processes never keeps a START from happening (`BoundsFit`).
  Two sessions, since each of its properties speaks of one session next to others; the
  cases that need two applications are the supervisor's own.
* *ServerProcess*: two clients are one with a session and one that waits; two
  entries are what distinguishes a list that is measured from one of which only
  the first is. In the violation the VM thread stops at the bound of its posts;
  `DestructorHangs` proves that main does not return whatever the bound.
* *VMStatusFeed*: two changes can separate all three questions of a poll, and
  the queue holds one poll not run while the next is posted.
* *VMOperations*: the session locks one machine, so the second machine is the one it does not;
  three operations are one that leaves work behind, one that meets it, and one
  after. One snapshot is enough to be there or not; the proofs need no such bound.
* *SnapshotTree*: five snapshots are two branches below a branch with something
  left to come after both.
* *MessageStream*: two entries and two snapshots, with empty and non-empty
  names, give every loop of the decoders none, one and two turns and a cursor
  that depends on the turn before; the second message shows that the first has
  been consumed to the byte; 100 bytes hold some messages and not others, so
  pieces are taken at once, in part or not at all.
* *ControllerClient* is bounded by the writes alone: four are two STARTs in the
  air at once.
* *SaveAndRestoreScreen*: two machines with up to two snapshots differ in every
  length that a listener compares; any choice can be made on the first message
  and be met by a second that is shorter or longer; three changes of the connection are a
  loss and a return.

`CHECK_DEADLOCK FALSE` is said where the system stops: a server that aborted, an
exited process, a reader that met stale bytes, a crashed operation, the one step
of SnapshotTree, and the bounds of Supervisor, HostServer, ShadowServer,
VMOperations, MessageStream and SaveAndRestoreScreen, which run out.
ControllerClient and VMStatusFeed never stop and are checked for deadlock.

### Refinements

* `Supervisor` implements `SimLifecycle`, fairness included.
* `ShadowServer` implements `Supervisor` and `HostServer`, fairness included.
  What either proves of itself therefore holds in the whole.
* `MessageStream` implements `MessageChannel` (safety) with the messages sent and
  not yet handled for the channel.

### Findings

1. `shadow.cpp:20` after `shadow.cpp:44`. The clean-up of a STOP terminates the
   applications and clears `children`; their exit handlers are still registered
   and then execute `children[i].reset()` on a vector that is empty, or that the
   next START has filled with other processes.
2. `save_and_restore_screen.dart:380` (also 75 and 393). The sanity check
   compares the chosen index with `vmList`, finds it "good" and goes on to index
   `snapList`, which is published by other listeners: with nothing chosen, a
   screen that is built after the names of a first VM_LIST and before its
   snapshots looks up entry 0 of an empty list, a `RangeError` in the place of
   the screen. Line 75 does the same with a chosen machine, line 393 with
   `snapDescList`. (A screen opened before any VM_LIST throws too, but its check
   had failed; the property does not speak of that.)
3. `shadow.cpp:67`. `~Shadow` joins the VM thread and only then calls
   `vm_service.stop()`, without which that thread never ends: a server that is
   out of `run()` stays, with its port open and nobody accepting, and
   `~VMHandler`, which is to "call NS_ShutdownXPCOM at the end"
   (`vm_handler.cpp:34`), is never reached.

Other disagreements met while modelling. Each of the first three has a definition
in its module; named as an INVARIANT of the run, it is refuted.

* `RestoreIsInRange` (`save_restore_screen`; `save_and_restore_screen.dart:73`): the row is checked only if a machine is
  chosen, but rows can be selected without one; the restore button then indexes
  a snapshot that has been deleted meanwhile.
* `HeaderIsASize` (`message_stream`; `host_server.cpp:274`): once a piece has not been taken at
  once, the next header read is made of whatever lay on the stack.
* `BoostHasChecked` (`server_process`; `main.cpp:147`): the values of `--config` are read before
  Boost has seen them, so the error handling the comment calls unnecessary is
  reached; nothing depends on it, since `Store` throws afterwards.
* `shadow.cpp:15` against `main.cpp:24` ("Configuration Array for running
  certain applications"): every script is spawned whatever the configuration
  says; only the configuration's number is checked (`PowerOn`).

Modelled as it is, and worth knowing: a new session is sent no
MAIN_STATUS, so it shows the simulation off until the next broadcast
(`StatusAgreement` and `ToldOffMeansOff` speak of the sessions that were told
something); after an accept error the server never accepts again, and serves on
until its last session, process and post are gone, which is one way to the third
finding; a failed spawn ends the server; `restore_vm` and `stop_vm` use a
progress object that may be null, and `restore_vm` starts the machine whether or
not it was restored; the read that
`ControllerClient`'s stale handler starts on a closed socket can, if the loop is
slow, reset the attempt to reconnect, which costs another second; a VM_LIST
without machines is never displayed, so the last machine removed stays on the
screen; a VM_LIST handled after the connection was lost is displayed, and stays
(`SettledViewIsDue` says what is due in both cases).

## 4. Fairness

`io_service.run()` runs every handler that is ready: weak fairness of the walk,
of `Accept`, of each session's `Serve`, of the client's `Handle`, of the posted
tasks; both threads of the server run on (ServerProcess). TCP delivers to a peer
that stays: weak fairness of `Receive`. The kill
script ends (it is a script that kills and returns): weak fairness of its exit,
and in HostServer, which has no processes, of `KillScriptExits`; ShadowServer shows
that the former implies the latter.
The timers of the VM thread and of the client expire. Calls to VirtualBox return,
well or not, and the work it has taken on ends, well or not (VMOperations);
`ProgressLost` is never forced. Nothing else is fair:
applications may run for ever, users may press nothing, connections need not
end. `Reconnects` assumes in addition that a server that is tried for ever is
sometimes reached (strong fairness of `ConnectDone(TRUE)`); `CatchesUp` that
VirtualBox, whose changes and failures are bounded, becomes quiet.

## 5. Proofs

For every value of the constants that the named assumptions allow:

* `SupervisorProofs`: `SupervisorTypeCorrect`, `NothingRunsUnseen`, `OffIsOff`,
  `KillHasItsScript`, `ExitsStayVisible`, `CollateralStaysInTheFamily`, and
  `SupervisorRefinesSimLifecycle`, the safety part of the refinement. The
  invariant is `IInv`: the type invariant and the four safety invariants, with
  `Births` (pids are born in order, and only born processes are watched or
  held) and `SlotsHoldTheirScript` (slot i of `children`, for i among the
  applications, holds instances of application i alone, since handles are
  pushed a whole START at a time and removed all at once). The second is what
  `CollateralStaysInTheFamily` needs: an exit handler's slot is one of those.
  Each action has a lemma that it keeps `IInv`.
* `HostServerProofs`: `HostServerTypeCorrect`, `ClientsAgreeWithServer`,
  `ControlDiesWithItsSession`, and the action properties `ControlHasTwoWays`
  (control changes only by being taken or by its session's end) and
  `OnlyTheControllerCommands`. The invariant adds `Numbering`: sessions are
  numbered in the order of acceptance, none beyond `client_number_count`.
  Handlers that end in a broadcast share a lemma on what a broadcast
  establishes, those that change nothing a client is told share another.
* `ShadowServerProofs`: `ServerRefinesItsParts`, that every step of the whole is a
  step or a stutter of each part (one lemma for each part, one case for each
  action), and `OffReachesTheClientOnlyWhenOff`, which needs no invariant of its
  own: by the refinements, `OffIsOff` of the supervisor and
  `ClientsAgreeWithServer` of the sessions hold of the whole, and together they
  imply it.
* `ServerProcessProofs`: `TypeCorrect`, `ServesToTheLast`, `DestructorHangs`.
  The invariant for the third is the circle `NoWayOut`: the thread is not done
  because `vm_service` is not stopped, which `~Shadow` would do once the thread
  is done. It is the third finding for any bounds. Nothing is assumed of the constants.
* `VMHandlerProofs`, on the status feed: `FeedTypeCorrect`, `EveryoneIsUpToDate`,
  `PollsAreNotMixed`. The invariant follows the tasks in the queue:
  `BroadcastsAreWhole` (the stores in front of a broadcast, over what is stored
  already, amount to the poll it was posted by), `PostsAreWhole` (so do those
  posted so far by the poll under way), `BroadcastComesLast` and
  `MixturesAreMended` (whenever what is stored is not what everyone was told, a
  broadcast is queued or going to be).
* `VMHandlerProofs`, on the operations: `OperationsTypeCorrect`, `NothingIsLeftBehind`,
  `NullIsUsedInTwoPlaces`, `SuccessIsNotClaimedInVain`. The invariant says for
  each position of each program what is due there (`WorkIsDue`, with a conjunct
  per operation), that the work under way is the one whose progress object is
  held unless progress was lost (`OneJobAtATime`), and where that object can be null (`NullIsKnown`). The programs
  are finite tuples; a handful of lemmas (`Table`, `Lengths`, `Follows`,
  `NextUnlockIsUnlock`) let the proofs go from one call to the next without
  expanding them.
* `VMHandlerProofs`, on the tree: `ListingIsComplete` and `ListingFollowsTheTree`, for
  trees of any size. Two inductions carry them: up the tree from the last snapshot
  (what the list of a subtree holds, and in which order, given the lists of
  the children, which have greater numbers), and down from the root (who is
  below whom, `Below`). `FlattenedInOrder` puts the lists of the children together.
  That nobody is listed twice is a consequence of the order: `NotBeforeItself`.
* `ConnectionProofs`, on the client: `ClientTypeCorrect`, `ThereIsOneOfEach`,
  `ClientIsNeverStranded`, `StatusIsWithdrawn`, `ConnectionsAreApart`. The
  invariant states the counts of `OneOfEach` as facts about places in the queue
  (`OneConnect`, `OneTimer`, `OneRead`: two handlers of a kind are the same
  handler, and none is queued while its operation is outstanding), and adds
  `Waiting` (who waits for what), `LateReads` (what a read that outlived its
  connection looks like), `WellTimed` (such handlers are in front of the timer)
  and `Withdrawn`. Lemmas on queues (`Shifted`, `Popped`, `PoppedAndQueued`,
  `Completes`, `AbortedShape`) say where the handlers of a kind are after one is
  taken, appended, or all that was outstanding is aborted.
* `ConnectionProofs`, on the bytes: `MessagesArrive`, for every message of
  `Message`, so for lists of any length with names and descriptions of any
  length, none included: the pieces amount to just the bytes that the header
  announces, and `Decode` makes of them the message that was sent. The argument
  is that of a cursor. A message is cut up (`Cuts`) into entries, snapshots or
  lists of snapshots, one for each turn of a loop of the decoder. A turn that
  begins where its cut begins finds there what was written (`StructFound`,
  `TextFound`, `CountsFound`) and ends where the next cut begins (`EntryFound`,
  `SnapFound`), so the loop ends at the sum of the sizes (`EntriesFound`,
  `SnapsFound`, `AllSnapsFound`, by induction over the turns), and that sum is
  what was announced (`EntriesSize`, `AllSnapsSizes`).
* `ConnectionProofs`, on the stream: `StreamIsInOrder`, `NobodyStarves` and
  `StreamIsAChannel`, the refinement of `MessageChannel`, for any set of messages
  and sockets of any capacity. `NeverStarves` is not inductive, because it does
  not say which bytes are on their way. `StreamInvariant` does: as long as no
  piece had to wait, the reader's buffer, the bytes in the sockets and the pieces
  still to be written are together (`Coming`) just the messages not yet read,
  byte for byte, either from a header on (`BetweenMessages`) or from behind the
  header that the reader holds (`InsideMessage`). A write and a fetch move bytes
  from one part of `Coming` to another; that a completed header or body is handed
  over as the message at the head of `unread` is `HeaderComplete` and
  `DataComplete`, which cite `MessagesArrive`. Once a piece has had to wait the
  channel may lose track, and nothing is claimed.

* `SaveAndRestoreScreenProofs`: `ScreenTypeCorrect`, `StatesBelongToMachines`,
  `SettledViewIsRight`, `SnapshotsJoinTheirMachines`, `SettledScreenGetsBuilt`,
  `SettledRestoreNamesTheChoice`, for any number of VM_LISTs, machines, snapshots and
  connections. What the listeners have half filled at some moment is not
  inductive by itself: it depends on what is still in the ports. The invariant `ViewInv`
  therefore says that what is posted and not yet heard leads the lists, post by
  post, from where they are to what they are due to show: there is a sequence of
  *stages* (`Stages`: what the listeners wait for next, and of which VM_LISTs the lists are that they
  have published), each of which the next post turns into the following one (`Step`,
  `Leads`), and the last is the one that is due, at rest. A new VM_LIST appends its posts and their
  stages (`VMListLeads`, made of `NamesLead`, `MachineLeads` and `PortLeads`, which are
  inductions over the posts of a list, a machine and a port), and a listener
  takes the first (`HearsNameRight`, `HearsSnapRight`, ...). `ScreenInv` adds
  `BuiltFromChecked`: unless a build is due, what an open screen shows is a choice that its
  last build has checked.
* `SequenceLemmas`: what the proofs about the tree, the stream and the lists need
  of sequences that the library does not say. Its
  induction theorems cannot be used here, so an induction is the well-foundedness of `<` applied
  to the least number not reached (`NaturalsAreReached`); `Flattening` says what
  `FlattenSeq` is made of, without unfolding it; `FlattenJoin`, `ImageJoin` and
  `JoinRegroups` take flattened sequences apart and put them together.

The assumptions are `SupervisorAssumption` (at least one application and one
configuration, which `main.cpp:190-211`, modelled by `Fits`, checks before a
server exists), `HostServerAssumption`, `ControllerClientAssumption`,
`OperationsAssumption`, `TreeAssumption`,
`VMListViewAssumption` and that of VMStatusFeed (the bounds are numbers),
`StreamAssumption` (what is sent are messages of the format; the sockets hold
some byte), and `NullAssumption`: Dart's
`null`, which stands for "nothing chosen", is neither a number nor a list.

Proved but not named in a run, because a run's property implies or outweighs them:
`SimOffMeansNothingRuns`, `KillPendingIsWatched`, `ControlIsTakenOrLeft`,
`NobodyIsDropped`, `NeverReturns` (whose other side is the violation of `DestructorEnds`) and the type invariants of HostServer, ControllerClient,
VMStatusFeed, VMOperations and ServerProcess. Each was checked with TLC before it was
proved, as was every inductive invariant.

Only model-checked: all liveness and the fairness part of the refinements, which
are beyond the proof system. Every safety invariant and action property of the
passing runs is stated by a theorem, and so is the safety part of every refinement.

## 6. Not modelled

* The other screens and widgets: layout and navigation, without state the server
  knows of; `moc_server.dart` is sample data.
* The generated Flutter runner and the template test.
* The vendored VirtualBox SDK and Dart headers. They are nearly all of the
  repository's lines (three of the SDK's headers alone hold more than 160,000)
  and hold declarations; VirtualBox is modelled only as far as `src/shadow`
  uses it. The code that is the repository's own is some 3,500 lines, and it is
  that code which the modules cover.
* `destroy_client`, which nobody calls, and with it the end of a controller's
  connection thread.
* Messages that no controller sends (wrong sizes, unknown types), hence the
  resets inside the switch at `host_server.cpp:101`; on the controller's side
  they are `HandleBadData`.
* What a reader makes of stale bytes, and what is read behind the end of a
  buffer.
* `simics_playing`, which nothing sets; the texts of help and version; the
  contents of text fields.
* Snapshots of one machine with the same name (`FindSnapshot` takes the first).
* The timing of `std::exit` against the main thread's handlers: `SetUp` ends
  both at once.
* The reuse of pids by the kernel.

## 7. Plan

1. The controller as a whole: ControllerClient with VMListView, with the thread of
   the connection and the isolate of Dart, as ShadowServer is for the server.
2. HostServer over two MessageStreams for each session, so that the channel it
   assumes is the one that is proved.
