----------------------------- MODULE Supervisor -----------------------------
(***************************************************************************)
(* The process table of the shadow server: the power_sim callback of       *)
(* Shadow's constructor (src/shadow/shadow.cpp), the applications it       *)
(* spawns, the kill script, and the order in which exits are noticed.      *)
(*                                                                         *)
(* The server is one thread running io_service, so a callback is one step. *)
(* Processes run and die on their own, between any two steps.  Boost       *)
(* Process (external) notices exits: it registers (pid, on_exit) pairs     *)
(* and, for each SIGCHLD, walks them in the order of registration, calling *)
(* waitpid(WNOHANG) on each and on_exit for those that are gone.  The walk *)
(* is modelled one receiver at a time, because a process may die between   *)
(* two of its waitpid calls.                                               *)
(*                                                                         *)
(* A pid stands for one process for ever (the reuse of pids by the kernel  *)
(* is not modelled) and pids grow in the order of spawning, so the order   *)
(* of registration is the order of pids and receivers is a set.            *)
(***************************************************************************)
EXTENDS Naturals, Sequences, FiniteSets

CONSTANTS
    NumApps,        \* script_paths.size() = application_names.size()
    NumConfigs,     \* configurations.size()
    MaxProcs        \* bound: processes ever spawned

ASSUME SupervisorAssumption ==
    /\ NumApps \in Nat \ {0}
    /\ NumConfigs \in Nat \ {0}
    /\ MaxProcs \in Nat

Apps == 1..NumApps            \* index i of the code is application i + 1
KillScript == 0               \* the program kill_path
Pids == 1..MaxProcs
Released == 0                 \* a shared_ptr<child> that was reset()

VARIABLES
    up, sim_started, processing_kill,   \* see SimLifecycle
    spawned,      \* number of processes spawned so far
    program,      \* what a process runs
    status,       \* "unborn", "running", "zombie" (dead, not waited for), "reaped"
    children,     \* Shadow::children: the pid each slot holds, or Released
    receivers,    \* pids whose on_exit is registered with Boost Process
    scan,         \* receivers the SIGCHLD walk under way has yet to visit
    sigchld       \* a SIGCHLD has been raised and no walk has started for it

procVars == <<spawned, program, status, children, receivers>>
vars == <<up, sim_started, processing_kill, procVars, scan, sigchld>>

Sim == INSTANCE SimLifecycle WITH
    up <- up, sim_started <- sim_started, processing_kill <- processing_kill

TypeOK ==
    /\ Sim!SimTypeOK
    /\ spawned \in 0..MaxProcs
    /\ program \in [Pids -> Apps \cup {KillScript}]
    /\ status \in [Pids -> {"unborn", "running", "zombie", "reaped"}]
    /\ children \in Seq(0..MaxProcs)
    /\ receivers \subseteq Pids
    /\ scan \subseteq receivers
    /\ sigchld \in BOOLEAN

-----------------------------------------------------------------------------
(* The program runs in no process yet: Shadow's constructor only stores    *)
(* the configuration.                                                      *)
Init ==
    /\ Sim!SimInit
    /\ spawned = 0
    /\ program = [p \in Pids |-> KillScript]
    /\ status = [p \in Pids |-> "unborn"]
    /\ children = << >>
    /\ receivers = {}
    /\ scan = {}
    /\ sigchld = FALSE

Running(p) == status[p] = "running"

(* The io_service thread is between handlers: the walk is a single         *)
(* handler, no other runs until it has visited every receiver.             *)
Idle == up /\ scan = {}

-----------------------------------------------------------------------------
(* Broken variant of Start: on_exit is registered a moment after the spawn, *)
(* when the process may be gone and its SIGCHLD served.                    *)
StartRegistersLate(n, prog) ==
    LET new == (spawned + 1)..(spawned + n) IN
    /\ spawned + n <= MaxProcs
    /\ spawned' = spawned + n
    /\ \E soon \in {"running", "zombie"} : status' = [p \in Pids |-> IF p \in new THEN soon ELSE status[p]]
    /\ program' = [p \in Pids |-> IF p \in new THEN prog[p - spawned] ELSE program[p]]
    /\ receivers' = receivers \cup new

(* Spawning.  Start(n, prog) makes the next n processes, the k-th of them  *)
(* running prog[k].                                                        *)
Start(n, prog) ==
    /\ spawned + n <= MaxProcs
    /\ spawned' = spawned + n
    /\ status' = [p \in Pids |-> IF p \in (spawned + 1)..(spawned + n) THEN "running" ELSE status[p]]
    /\ program' = [p \in Pids |-> IF p \in (spawned + 1)..(spawned + n) THEN prog[p - spawned] ELSE program[p]]
    /\ receivers' = receivers \cup (spawned + 1)..(spawned + n)

(* The handles of the next n processes, in the order they are pushed.      *)
Handles(n) == [i \in 1..n |-> spawned + i]

(* power_sim_callback(true, cfg).  Nothing looks at sim_started, at        *)
(* children or at the contents of configurations[cfg]: every script is     *)
(* spawned and its handle pushed at the end of children.                   *)
PowerOn(cfg) ==
    /\ Idle
    /\ ~processing_kill
    /\ cfg < NumConfigs
    /\ Start(NumApps, [i \in Apps |-> i])
    /\ children' = children \o Handles(NumApps)
    /\ sim_started' = TRUE
    /\ UNCHANGED <<up, processing_kill, scan, sigchld>>

(* The k-th script cannot be spawned: boost::process::child throws, nobody *)
(* catches it and io_service.run() ends the server, k - 1 applications     *)
(* being left behind.                                                      *)
PowerOnFails(cfg, k) ==
    /\ Idle
    /\ ~processing_kill
    /\ cfg < NumConfigs
    /\ Start(k - 1, [i \in 1..(k - 1) |-> i])
    /\ children' = children \o Handles(k - 1)
    /\ up' = FALSE
    /\ UNCHANGED <<sim_started, processing_kill, scan, sigchld>>

(* power_sim_callback(false, _): the kill script is spawned.               *)
PowerOff ==
    /\ Idle
    /\ ~processing_kill
    /\ Start(1, <<KillScript>>)
    /\ processing_kill' = TRUE
    /\ UNCHANGED <<up, sim_started, children, scan, sigchld>>

(* kill_path cannot be spawned.  processing_kill was set just before.      *)
PowerOffFails ==
    /\ Idle
    /\ ~processing_kill
    /\ up' = FALSE
    /\ UNCHANGED <<sim_started, processing_kill, procVars, scan, sigchld>>

(* Another handler or the VM thread ends the server: a session's reset     *)
(* (HostServer!ResetCrashes), or std::exit while VirtualBox is set up.     *)
EndsElsewhere ==
    /\ up
    /\ up' = FALSE
    /\ UNCHANGED <<sim_started, processing_kill, procVars, scan, sigchld>>

-----------------------------------------------------------------------------
(* A process ends: by itself, killed by the script, or crashed.            *)
ProcessExit(p) ==
    /\ Running(p)
    /\ status' = [status EXCEPT ![p] = "zombie"]
    /\ sigchld' = TRUE
    /\ UNCHANGED <<up, sim_started, processing_kill, spawned, program, children, receivers, scan>>

(* Boost Process wakes up for a SIGCHLD and starts to walk the receivers.  *)
ScanStart ==
    /\ Idle
    /\ sigchld
    /\ receivers # {}
    /\ scan' = receivers
    /\ sigchld' = FALSE
    /\ UNCHANGED <<up, sim_started, processing_kill, procVars>>

(* The receiver the walk visits next.                                      *)
Visits(p) == up /\ p \in scan /\ \A q \in scan : p <= q

(* waitpid(p, WNOHANG) says the process is still there.                    *)
ScanAlive(p) ==
    /\ Visits(p)
    /\ Running(p)
    /\ scan' = scan \ {p}
    /\ UNCHANGED <<up, sim_started, processing_kill, procVars, sigchld>>

(* What a handle does to its process when it is destroyed or cleaned up:   *)
(* a process still running is killed, and waited for; a zombie is waited   *)
(* for.                                                                    *)
ReapAll(S) == [p \in Pids |-> IF p \in S /\ status[p] # "unborn" THEN "reaped" ELSE status[p]]

(* Broken variant of Notice: the receiver is erased under the walk, which  *)
(* goes on with a receiver that is no more.                                *)
NoticeErasesUnderWalk(p) ==
    /\ Visits(p)
    /\ ~Running(p)
    /\ scan' = scan
    /\ receivers' = receivers \ {p}

(* The part common to all notices: waitpid returned p or an error, so the  *)
(* receiver is dropped and its handler called.                             *)
Notice(p) ==
    /\ Visits(p)
    /\ ~Running(p)
    /\ scan' = scan \ {p}
    /\ receivers' = receivers \ {p}

(* Broken variant of AppNotice: the index captured is one too high.        *)
AppNoticeOffByOne(p) ==
    LET i == program[p] + 1 IN
    /\ Notice(p)
    /\ program[p] \in Apps
    /\ i <= Len(children)
    /\ children' = [children EXCEPT ![i] = Released]
    /\ status' = ReapAll({p, children[i]})
    /\ sigchld' = (sigchld \/ (children[i] \in Pids /\ Running(children[i])))
    /\ UNCHANGED <<up, sim_started, processing_kill, spawned, program>>

(* on_exit of application i: children[i].reset().  The slot holds the i-th *)
(* script of the oldest START since children was cleared, which need not   *)
(* be the process that exited: releasing the last handle of a running      *)
(* child kills it.                                                         *)
AppNotice(p) ==
    LET i == program[p] IN
    /\ Notice(p)
    /\ i \in Apps
    /\ i <= Len(children)
    /\ children' = [children EXCEPT ![i] = Released]
    /\ status' = ReapAll({p, children[i]})
    /\ sigchld' = (sigchld \/ (children[i] \in Pids /\ Running(children[i])))
    /\ UNCHANGED <<up, sim_started, processing_kill, spawned, program>>

(* The same handler after children was cleared: the index is past the end  *)
(* and the behaviour undefined.  The access hits the stale storage of the  *)
(* vector; the server survives it or does not.                             *)
AppNoticePastEnd(p) ==
    /\ Notice(p)
    /\ program[p] \in Apps
    /\ program[p] > Len(children)
    /\ status' = ReapAll({p})
    /\ up' \in BOOLEAN
    /\ UNCHANGED <<sim_started, processing_kill, spawned, program, children, sigchld>>

(* Broken variants of KillNotice: the clean-up misses the last child; the  *)
(* flag is not reset.                                                      *)
KillNoticeMissesLast(p) ==
    LET held == {children[j] : j \in 1..(Len(children) - 1)} IN
    /\ Notice(p)
    /\ program[p] = KillScript
    /\ status' = ReapAll({p} \cup held)
    /\ sigchld' = (sigchld \/ \E q \in held \cap Pids : Running(q))
    /\ children' = << >>
    /\ processing_kill' = FALSE
    /\ sim_started' = FALSE
    /\ UNCHANGED <<up, spawned, program>>

KillNoticeStaysPending(p) ==
    LET held == {children[j] : j \in DOMAIN children} IN
    /\ Notice(p)
    /\ program[p] = KillScript
    /\ status' = ReapAll({p} \cup held)
    /\ sigchld' = (sigchld \/ \E q \in held \cap Pids : Running(q))
    /\ children' = << >>
    /\ sim_started' = FALSE
    /\ UNCHANGED <<up, processing_kill, spawned, program>>

(* on_exit of the kill script: terminate and wait for every child that     *)
(* still runs, clear children, tell the clients.                           *)
KillNotice(p) ==
    LET held == {children[j] : j \in DOMAIN children} IN
    /\ Notice(p)
    /\ program[p] = KillScript
    /\ status' = ReapAll({p} \cup held)
    /\ sigchld' = (sigchld \/ \E q \in held \cap Pids : Running(q))
    /\ children' = << >>
    /\ processing_kill' = FALSE
    /\ sim_started' = FALSE
    /\ UNCHANGED <<up, spawned, program>>

-----------------------------------------------------------------------------
Next ==
    \/ \E cfg \in 0..(NumConfigs - 1) : PowerOn(cfg) \/ \E k \in Apps : PowerOnFails(cfg, k)
    \/ PowerOff
    \/ PowerOffFails
    \/ EndsElsewhere
    \/ \E p \in Pids : ProcessExit(p)
    \/ ScanStart
    \/ \E p \in Pids : ScanAlive(p) \/ AppNotice(p) \/ AppNoticePastEnd(p) \/ KillNotice(p)

(* The kill script ends (it is a script that kills and returns), and       *)
(* io_service.run() keeps running handlers that are ready.  Nothing else   *)
(* is fair: applications may run for ever.                                 *)
KillScriptExits == \E p \in Pids : program[p] = KillScript /\ ProcessExit(p)
Walk ==
    \/ ScanStart
    \/ \E p \in Pids : ScanAlive(p) \/ AppNotice(p) \/ AppNoticePastEnd(p) \/ KillNotice(p)

Fairness == WF_vars(KillScriptExits) /\ WF_vars(Walk)

Spec == Init /\ [][Next]_vars /\ Fairness

-----------------------------------------------------------------------------
(* Safety.                                                                 *)

(* No orphan: while the server lives, it holds a handle on every           *)
(* application that runs, so the clean-up after a kill script can find it, *)
(* whatever STARTs, exits and misdirected notices came before.             *)
NoOrphans ==
    up => \A p \in Pids :
        Running(p) /\ program[p] \in Apps => \E j \in DOMAIN children : children[j] = p

(* What the clients are told when the simulation is off is true: no        *)
(* application is running then.  It is established by the kill script's    *)
(* exit handler alone, since the script itself is free to kill nothing.    *)
SimOffMeansNothingRuns ==
    up /\ ~sim_started => \A p \in Pids : program[p] \in Apps => ~Running(p)

(* processing_kill is true exactly while one kill script is being waited   *)
(* for: a stale flag would make the server deaf to START and STOP for      *)
(* ever, two scripts would clean up twice.                                 *)
KillScriptsPending == {p \in receivers : program[p] = KillScript}
KillPendingIsWatched ==
    up => /\ processing_kill <=> KillScriptsPending # {}
          /\ \A p, q \in KillScriptsPending : p = q

(* No wake-up is lost: a process that is gone and whose handler has not    *)
(* run will be visited by the walk under way or by the one that the        *)
(* pending SIGCHLD starts, although signals coalesce and may arrive in the *)
(* middle of a walk.                                                       *)
NoLostWakeup ==
    up => \A p \in receivers : Running(p) \/ p \in scan \/ sigchld

(* A misdirected notice can kill an instance that another START made, but  *)
(* only one of the very application that exited: an application is killed  *)
(* by the clean-up of a STOP or by the notice of one of its siblings.      *)
KilledBySiblingOrStop ==
    [][\A p \in Pids :
        Running(p) /\ program[p] \in Apps /\ status'[p] = "reaped" =>
            \/ processing_kill /\ ~processing_kill'
            \/ \E q \in receivers \ receivers' : q # p /\ program[q] = program[p]]_vars

(* Refinement: seen from its callers the supervisor is SimLifecycle,       *)
(* including that a STOP that was accepted is completed or the server is   *)
(* gone.                                                                   *)
ImplementsSimLifecycle == Sim!SimSpec

(* Liveness: every exit is noticed, even one that races the end of a walk  *)
(* or the clean-up of a STOP.                                              *)
ExitIsNoticed ==
    \A p \in Pids : (p \in receivers /\ ~Running(p)) ~> (p \notin receivers \/ ~up)

-----------------------------------------------------------------------------
(* What the program's texts say and the code does not do.                  *)

(* "cleaned up children, updating clients" (shadow.cpp:45): once children  *)
(* has been cleared no exit handler of an application is left that would   *)
(* index it.                                                               *)
CleanedUpMeansNoHandlers ==
    up /\ children = << >> => \A p \in receivers : program[p] = KillScript

=============================================================================
