---------------------------- MODULE ServerProcess ----------------------------
(***************************************************************************)
(* The life of the server process: main parses its options (CommandLine)   *)
(* and, if they fit, constructs a Shadow and serves in io_service.run();   *)
(* the thread of the virtual machines has its own vm_service; and either   *)
(* may end (main.cpp, shadow.cpp 63-106, vm_handler.cpp 15-103,            *)
(* host_server.cpp 22-85).                                                 *)
(*                                                                         *)
(* io_service.run() returns by itself as soon as nothing is outstanding:   *)
(* no accept, no session (each is reading), no process whose exit is       *)
(* waited for, nothing posted by the other thread.                         *)
(***************************************************************************)
EXTENDS CommandLine

CONSTANTS
    Clients,
    MaxApps,        \* bound: processes at a time
    MaxPosts        \* bound: functions waiting in io_service

VARIABLES
    main,       \* "parsing", "serving", "joining" (in ~Shadow), "returned"
    vm,         \* the other thread: "none", "setup", "polling", "done"
    stopped,    \* vm_service.stop() has been called
    exited,     \* std::exit has been called
    accepting,  \* an async_accept is outstanding
    waiting,    \* clients connected and not accepted: the port stays open
    sessions,   \* clients with a session
    apps,       \* processes, applications and the kill script, not seen to exit
    posts       \* functions posted by the other thread and not run

processVars == <<main, vm, stopped, exited, accepting, waiting, sessions, apps, posts>>
vars == <<processVars, optionVars>>

Outstanding == accepting \/ sessions # {} \/ apps > 0 \/ posts > 0

Init ==
    /\ ParseInit
    /\ main = "parsing" /\ vm = "none" /\ stopped = FALSE /\ exited = FALSE
    /\ accepting = FALSE
    /\ waiting = {} /\ sessions = {} /\ apps = 0 /\ posts = 0

-----------------------------------------------------------------------------
(* main up to the end of its validation.                                   *)
Prepare ==
    /\ main = "parsing" /\ ~exited
    /\ Parse
    /\ UNCHANGED processVars

(* --help and --version return from main, a usage error and a value that   *)
(* is no bool end the process.                                             *)
EndEarly ==
    /\ main = "parsing" /\ phase \in {"done", "usage", "aborted"}
    /\ ~exited
    /\ exited' = TRUE
    /\ UNCHANGED <<main, vm, stopped, accepting, waiting, sessions, apps, posts, optionVars>>

(* The constructors of Shadow and HostServer: the thread is started and    *)
(* the port opened.  The options are Shadow's own from here on (Supervisor *)
(* goes on with them), and are forgotten here.                             *)
Construct ==
    /\ main = "parsing" /\ phase = "serving"
    /\ main' = "serving" /\ vm' = "setup" /\ accepting' = TRUE
    /\ phase' = "handed over" /\ line' = << >> /\ config' = << >>
    /\ UNCHANGED <<stopped, exited, waiting, sessions, apps, posts>>

-----------------------------------------------------------------------------
(* Clients.                                                                *)
Connect(c) ==
    /\ main # "parsing" /\ ~exited
    /\ c \notin waiting \cup sessions
    /\ waiting' = waiting \cup {c}
    /\ UNCHANGED <<main, vm, stopped, exited, accepting, sessions, apps, posts>>

GiveUp(c) ==
    /\ c \in waiting
    /\ waiting' = waiting \ {c}
    /\ UNCHANGED <<main, vm, stopped, exited, accepting, sessions, apps, posts>>

-----------------------------------------------------------------------------
(* Handlers of io_service.                                                 *)
Serving == main = "serving" /\ ~exited

(* The handler returns; with nothing outstanding run() and main do too,    *)
(* and ~Shadow begins to wait for the other thread.                        *)
RunOn ==
    /\ main' = IF Outstanding' THEN "serving" ELSE "joining"
    /\ UNCHANGED stopped

Accept(c) ==
    /\ Serving /\ accepting
    /\ c \in waiting
    /\ waiting' = waiting \ {c}
    /\ sessions' = sessions \cup {c}
    /\ UNCHANGED <<vm, exited, accepting, apps, posts>>
    /\ RunOn

(* The handler returns before start_async_accept.                          *)
AcceptError ==
    /\ Serving /\ accepting
    /\ accepting' = FALSE
    /\ UNCHANGED <<vm, exited, waiting, sessions, apps, posts>>
    /\ RunOn

(* The read of a session fails.                                            *)
SessionEnds(c) ==
    /\ Serving
    /\ c \in sessions
    /\ sessions' = sessions \ {c}
    /\ UNCHANGED <<vm, exited, accepting, waiting, apps, posts>>
    /\ RunOn

(* A session starts the applications, or the kill script.                  *)
StartProcess ==
    /\ Serving
    /\ sessions # {}
    /\ apps < MaxApps
    /\ apps' = apps + 1
    /\ UNCHANGED <<vm, exited, accepting, waiting, sessions, posts>>
    /\ RunOn

ProcessExit ==
    /\ Serving
    /\ apps > 0
    /\ apps' = apps - 1
    /\ UNCHANGED <<vm, exited, accepting, waiting, sessions, posts>>
    /\ RunOn

RunPosted ==
    /\ Serving
    /\ posts > 0
    /\ posts' = posts - 1
    /\ UNCHANGED <<vm, exited, accepting, waiting, sessions, apps>>
    /\ RunOn

(* ~Shadow: join(), then vm_service.stop().                                *)
Join ==
    /\ main = "joining" /\ ~exited
    /\ IF vm = "done" THEN main' = "returned" /\ stopped' = TRUE ELSE UNCHANGED <<main, stopped>>
    /\ UNCHANGED <<vm, exited, accepting, waiting, sessions, apps, posts>>

-----------------------------------------------------------------------------
(* The other thread.                                                       *)

(* The constructor of VMHandler reaches VirtualBox, or ends the process.   *)
SetUp ==
    /\ vm = "setup" /\ ~exited
    /\ \/ vm' = "polling" /\ UNCHANGED exited
       \/ exited' = TRUE /\ UNCHANGED vm
    /\ UNCHANGED <<main, stopped, accepting, waiting, sessions, apps, posts>>

(* vm_service.run(): the timer fires, and what was found is posted; the    *)
(* work guard keeps it running until it is stopped.                        *)
Poll ==
    /\ vm = "polling" /\ ~exited
    /\ IF stopped THEN vm' = "done" /\ UNCHANGED posts
                  ELSE posts < MaxPosts /\ posts' = posts + 1 /\ UNCHANGED vm
    /\ UNCHANGED <<main, stopped, exited, accepting, waiting, sessions, apps>>

-----------------------------------------------------------------------------
Live ==
    \/ \E c \in Clients : Connect(c) \/ GiveUp(c) \/ Accept(c) \/ SessionEnds(c)
    \/ AcceptError \/ StartProcess \/ ProcessExit \/ RunPosted \/ Join
    \/ SetUp \/ Poll

Next == Prepare \/ EndEarly \/ Construct \/ (Live /\ UNCHANGED optionVars)

(* Both threads run on; a connection that waits is accepted in the end.    *)
Fairness ==
    /\ \A c \in Clients : WF_vars(Accept(c) /\ UNCHANGED optionVars)
    /\ WF_vars(RunPosted /\ UNCHANGED optionVars) /\ WF_vars(Join /\ UNCHANGED optionVars)
    /\ WF_vars(SetUp /\ UNCHANGED optionVars) /\ WF_vars(Poll /\ UNCHANGED optionVars)

Spec == Init /\ [][Next]_vars /\ Fairness

-----------------------------------------------------------------------------
TypeOK ==
    /\ main \in {"parsing", "serving", "joining", "returned"}
    /\ vm \in {"none", "setup", "polling", "done"}
    /\ waiting \cap sessions = {}
    /\ apps \in Nat /\ posts \in Nat
    /\ vm = "done" => stopped

(* main leaves run() only when it serves nobody: no client has a session   *)
(* any more and no process runs whose exit nobody would notice.            *)
NobodyIsDropped ==
    main \in {"joining", "returned"} => ~accepting /\ sessions = {} /\ apps = 0

(* Once out of run(), main never returns: ~Shadow waits for a thread that  *)
(* only its next statement would stop.  The process is still there, its    *)
(* port too; only a VirtualBox that cannot be reached ends it.             *)
NeverReturns == main # "returned"

(* Expected to be violated: a server that is out of run() ends, and with   *)
(* it the VMHandler, which says that it will "call NS_ShutdownXPCOM at the *)
(* end" (vm_handler.cpp:34).                                               *)
DestructorEnds == main = "joining" ~> main = "returned" \/ exited
=============================================================================
