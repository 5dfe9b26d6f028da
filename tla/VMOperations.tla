---------------------------- MODULE VMOperations ----------------------------
(***************************************************************************)
(* The operations of VMHandler on a virtual machine (vm_handler.cpp):      *)
(* restore, save, start, stop and delete a snapshot.  Each is a chain of   *)
(* calls to VirtualBox that ends in UnlockMachine, and each asks           *)
(* VirtualBox for work that goes on by itself until show_progress sees it  *)
(* completed.  All of them share one session, which locks one machine at a *)
(* time.                                                                   *)
(*                                                                         *)
(* VirtualBox is external: any call may fail; a locked session locks no    *)
(* second machine; a machine takes on new work only when no other work is  *)
(* under way; a launch that succeeds leaves the session locked.            *)
(***************************************************************************)
EXTENDS Naturals, Sequences, FiniteSets, FiniteSetsExt

CONSTANTS
    Machines,
    Snapshots,      \* names of snapshots
    MaxOps          \* bound: operations in a behaviour

ASSUME OperationsAssumption == MaxOps \in Nat

VARIABLES
    op,         \* the operation that runs, or NoOp
    at,         \* the number of its next step
    job,        \* the work whose progress object the operation holds, or NoJob
    session,    \* the machine that the session has locked, or NoMachine
    works,      \* what VirtualBox is working on
    running,    \* the machines that run
    content,    \* what a machine will run, or runs: a snapshot or "live"
    booted,     \* history: content when the machine was launched last
    snaps,      \* the snapshots of a machine
    failed,     \* history: a call or the work of the operation failed
    touched,    \* history: others changed the machine after the operation did
    blinded,    \* history: show_progress gave up on work under way
    crashed,    \* a null progress object has been used
    ops         \* number of operations begun

control == <<op, at, job, failed, blinded, crashed, ops>>
box     == <<running, content, booted, snaps>>
vars    == <<control, session, works, box, touched>>

NoOp == [kind |-> "none"]
NoJob == [what |-> "none"]
NoMachine == "none"
Live == "live"

Kinds == {"restore", "save", "start", "stop", "delete"}

(* The calls of an operation, in order.  restore_vm ends with the whole of *)
(* start_vm.                                                               *)
Program == [restore |-> <<"find", "lock", "get", "snapshot", "act", "show", "unlock",
                          "find", "launch", "show", "wait", "unlock">>,
            save    |-> <<"find", "lock", "get", "act", "show", "unlock">>,
            start   |-> <<"find", "launch", "show", "wait", "unlock">>,
            stop    |-> <<"find", "lock", "get", "act", "show", "unlock">>,
            delete  |-> <<"find", "lock", "get", "snapshot", "id", "act", "show", "unlock">>]

Here == IF op = NoOp \/ crashed THEN "nowhere" ELSE Program[op.kind][at]

NextUnlock == Min({i \in at..Len(Program[op.kind]) : Program[op.kind][i] = "unlock"})

Init ==
    /\ op = NoOp /\ at = 1 /\ job = NoJob
    /\ session = NoMachine /\ works = {}
    /\ running \in SUBSET Machines /\ snaps \in [Machines -> SUBSET Snapshots]
    /\ content = [m \in Machines |-> Live] /\ booted = content
    /\ failed = FALSE /\ touched = FALSE /\ blinded = FALSE /\ crashed = FALSE
    /\ ops = 0

-----------------------------------------------------------------------------
Begin(kind, m, s) ==
    /\ op = NoOp
    /\ ops < MaxOps
    /\ op' = [kind |-> kind, vm |-> m, snap |-> s]
    /\ at' = 1 /\ job' = NoJob
    /\ failed' = FALSE /\ touched' = FALSE
    /\ ops' = ops + 1
    /\ UNCHANGED <<blinded, crashed, session, works>>
    /\ UNCHANGED box

Go(i) == at' = i /\ UNCHANGED <<op, job, failed, blinded, crashed, ops>>

(* find_machine, GetMachine or GetConsole, FindSnapshot and GetId succeed. *)
Look ==
    /\ Here \in {"find", "get", "snapshot", "id"}
    /\ Here = "snapshot" => op.snap \in snaps[op.vm]
    /\ Go(at + 1)
    /\ UNCHANGED <<session, works, touched>> /\ UNCHANGED box

Lock ==
    /\ Here = "lock"
    /\ session = NoMachine
    /\ session' = op.vm
    /\ Go(at + 1)
    /\ UNCHANGED <<works, touched>> /\ UNCHANGED box

Busy(m) == \E w \in works : w.vm = m

(* VirtualBox takes on the work and returns its progress object.           *)
TakeOn(what) ==
    /\ ~Busy(op.vm)
    /\ job' = [what |-> what, vm |-> op.vm, snap |-> op.snap]
    /\ works' = works \cup {job'}
    /\ at' = at + 1
    /\ UNCHANGED <<op, failed, blinded, crashed, ops, session>>
    /\ UNCHANGED box

(* RestoreSnapshot, TakeSnapshot, PowerDown or DeleteSnapshot.             *)
Act ==
    /\ Here = "act"
    /\ op.kind = "restore" => op.vm \notin running
    /\ op.kind = "stop" => op.vm \in running
    /\ touched' = FALSE
    /\ TakeOn(op.kind)

LaunchVMProcess ==
    /\ Here = "launch"
    /\ session = NoMachine /\ op.vm \notin running
    /\ UNCHANGED touched
    /\ TakeOn("launch")

(* A call fails, or gives no progress object, and the operation knows it:  *)
(* it goes to its UnlockMachine.  PowerDown's result is not looked at.     *)
Fails ==
    /\ Here \in {"find", "lock", "get", "snapshot", "id", "act", "launch"}
    /\ ~(Here = "act" /\ op.kind = "stop")
    /\ at' = NextUnlock
    /\ failed' = TRUE
    /\ UNCHANGED <<op, job, blinded, crashed, ops, session, works, touched>>
    /\ UNCHANGED box

(* Broken variant of FailsUnseen: save_vm does not look either.            *)
FailsUnseenInSave ==
    /\ Here = "act" /\ op.kind \in {"restore", "stop", "save"}
    /\ at' = at + 1
    /\ failed' = TRUE
    /\ UNCHANGED <<op, job, blinded, crashed, ops, session, works, touched>>
    /\ UNCHANGED box

(* PowerDown fails or gives no progress object; RestoreSnapshot gives      *)
(* none.  The operation goes on with a null pointer.                       *)
FailsUnseen ==
    /\ Here = "act" /\ op.kind \in {"restore", "stop"}
    /\ at' = at + 1
    /\ failed' = TRUE
    /\ UNCHANGED <<op, job, blinded, crashed, ops, session, works, touched>>
    /\ UNCHANGED box

-----------------------------------------------------------------------------
(* Broken variant of ShowProgress: it does not wait.                       *)
ShowProgressAtOnce ==
    /\ Here = "show"
    /\ job # NoJob
    /\ Go(at + 1)
    /\ UNCHANGED <<session, works, touched>> /\ UNCHANGED box

(* Broken variant of ShowProgress: it waits for a hundred percent, which a *)
(* work that fails never reaches.                                          *)
ShowProgressToTheEnd ==
    /\ Here \in {"show", "wait"}
    /\ job # NoJob /\ job \notin works /\ ~failed
    /\ Go(at + 1)
    /\ UNCHANGED <<session, works, touched>> /\ UNCHANGED box

(* show_progress polls until the work is completed; WaitForCompletion(-1). *)
ShowProgress ==
    /\ Here \in {"show", "wait"}
    /\ job # NoJob /\ job \notin works
    /\ Go(at + 1)
    /\ UNCHANGED <<session, works, touched>> /\ UNCHANGED box

(* NS_GetMainEventQ, GetOperationCount, GetCompleted, GetPercent or        *)
(* WaitForCompletion fails.                                                *)
ProgressLost ==
    /\ Here \in {"show", "wait"}
    /\ at' = at + 1
    /\ failed' = TRUE
    /\ blinded' = TRUE
    /\ UNCHANGED <<op, job, crashed, ops, session, works, touched>>
    /\ UNCHANGED box

(* GetOperationCount of a null progress object.                            *)
NullProgress ==
    /\ Here = "show"
    /\ job = NoJob
    /\ crashed' = TRUE
    /\ session' = NoMachine     \* VirtualBox drops the session of a dead process
    /\ UNCHANGED <<op, at, job, failed, blinded, ops, works, touched>>
    /\ UNCHANGED box

(* Broken variant of UnlockMachine: only after an operation that went well.*)
UnlockMachineIfWell ==
    /\ Here = "unlock"
    /\ session' = IF failed THEN session ELSE NoMachine
    /\ job' = NoJob
    /\ IF at = Len(Program[op.kind]) THEN op' = NoOp /\ at' = 1 ELSE op' = op /\ at' = at + 1
    /\ UNCHANGED <<failed, blinded, crashed, ops, works, touched>>
    /\ UNCHANGED box

(* UnlockMachine, whether the session is locked or not.  The last one ends *)
(* the operation (request_vm_status_update changes nothing here).          *)
UnlockMachine ==
    /\ Here = "unlock"
    /\ session' = NoMachine
    /\ job' = NoJob
    /\ IF at = Len(Program[op.kind]) THEN op' = NoOp /\ at' = 1 ELSE op' = op /\ at' = at + 1
    /\ UNCHANGED <<failed, blinded, crashed, ops, works, touched>>
    /\ UNCHANGED box

Call == Look \/ Lock \/ Act \/ LaunchVMProcess \/ Fails \/ FailsUnseen

Proceed == ShowProgress \/ NullProgress \/ UnlockMachine

-----------------------------------------------------------------------------
(* VirtualBox completes a work.  A launch locks the session, if it is      *)
(* free; if the operation has not waited for it, the session may be gone.  *)
WorkDone(w) ==
    /\ works' = works \ {w}
    /\ running' = CASE w.what = "launch" -> running \cup {w.vm}
                    [] w.what = "stop" -> running \ {w.vm}
                    [] OTHER -> running
    /\ content' = CASE w.what = "restore" -> [content EXCEPT ![w.vm] = w.snap]
                    [] w.what = "launch" -> [content EXCEPT ![w.vm] = Live]
                    [] OTHER -> content
    /\ booted' = IF w.what = "launch" THEN [booted EXCEPT ![w.vm] = content[w.vm]] ELSE booted
    /\ snaps' = CASE w.what = "save" -> [snaps EXCEPT ![w.vm] = @ \cup {w.snap}]
                  [] w.what = "delete" -> [snaps EXCEPT ![w.vm] = @ \ {w.snap}]
                  [] OTHER -> snaps
    /\ \/ w.what = "launch" /\ session = NoMachine /\ ~crashed /\ session' = w.vm
       \/ (w.what = "launch" /\ w = job => session # NoMachine) /\ UNCHANGED session
    /\ UNCHANGED <<control, touched>>

WorkFails(w) ==
    /\ works' = works \ {w}
    /\ failed' = (failed \/ w = job)
    /\ UNCHANGED <<op, at, job, blinded, crashed, ops, session, touched>>
    /\ UNCHANGED box

(* The user of VirtualBox's own window, or another program: runs or stops  *)
(* the machine, changes what it will run, or its snapshots.                *)
Touch(m) ==
    /\ ~Busy(m)
    /\ touched' = (touched \/ (op # NoOp /\ m = op.vm))
    /\ \/ /\ running' = IF m \in running THEN running \ {m} ELSE running \cup {m}
          /\ content' = [content EXCEPT ![m] = Live]
          /\ UNCHANGED snaps
       \/ /\ m \notin running
          /\ \E s \in snaps[m] : content' = [content EXCEPT ![m] = s]
          /\ UNCHANGED <<running, snaps>>
       \/ /\ \E s \in snaps[m] : snaps' = [snaps EXCEPT ![m] = @ \ {s}]
          /\ UNCHANGED <<running, content>>
    /\ UNCHANGED <<control, session, works, booted>>

Next ==
    \/ \E kind \in Kinds, m \in Machines, s \in Snapshots : Begin(kind, m, s)
    \/ Call \/ Proceed \/ ProgressLost
    \/ \E w \in works : WorkDone(w) \/ WorkFails(w)
    \/ \E m \in Machines : Touch(m)

(* The calls return, well or not, the polling goes on, and VirtualBox      *)
(* completes what it has taken on.  No progress call has to fail.          *)
Fairness == /\ WF_vars(Call) /\ WF_vars(Proceed)
            /\ WF_vars(\E w \in works : WorkDone(w) \/ WorkFails(w))

Spec == Init /\ [][Next]_vars /\ Fairness

-----------------------------------------------------------------------------
Job == [what : {"restore", "save", "stop", "delete", "launch"}, vm : Machines, snap : Snapshots]

TypeOK ==
    /\ op \in {NoOp} \cup [kind : Kinds, vm : Machines, snap : Snapshots]
    /\ op # NoOp => at \in 1..Len(Program[op.kind])
    /\ job \in {NoJob} \cup Job
    /\ works \subseteq Job
    /\ \A v, w \in works : v.vm = w.vm => v = w
    /\ session \in Machines \cup {NoMachine}
    /\ running \in SUBSET Machines
    /\ content \in [Machines -> Snapshots \cup {Live}]
    /\ booted \in [Machines -> Snapshots \cup {Live}]
    /\ snaps \in [Machines -> SUBSET Snapshots]
    /\ {failed, touched, blinded, crashed} \subseteq BOOLEAN
    /\ ops \in 0..MaxOps

(* Between two operations nothing is left behind: no work under way and no *)
(* locked session, unless show_progress has given up on a progress object  *)
(* (every path, whichever call failed, comes by an UnlockMachine, and each *)
(* waits for the work it has asked for).                                   *)
CleanBetweenOperations == op = NoOp /\ ~blinded => works = {} /\ session = NoMachine

(* A null progress object is used in two places only: where restore_vm     *)
(* trusts RestoreSnapshot, and where stop_vm trusts PowerDown.  The launch *)
(* at the end of restore_vm is safe.                                       *)
CrashesInTwoPlaces ==
    crashed => op.kind \in {"restore", "stop"} /\ Program[op.kind][at - 1] = "act"

(* What an operation is for.                                               *)
Achieved ==
    CASE op.kind = "restore" -> op.vm \in running /\ booted[op.vm] = op.snap
      [] op.kind = "save"    -> op.snap \in snaps[op.vm]
      [] op.kind = "start"   -> op.vm \in running
      [] op.kind = "stop"    -> op.vm \notin running
      [] op.kind = "delete"  -> op.snap \notin snaps[op.vm]

(* An operation none of whose calls failed, and into which nobody else has *)
(* meddled, has done what it is for when it is about to end: a machine     *)
(* that restore_vm starts runs from the snapshot that was asked for, even  *)
(* though the machine is unlocked in between and work of an earlier        *)
(* operation may still be under way.                                       *)
SuccessIsReal ==
    op # NoOp /\ Here = "unlock" /\ at = Len(Program[op.kind]) /\ ~failed /\ ~touched => Achieved

(* Every operation ends, or crashes, however its calls fail, if VirtualBox *)
(* completes what it has taken on: show_progress polls without a time      *)
(* limit, and start_vm waits with none.                                    *)
OperationEnds == op # NoOp ~> op = NoOp \/ crashed
=============================================================================
