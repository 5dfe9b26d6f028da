---------------------------- MODULE VMStatusFeed ----------------------------
(***************************************************************************)
(* How the state of the virtual machines reaches the controllers: the VM   *)
(* thread of the server (VMHandler in src/shadow/vm_handler.cpp, started   *)
(* by Shadow::worker_thread in src/shadow/shadow.cpp) asks VirtualBox for  *)
(* three lists, one after the other, and posts each to the main thread;    *)
(* the main thread (HostServer in src/shadow/host_server.cpp) stores them  *)
(* and sends them to the sessions.                                         *)
(*                                                                         *)
(* VirtualBox changes between any two questions, and the main thread may   *)
(* run between any two posts: it may accept a session while it has lists   *)
(* of different polls.  What a list says is abstracted to the version of   *)
(* VirtualBox it was read from and its length, for the lengths are all     *)
(* that the server looks at.                                               *)
(***************************************************************************)
EXTENDS Integers, Sequences

CONSTANTS
    MaxVMs,         \* bound: virtual machines registered at once
    MaxChanges,     \* bound: changes and failures of VirtualBox
    MaxSessions,    \* bound: connections ever accepted
    MaxQueue        \* bound: tasks posted and not run, less one poll

ASSUME VMStatusFeedAssumption ==
    /\ MaxVMs \in Nat
    /\ MaxChanges \in Nat
    /\ MaxSessions \in Nat
    /\ MaxQueue \in Nat

Sessions == 1..MaxSessions

VARIABLES
    changes,        \* changes and failures so far
    registry,       \* VirtualBox: version and number of its machines
    pc,             \* what the VM thread does next
    polled,         \* VMHandler's vm_list, vm_running_list and vm_snaps
    queue,          \* tasks posted to the main thread
    stored,         \* HostServer's vm_list, vm_running_list and vm_snaps_list
    joined,         \* sessions accepted so far
    told            \* the lists each session was sent last

thread == <<pc, polled>>
feedVars == <<changes, registry, thread, queue, stored, joined, told>>

(* A vector: empty, or read from version at of VirtualBox.  An entry of a  *)
(* machine that could not be found is that of no version.                  *)
NotFound == -1
Vector == [at : NotFound..MaxChanges, len : 0..MaxVMs]
Empty == [at |-> NotFound, len |-> 0]
Read(at, len) == IF len = 0 THEN Empty ELSE [at |-> at, len |-> len]

Lists == [list : Vector, running : Vector, snaps : Vector]
NoLists == [list |-> Empty, running |-> Empty, snaps |-> Empty]
(* What a session was sent that was sent nothing: no lists are like this.  *)
NothingYet == [list |-> Empty, running |-> Empty, snaps |-> [Empty EXCEPT !.len = MaxVMs + 1]]

(* A task: one of the update_* functions with its argument, or             *)
(* send_vm_status_update.  Of the latter, poll records (as history) the    *)
(* lists that the VM thread means to be sent.                              *)
Task == [store : {"list", "running", "snaps"}, value : Vector] \cup [poll : Lists]
IsBroadcast(t) == "poll" \in DOMAIN t

FeedTypeOK ==
    /\ changes \in 0..MaxChanges
    /\ registry \in [at : 0..MaxChanges, len : 0..MaxVMs]
    /\ pc \in {"get_list", "get_running", "get_snaps",
               "post_list", "post_running", "post_snaps", "post_broadcast"}
    /\ polled \in Lists
    /\ queue \in Seq(Task)
    /\ stored \in Lists
    /\ joined \in 0..MaxSessions
    /\ told \in [Sessions -> Lists \cup {NothingYet}]

FeedInit ==
    /\ changes = 0
    /\ registry \in [at : {0}, len : 0..MaxVMs]
    /\ pc = "get_list"
    /\ polled = NoLists
    /\ queue = << >>
    /\ stored = NoLists
    /\ joined = 0
    /\ told = [i \in Sessions |-> NothingYet]

-----------------------------------------------------------------------------
(* VirtualBox: a machine is added, removed, started, stopped, or given a   *)
(* snapshot.                                                               *)
Change ==
    /\ changes < MaxChanges
    /\ changes' = changes + 1
    /\ \E len \in 0..MaxVMs : registry' = [at |-> changes + 1, len |-> len]
    /\ UNCHANGED <<thread, queue, stored, joined, told>>

-----------------------------------------------------------------------------
(* The VM thread: request_vm_status_update, from the timer once a second.  *)

(* An answer to a question: the right one, or, should VirtualBox fail, the *)
(* one that the caller makes of the failure.                               *)
Answer(field, right, failed, next) ==
    /\ pc' = next
    /\ \/ polled' = [polled EXCEPT ![field] = right] /\ UNCHANGED changes
       \/ /\ changes < MaxChanges
          /\ changes' = changes + 1
          /\ polled' = [polled EXCEPT ![field] = failed]
    /\ UNCHANGED <<registry, queue, stored, joined, told>>

GetList ==
    /\ pc = "get_list"
    /\ Len(queue) <= MaxQueue
    /\ Answer("list", Read(registry.at, registry.len), Empty, "get_running")

GetRunning ==
    /\ pc = "get_running"
    /\ Answer("running", Read(registry.at, registry.len), Empty, "get_snaps")

(* The snapshots of each machine of the list just polled, looked up by     *)
(* name: as many entries as the list has, whatever became of the machines. *)
(* It takes a question per machine; what is read is as old as the first.   *)
GetSnaps ==
    /\ pc = "get_snaps"
    /\ Answer("snaps", Read(registry.at, polled.list.len), Read(NotFound, polled.list.len), "post_list")

Post(task, next) ==
    /\ queue' = Append(queue, task)
    /\ pc' = next
    /\ UNCHANGED <<changes, registry, polled, stored, joined, told>>

PostList ==
    /\ pc = "post_list"
    /\ Post([store |-> "list", value |-> polled.list], "post_running")
PostRunning ==
    /\ pc = "post_running"
    /\ Post([store |-> "running", value |-> polled.running], "post_snaps")
PostSnaps ==
    /\ pc = "post_snaps"
    /\ Post([store |-> "snaps", value |-> polled.snaps], "post_broadcast")

-----------------------------------------------------------------------------
(* The main thread.                                                        *)

(* send_vm_status_update: the lists are sent if their lengths agree, and   *)
(* the update is dropped if they do not.                                   *)
LengthsAgree(lists) ==
    lists.list.len = lists.running.len /\ lists.snaps.len = lists.list.len
SendTo(S) ==
    told' = [i \in Sessions |-> IF i \in S /\ LengthsAgree(stored) THEN stored ELSE told[i]]

(* Broken variant of PostBroadcast: the VM thread sends by itself what the *)
(* main thread has.                                                        *)
PostBroadcastDirectly ==
    /\ pc = "post_broadcast"
    /\ pc' = "get_list"
    /\ SendTo(1..joined)
    /\ UNCHANGED <<changes, registry, polled, queue, stored, joined>>

PostBroadcast == pc = "post_broadcast" /\ Post([poll |-> polled], "get_list")

(* update_vm_list, update_vm_running_list or update_vm_snaps_list.         *)
RunStore ==
    /\ queue # << >>
    /\ ~IsBroadcast(Head(queue))
    /\ queue' = Tail(queue)
    /\ stored' = [stored EXCEPT ![Head(queue).store] = Head(queue).value]
    /\ UNCHANGED <<changes, registry, thread, joined, told>>

(* Broken variant of RunBroadcast: a session that was sent the same names  *)
(* is left out.                                                            *)
RunBroadcastIfNew ==
    /\ queue # << >>
    /\ IsBroadcast(Head(queue))
    /\ queue' = Tail(queue)
    /\ SendTo({i \in 1..joined : told[i].list # stored.list})
    /\ UNCHANGED <<changes, registry, thread, stored, joined>>

(* send_vm_status_update to every session.                                 *)
RunBroadcast ==
    /\ queue # << >>
    /\ IsBroadcast(Head(queue))
    /\ queue' = Tail(queue)
    /\ SendTo(1..joined)
    /\ UNCHANGED <<changes, registry, thread, stored, joined>>

(* A session is accepted and sent what there is.                           *)
Accept ==
    /\ joined < MaxSessions
    /\ joined' = joined + 1
    /\ SendTo({joined + 1})
    /\ UNCHANGED <<changes, registry, thread, queue, stored>>

-----------------------------------------------------------------------------
Poll ==
    \/ GetList \/ GetRunning \/ GetSnaps
    \/ PostList \/ PostRunning \/ PostSnaps \/ PostBroadcast

FeedNext == Change \/ Poll \/ RunStore \/ RunBroadcast \/ Accept

(* The timer goes off for ever, and io_service.run() runs what is posted.  *)
FeedFairness == WF_feedVars(Poll) /\ WF_feedVars(RunStore \/ RunBroadcast)

FeedSpec == FeedInit /\ [][FeedNext]_feedVars /\ FeedFairness

-----------------------------------------------------------------------------
(* Safety.                                                                 *)

(* A broadcast is whole: what a session is sent after it has joined are    *)
(* the three lists of one poll, those of the VM thread when it posted the  *)
(* broadcast, although the lists travel one by one and the thread may have *)
(* started the next poll.                                                  *)
BroadcastIsOnePoll ==
    [][\A i \in 1..joined :
        told'[i] # told[i] =>
            /\ queue # << >>
            /\ IsBroadcast(Head(queue))
            /\ told'[i] = Head(queue).poll]_feedVars

(* Nobody is left with an accidental mixture of two polls: when no posts   *)
(* are on their way, every session has been sent what the server stores,   *)
(* if that could be sent at all.  A session accepted between two tasks may *)
(* be sent such a mixture, or nothing; the broadcast that follows mends it.*)
NobodyIsLeftBehind ==
    queue = << >> /\ pc \in {"get_list", "get_running", "get_snaps", "post_list"} /\ LengthsAgree(stored)
        => \A i \in 1..joined : told[i] = stored

(* Liveness: once VirtualBox is quiet every session ends up with its       *)
(* state, however the polls before were torn or dropped.                   *)
Current == [list |-> Read(registry.at, registry.len),
            running |-> Read(registry.at, registry.len),
            snaps |-> Read(registry.at, registry.len)]
CatchesUp == <>[](\A i \in 1..joined : told[i] = Current)
=============================================================================
