--------------------------- MODULE VMHandlerProofs ---------------------------
(***************************************************************************)
(* Theorems about what VMHandler does, for any number of machines,         *)
(* snapshots, changes, sessions and waiting tasks: its operations          *)
(* (VMOperations), the lists it polls and posts (VMStatusFeed), and the    *)
(* list it makes of a machine's snapshots (SnapshotTree).                  *)
(***************************************************************************)
EXTENDS VMOperations, VMStatusFeed, SnapshotTree, SequenceLemmas, FiniteSetTheorems, FunctionTheorems, TLAPS

(***************************************************************************)
(* The operations.  Wherever an operation is, the work that is due there   *)
(* is done, or something has failed, or others have been at the machine.   *)
(***************************************************************************)

(* The programs written out.                                               *)
LEMMA Programs ==
    /\ Program.restore = <<"find", "lock", "get", "snapshot", "act", "show", "unlock",
                           "find", "launch", "show", "wait", "unlock">>
    /\ Program.save = <<"find", "lock", "get", "act", "show", "unlock">>
    /\ Program.start = <<"find", "launch", "show", "wait", "unlock">>
    /\ Program.stop = <<"find", "lock", "get", "act", "show", "unlock">>
    /\ Program.delete = <<"find", "lock", "get", "snapshot", "id", "act", "show", "unlock">>
    BY DEF Program

(* Where the next UnlockMachine is.                                        *)
LEMMA NextUnlockIsUnlock ==
    ASSUME op.kind \in Kinds, at \in 1..Len(Program[op.kind])
    PROVE  NextUnlock \in at..Len(Program[op.kind]) /\ Program[op.kind][NextUnlock] = "unlock"
<1> DEFINE S == {i \in at..Len(Program[op.kind]) : Program[op.kind][i] = "unlock"}
<1>1. \E m \in S : \A i \in S : m <= i
    <2>1. CASE op.kind = "restore"
        <3>1. Program[op.kind] = <<"find", "lock", "get", "snapshot", "act", "show", "unlock",
                                   "find", "launch", "show", "wait", "unlock">>
            BY <2>1, Programs
        <3>2. CASE at <= 7
            <4>1. 7 \in S /\ \A i \in S : 7 <= i
                BY <3>1, <3>2
            <4>2. QED BY <4>1
        <3>3. CASE at > 7
            <4>1. 12 \in S /\ \A i \in S : 12 <= i
                BY <3>1, <3>3
            <4>2. QED BY <4>1
        <3>4. QED BY <3>2, <3>3
    <2>2. CASE op.kind \in {"save", "stop"}
        <3>1. Program[op.kind] = <<"find", "lock", "get", "act", "show", "unlock">>
            BY <2>2, Programs
        <3>2. 6 \in S /\ \A i \in S : 6 <= i
            BY <3>1
        <3>3. QED BY <3>2
    <2>3. CASE op.kind = "start"
        <3>1. Program[op.kind] = <<"find", "launch", "show", "wait", "unlock">>
            BY <2>3, Programs
        <3>2. 5 \in S /\ \A i \in S : 5 <= i
            BY <3>1
        <3>3. QED BY <3>2
    <2>4. CASE op.kind = "delete"
        <3>1. Program[op.kind] = <<"find", "lock", "get", "snapshot", "id", "act", "show", "unlock">>
            BY <2>4, Programs
        <3>2. 8 \in S /\ \A i \in S : 8 <= i
            BY <3>1
        <3>3. QED BY <3>2
    <2>5. QED BY <2>1, <2>2, <2>3, <2>4 DEF Kinds
<1>2. NextUnlock \in S
    BY <1>1 DEF NextUnlock, Min
<1>3. QED BY <1>2

-----------------------------------------------------------------------------
(* The invariant.                                                          *)

(* As long as show_progress has never given up, VirtualBox works at most   *)
(* on what the operation waits for, and the session is free in between.    *)
OneJobAtATime == ~blinded =>
    /\ works \subseteq {job}
    /\ works # {} => op # NoOp /\ Program[op.kind][at] \in {"show", "wait"}
    /\ op = NoOp => session = NoMachine

(* The operation holds no progress object at a show_progress only after an *)
(* act whose result it has not looked at.                                  *)
NullIsKnown ==
    /\ op # NoOp /\ Program[op.kind][at] = "show" /\ job = NoJob =>
            op.kind \in {"restore", "stop"} /\ Program[op.kind][at - 1] = "act"
    /\ crashed => op # NoOp
    /\ CrashesInTwoPlaces

(* The operation's own work is all that goes on with its machine.          *)
Doing(what) ==
    /\ job = [what |-> what, vm |-> op.vm, snap |-> op.snap]
    /\ \A w \in works : w.vm = op.vm => w = job

(* What is so, step by step, of an operation that nothing has disturbed    *)
(* since its act.                                                          *)
RestoreDue == op.kind = "restore" =>
    /\ at = 6 => Doing("restore") /\ op.vm \notin running /\ (job \in works \/ content[op.vm] = op.snap)
    /\ at \in 7..9 => ~Busy(op.vm) /\ op.vm \notin running /\ content[op.vm] = op.snap
    /\ at = 10 => Doing("launch") /\ IF job \in works THEN content[op.vm] = op.snap
                                     ELSE op.vm \in running /\ booted[op.vm] = op.snap
    /\ at \in 11..12 => ~Busy(op.vm) /\ op.vm \in running /\ booted[op.vm] = op.snap

SaveDue == op.kind = "save" =>
    /\ at = 5 => Doing("save") /\ (job \in works \/ op.snap \in snaps[op.vm])
    /\ at = 6 => ~Busy(op.vm) /\ op.snap \in snaps[op.vm]

StartDue == op.kind = "start" =>
    /\ at = 3 => Doing("launch") /\ (job \in works \/ op.vm \in running)
    /\ at \in 4..5 => ~Busy(op.vm) /\ op.vm \in running

StopDue == op.kind = "stop" =>
    /\ at = 5 => Doing("stop") /\ (job \in works \/ op.vm \notin running)
    /\ at = 6 => ~Busy(op.vm) /\ op.vm \notin running

DeleteDue == op.kind = "delete" =>
    /\ at = 7 => Doing("delete") /\ (job \in works \/ op.snap \notin snaps[op.vm])
    /\ at = 8 => ~Busy(op.vm) /\ op.snap \notin snaps[op.vm]

Due == RestoreDue /\ SaveDue /\ StartDue /\ StopDue /\ DeleteDue

WorkIsDue == op # NoOp /\ ~failed /\ ~touched => Due

OperationsInv == TypeOK /\ OneJobAtATime /\ NullIsKnown /\ WorkIsDue

-----------------------------------------------------------------------------
(* The calls of each program by their numbers.                             *)
LEMMA Table ==
    ASSUME NEW k \in Kinds, NEW i \in 1..Len(Program[k])
    PROVE  /\ k = "restore" => \/ i \in {1, 8} /\ Program[k][i] = "find"
                               \/ i = 2 /\ Program[k][i] = "lock"
                               \/ i = 3 /\ Program[k][i] = "get"
                               \/ i = 4 /\ Program[k][i] = "snapshot"
                               \/ i = 5 /\ Program[k][i] = "act"
                               \/ i \in {6, 10} /\ Program[k][i] = "show"
                               \/ i \in {7, 12} /\ Program[k][i] = "unlock"
                               \/ i = 9 /\ Program[k][i] = "launch"
                               \/ i = 11 /\ Program[k][i] = "wait"
           /\ k \in {"save", "stop"} => \/ i = 1 /\ Program[k][i] = "find"
                                        \/ i = 2 /\ Program[k][i] = "lock"
                                        \/ i = 3 /\ Program[k][i] = "get"
                                        \/ i = 4 /\ Program[k][i] = "act"
                                        \/ i = 5 /\ Program[k][i] = "show"
                                        \/ i = 6 /\ Program[k][i] = "unlock"
           /\ k = "start" => \/ i = 1 /\ Program[k][i] = "find"
                             \/ i = 2 /\ Program[k][i] = "launch"
                             \/ i = 3 /\ Program[k][i] = "show"
                             \/ i = 4 /\ Program[k][i] = "wait"
                             \/ i = 5 /\ Program[k][i] = "unlock"
           /\ k = "delete" => \/ i = 1 /\ Program[k][i] = "find"
                              \/ i = 2 /\ Program[k][i] = "lock"
                              \/ i = 3 /\ Program[k][i] = "get"
                              \/ i = 4 /\ Program[k][i] = "snapshot"
                              \/ i = 5 /\ Program[k][i] = "id"
                              \/ i = 6 /\ Program[k][i] = "act"
                              \/ i = 7 /\ Program[k][i] = "show"
                              \/ i = 8 /\ Program[k][i] = "unlock"
<1>1. CASE k = "restore"
    <2>1. Program[k] = <<"find", "lock", "get", "snapshot", "act", "show", "unlock",
                         "find", "launch", "show", "wait", "unlock">>
        BY <1>1, Programs
    <2>2. i \in 1..12
        BY <2>1
    <2>3. QED BY <1>1, <2>1, <2>2
<1>2. CASE k \in {"save", "stop"}
    <2>1. Program[k] = <<"find", "lock", "get", "act", "show", "unlock">>
        BY <1>2, Programs
    <2>2. QED BY <1>2, <2>1
<1>3. CASE k = "start"
    <2>1. Program[k] = <<"find", "launch", "show", "wait", "unlock">>
        BY <1>3, Programs
    <2>2. QED BY <1>3, <2>1
<1>4. CASE k = "delete"
    <2>1. Program[k] = <<"find", "lock", "get", "snapshot", "id", "act", "show", "unlock">>
        BY <1>4, Programs
    <2>2. QED BY <1>4, <2>1
<1>5. QED BY <1>1, <1>2, <1>3, <1>4 DEF Kinds

(* How long the programs are.                                              *)
LEMMA Lengths ==
    ASSUME NEW k \in Kinds
    PROVE  /\ k = "restore" => Len(Program[k]) = 12
           /\ k \in {"save", "stop"} => Len(Program[k]) = 6
           /\ k = "start" => Len(Program[k]) = 5
           /\ k = "delete" => Len(Program[k]) = 8
           /\ Len(Program[k]) \in {5, 6, 8, 12}
<1>1. CASE k = "restore"
    <2>1. Program[k] = <<"find", "lock", "get", "snapshot", "act", "show", "unlock",
                         "find", "launch", "show", "wait", "unlock">>
        BY <1>1, Programs
    <2>2. QED BY <1>1, <2>1
<1>2. CASE k \in {"save", "stop"}
    <2>1. Program[k] = <<"find", "lock", "get", "act", "show", "unlock">>
        BY <1>2, Programs
    <2>2. QED BY <1>2, <2>1
<1>3. CASE k = "start"
    <2>1. Program[k] = <<"find", "launch", "show", "wait", "unlock">>
        BY <1>3, Programs
    <2>2. QED BY <1>3, <2>1
<1>4. CASE k = "delete"
    <2>1. Program[k] = <<"find", "lock", "get", "snapshot", "id", "act", "show", "unlock">>
        BY <1>4, Programs
    <2>2. QED BY <1>4, <2>1
<1>5. QED BY <1>1, <1>2, <1>3, <1>4 DEF Kinds

(* What an operation begins with.                                          *)
LEMMA BeginsWithFind ==
    ASSUME NEW k \in Kinds
    PROVE  1 \in 1..Len(Program[k]) /\ Program[k][1] = "find"
<1>1. CASE k = "restore"
    <2>1. Program[k] = <<"find", "lock", "get", "snapshot", "act", "show", "unlock",
                         "find", "launch", "show", "wait", "unlock">>
        BY <1>1, Programs
    <2>2. QED BY <2>1
<1>2. CASE k \in {"save", "stop"}
    <2>1. Program[k] = <<"find", "lock", "get", "act", "show", "unlock">>
        BY <1>2, Programs
    <2>2. QED BY <2>1
<1>3. CASE k = "start"
    <2>1. Program[k] = <<"find", "launch", "show", "wait", "unlock">>
        BY <1>3, Programs
    <2>2. QED BY <2>1
<1>4. CASE k = "delete"
    <2>1. Program[k] = <<"find", "lock", "get", "snapshot", "id", "act", "show", "unlock">>
        BY <1>4, Programs
    <2>2. QED BY <2>1
<1>5. QED BY <1>1, <1>2, <1>3, <1>4 DEF Kinds

(* What comes after a call.                                                *)
LEMMA Follows ==
    ASSUME NEW k \in Kinds, NEW i \in 1..Len(Program[k])
    PROVE  /\ 1 \in 1..Len(Program[k]) /\ Program[k][1] = "find"
           /\ Program[k][i] # "unlock" => i + 1 \in 1..Len(Program[k])
           /\ Program[k][i] \in {"act", "launch"} => Program[k][i + 1] = "show"
           /\ Program[k][i] \in {"find", "lock", "get", "snapshot", "id"} =>
                  Program[k][i + 1] \notin {"show", "wait"}
           /\ Program[k][i] \in {"show", "wait"} => Program[k][i + 1] \in {"wait", "unlock"}
           /\ Program[k][i] = "unlock" /\ i # Len(Program[k]) =>
                  i + 1 \in 1..Len(Program[k]) /\ Program[k][i + 1] = "find"
<1>1. 1 \in 1..Len(Program[k]) /\ (i = Len(Program[k]) \/ i + 1 \in 1..Len(Program[k]))
    BY Lengths DEF Kinds
<1>2. Program[k][1] = "find"
    BY BeginsWithFind
<1>3. Program[k][Len(Program[k])] = "unlock"
    <2>1. CASE k = "restore"
        <3>1. Program[k] = <<"find", "lock", "get", "snapshot", "act", "show", "unlock",
                             "find", "launch", "show", "wait", "unlock">>
            BY <2>1, Programs
        <3>2. QED BY <3>1
    <2>2. CASE k \in {"save", "stop"}
        <3>1. Program[k] = <<"find", "lock", "get", "act", "show", "unlock">>
            BY <2>2, Programs
        <3>2. QED BY <3>1
    <2>3. CASE k = "start"
        <3>1. Program[k] = <<"find", "launch", "show", "wait", "unlock">>
            BY <2>3, Programs
        <3>2. QED BY <3>1
    <2>4. CASE k = "delete"
        <3>1. Program[k] = <<"find", "lock", "get", "snapshot", "id", "act", "show", "unlock">>
            BY <2>4, Programs
        <3>2. QED BY <3>1
    <2>5. QED BY <2>1, <2>2, <2>3, <2>4 DEF Kinds
<1>4. CASE i = Len(Program[k])
    BY <1>1, <1>2, <1>3, <1>4
<1>5. CASE i + 1 \in 1..Len(Program[k])
    <2>1. CASE k = "restore"
        <3>1. Program[k] = <<"find", "lock", "get", "snapshot", "act", "show", "unlock",
                             "find", "launch", "show", "wait", "unlock">>
            BY <2>1, Programs
        <3>2. i \in 1..11
            <4>1. Len(Program[k]) = 12
                BY <3>1
            <4>2. QED BY <4>1, <1>5
        <3>3. CASE i \in {1, 2, 3, 4, 8}
            BY <1>1, <1>2, <1>5, <3>1, <3>3
        <3>4. CASE i \in {5, 6, 9, 10, 11}
            BY <1>1, <1>2, <1>5, <3>1, <3>4
        <3>5. CASE i = 7
            BY <1>1, <1>2, <1>5, <3>1, <3>5
        <3>6. QED BY <3>2, <3>3, <3>4, <3>5
    <2>2. CASE k \in {"save", "stop"}
        BY <1>1, <1>2, <1>3, <1>5, <2>2, Table, Lengths
    <2>3. CASE k = "start"
        BY <1>1, <1>2, <1>3, <1>5, <2>3, Table, Lengths
    <2>4. CASE k = "delete"
        BY <1>1, <1>2, <1>3, <1>5, <2>4, Table, Lengths
    <2>5. QED BY <2>1, <2>2, <2>3, <2>4 DEF Kinds
<1>6. QED BY <1>1, <1>4, <1>5

-----------------------------------------------------------------------------
(* The steps.                                                              *)
LEMMA BeginKeeps ==
    ASSUME OperationsInv, NEW kind \in Kinds, NEW m \in Machines, NEW s \in Snapshots, Begin(kind, m, s)
    PROVE  OperationsInv'
<1>1. op' \in [kind : Kinds, vm : Machines, snap : Snapshots] /\ op'.kind = kind /\ op' # NoOp
    BY DEF Begin, NoOp, Kinds
<1>2. 1 \in 1..Len(Program[kind]) /\ Program[kind][1] = "find"
    BY BeginsWithFind
<1>3. TypeOK'
    <2>1. at' \in 1..Len(Program[op'.kind]) /\ ops' \in 0..MaxOps
        BY <1>1, <1>2, OperationsAssumption DEF OperationsInv, TypeOK, Begin
    <2>2. QED BY <1>1, <2>1 DEF OperationsInv, TypeOK, Begin, box
<1>4. OneJobAtATime'
    BY <1>1 DEF OperationsInv, OneJobAtATime, Begin
<1>5. NullIsKnown'
    BY <1>1, <1>2 DEF OperationsInv, NullIsKnown, CrashesInTwoPlaces, Begin
<1>6. WorkIsDue'
    BY DEF WorkIsDue, Due, RestoreDue, SaveDue, StartDue, StopDue, DeleteDue, Begin
<1>7. QED BY <1>3, <1>4, <1>5, <1>6 DEF OperationsInv

LEMMA LookKeeps ==
    ASSUME OperationsInv, Look
    PROVE  OperationsInv'
<1>1. /\ op # NoOp /\ op \in [kind : Kinds, vm : Machines, snap : Snapshots]
      /\ at \in 1..Len(Program[op.kind]) /\ ~crashed
      /\ Program[op.kind][at] \in {"find", "get", "snapshot", "id"}
    BY DEF OperationsInv, TypeOK, Look, Here
<1>2. op.kind \in Kinds
    BY <1>1
<1>3. at + 1 \in 1..Len(Program[op.kind]) /\ Program[op.kind][at + 1] \notin {"show", "wait"}
    BY <1>1, <1>2, Follows
<1>4. TypeOK'
    BY <1>1, <1>3 DEF OperationsInv, TypeOK, Look, Go, box
<1>5. OneJobAtATime'
    BY <1>1 DEF OperationsInv, OneJobAtATime, Look, Go
<1>6. NullIsKnown'
    BY <1>1, <1>3 DEF OperationsInv, NullIsKnown, CrashesInTwoPlaces, Look, Go
<1>7. WorkIsDue'
    <2>1. op' = op /\ at' = at + 1 /\ UNCHANGED <<job, works, running, content, booted, snaps, failed, touched>>
        BY DEF Look, Go, box
    <2>2. /\ op.kind = "restore" => at \in {1, 3, 4, 8}
          /\ op.kind \in {"save", "stop"} => at \in {1, 3}
          /\ op.kind = "start" => at = 1
          /\ op.kind = "delete" => at \in {1, 3, 4, 5}
        BY <1>1, <1>2, Table
    <2>3. SUFFICES ASSUME op # NoOp, ~failed, ~touched PROVE Due'
        BY <2>1 DEF WorkIsDue
    <2>4. Due
        BY <2>3 DEF OperationsInv, WorkIsDue
    <2>5. RestoreDue'
        BY <2>1, <2>2, <2>4 DEF Due, RestoreDue, Busy
    <2>6. SaveDue' /\ StartDue' /\ StopDue' /\ DeleteDue'
        BY <2>1, <2>2 DEF SaveDue, StartDue, StopDue, DeleteDue
    <2>7. QED BY <2>5, <2>6 DEF Due
<1>8. QED BY <1>4, <1>5, <1>6, <1>7 DEF OperationsInv

LEMMA LockKeeps ==
    ASSUME OperationsInv, Lock
    PROVE  OperationsInv'
<1>1. /\ op # NoOp /\ op \in [kind : Kinds, vm : Machines, snap : Snapshots]
      /\ at \in 1..Len(Program[op.kind]) /\ ~crashed
      /\ Program[op.kind][at] = "lock"
    BY DEF OperationsInv, TypeOK, Lock, Here
<1>2. op.kind \in Kinds
    BY <1>1
<1>3. at + 1 \in 1..Len(Program[op.kind]) /\ Program[op.kind][at + 1] \notin {"show", "wait"}
    BY <1>1, <1>2, Follows
<1>4. TypeOK'
    BY <1>1, <1>3 DEF OperationsInv, TypeOK, Lock, Go, box
<1>5. OneJobAtATime'
    BY <1>1 DEF OperationsInv, OneJobAtATime, Lock, Go
<1>6. NullIsKnown'
    BY <1>1, <1>3 DEF OperationsInv, NullIsKnown, CrashesInTwoPlaces, Lock, Go
<1>7. WorkIsDue'
    <2>1. at = 2
        BY <1>1, <1>2, Table DEF Kinds
    <2>2. at' = 3 /\ op' = op
        BY <2>1 DEF Lock, Go
    <2>3. op.kind # "start"
        BY <1>1, <1>2, <2>1, Table
    <2>4. QED BY <2>2, <2>3 DEF WorkIsDue, Due, RestoreDue, SaveDue, StartDue, StopDue, DeleteDue
<1>8. QED BY <1>4, <1>5, <1>6, <1>7 DEF OperationsInv

(* What taking on a work establishes, whichever it is.                     *)
LEMMA TakeOnKeeps ==
    ASSUME OperationsInv, NEW what \in {"restore", "save", "stop", "delete", "launch"}, TakeOn(what),
           touched' \in BOOLEAN,
           op # NoOp, ~crashed, Program[op.kind][at] \in {"act", "launch"}
    PROVE  /\ TypeOK' /\ OneJobAtATime' /\ NullIsKnown'
           /\ op' = op /\ at' = at + 1 /\ failed' = failed /\ UNCHANGED box
           /\ job' \in works' /\ Doing(what)'
<1>1. /\ op \in [kind : Kinds, vm : Machines, snap : Snapshots] /\ op.kind \in Kinds
      /\ at \in 1..Len(Program[op.kind])
    BY DEF OperationsInv, TypeOK
<1>2. at + 1 \in 1..Len(Program[op.kind]) /\ Program[op.kind][at + 1] = "show"
    BY <1>1, Follows
<1>3. /\ job' = [what |-> what, vm |-> op.vm, snap |-> op.snap]
      /\ works' = works \cup {job'} /\ op' = op /\ at' = at + 1
      /\ UNCHANGED <<failed, blinded, crashed, ops, session, running, content, booted, snaps>>
    BY DEF TakeOn, box
<1>4. job' \in Job /\ job'.vm = op.vm /\ job' # NoJob
    BY <1>1, <1>3 DEF Job, NoJob
<1>5. \A w \in works : w.vm # op.vm
    BY DEF TakeOn, Busy
<1>6. TypeOK'
    <2>1. works' \subseteq Job
        BY <1>3, <1>4 DEF OperationsInv, TypeOK
    <2>2. \A v, w \in works' : v.vm = w.vm => v = w
        BY <1>3, <1>4, <1>5 DEF OperationsInv, TypeOK
    <2>3. QED BY <1>1, <1>2, <1>3, <1>4, <2>1, <2>2 DEF OperationsInv, TypeOK
<1>7. OneJobAtATime'
    BY <1>2, <1>3 DEF OperationsInv, OneJobAtATime
<1>8. NullIsKnown'
    BY <1>3, <1>4 DEF NullIsKnown, CrashesInTwoPlaces
<1>9. Doing(what)'
    BY <1>3, <1>5 DEF Doing
<1>10. QED BY <1>3, <1>6, <1>7, <1>8, <1>9 DEF box

LEMMA ActKeeps ==
    ASSUME OperationsInv, Act
    PROVE  OperationsInv'
<1>1. /\ op # NoOp /\ op \in [kind : Kinds, vm : Machines, snap : Snapshots]
      /\ at \in 1..Len(Program[op.kind]) /\ ~crashed
      /\ Program[op.kind][at] = "act" /\ TakeOn(op.kind)
    BY DEF OperationsInv, TypeOK, Act, Here
<1>2. op.kind \in Kinds
    BY <1>1
<1>3. /\ op.kind = "restore" => at = 5
      /\ op.kind \in {"save", "stop"} => at = 4
      /\ op.kind = "delete" => at = 6
      /\ op.kind # "start"
    BY <1>1, <1>2, Table
<1>4. op.kind \in {"restore", "save", "stop", "delete", "launch"} /\ touched' \in BOOLEAN
    BY <1>2, <1>3 DEF Act, Kinds
<1>5. /\ TypeOK' /\ OneJobAtATime' /\ NullIsKnown'
      /\ op' = op /\ at' = at + 1 /\ failed' = failed /\ UNCHANGED box
      /\ job' \in works' /\ Doing(op.kind)'
    BY <1>1, <1>4, TakeOnKeeps
<1>6. WorkIsDue'
    <2>1. RestoreDue'
        BY <1>3, <1>5 DEF RestoreDue, Act, box
    <2>2. SaveDue' /\ StartDue' /\ StopDue' /\ DeleteDue'
        BY <1>3, <1>5 DEF SaveDue, StartDue, StopDue, DeleteDue
    <2>3. QED BY <2>1, <2>2 DEF WorkIsDue, Due
<1>7. QED BY <1>5, <1>6 DEF OperationsInv

LEMMA LaunchKeeps ==
    ASSUME OperationsInv, LaunchVMProcess
    PROVE  OperationsInv'
<1>1. /\ op # NoOp /\ op \in [kind : Kinds, vm : Machines, snap : Snapshots]
      /\ at \in 1..Len(Program[op.kind]) /\ ~crashed
      /\ Program[op.kind][at] = "launch" /\ TakeOn("launch") /\ touched' = touched
    BY DEF OperationsInv, TypeOK, LaunchVMProcess, Here
<1>2. op.kind \in Kinds
    BY <1>1
<1>3. /\ op.kind = "restore" => at = 9
      /\ op.kind = "start" => at = 2
      /\ op.kind \in {"restore", "start"}
    BY <1>1, <1>2, Table DEF Kinds
<1>4. /\ TypeOK' /\ OneJobAtATime' /\ NullIsKnown'
      /\ op' = op /\ at' = at + 1 /\ failed' = failed /\ UNCHANGED box
      /\ job' \in works' /\ Doing("launch")'
    BY <1>1, TakeOnKeeps DEF OperationsInv, TypeOK
<1>5. WorkIsDue'
    <2>1. SUFFICES ASSUME ~failed, ~touched PROVE Due'
        BY <1>1, <1>4 DEF WorkIsDue
    <2>2. RestoreDue
        BY <1>1, <2>1 DEF OperationsInv, WorkIsDue, Due
    <2>3. RestoreDue'
        BY <1>3, <1>4, <2>2 DEF RestoreDue, box
    <2>4. SaveDue' /\ StartDue' /\ StopDue' /\ DeleteDue'
        BY <1>3, <1>4 DEF SaveDue, StartDue, StopDue, DeleteDue
    <2>5. QED BY <2>3, <2>4 DEF Due
<1>6. QED BY <1>4, <1>5 DEF OperationsInv

LEMMA FailsKeeps ==
    ASSUME OperationsInv, Fails
    PROVE  OperationsInv'
<1>1. /\ op # NoOp /\ op \in [kind : Kinds, vm : Machines, snap : Snapshots]
      /\ at \in 1..Len(Program[op.kind]) /\ ~crashed
      /\ Program[op.kind][at] \notin {"show", "wait"}
    BY DEF OperationsInv, TypeOK, Fails, Here
<1>2. at' \in 1..Len(Program[op.kind]) /\ Program[op.kind][at'] = "unlock"
    <2>1. at' \in at..Len(Program[op.kind]) /\ Program[op.kind][at'] = "unlock"
        BY <1>1, NextUnlockIsUnlock DEF Fails
    <2>2. Len(Program[op.kind]) \in Nat
        BY <1>1, Lengths
    <2>3. QED BY <1>1, <2>1, <2>2
<1>3. TypeOK'
    BY <1>1, <1>2 DEF OperationsInv, TypeOK, Fails, box
<1>4. OneJobAtATime'
    BY <1>1 DEF OperationsInv, OneJobAtATime, Fails
<1>5. NullIsKnown'
    BY <1>1, <1>2 DEF NullIsKnown, CrashesInTwoPlaces, Fails
<1>6. WorkIsDue'
    BY DEF WorkIsDue, Fails
<1>7. QED BY <1>3, <1>4, <1>5, <1>6 DEF OperationsInv

LEMMA FailsUnseenKeeps ==
    ASSUME OperationsInv, FailsUnseen
    PROVE  OperationsInv'
<1>1. /\ op # NoOp /\ op \in [kind : Kinds, vm : Machines, snap : Snapshots]
      /\ at \in 1..Len(Program[op.kind]) /\ ~crashed
      /\ Program[op.kind][at] = "act" /\ op.kind \in {"restore", "stop"}
    BY DEF OperationsInv, TypeOK, FailsUnseen, Here
<1>2. at + 1 \in 1..Len(Program[op.kind]) /\ (at + 1) - 1 = at
    BY <1>1, Follows
<1>3. TypeOK'
    BY <1>1, <1>2 DEF OperationsInv, TypeOK, FailsUnseen, box
<1>4. OneJobAtATime'
    BY <1>1 DEF OperationsInv, OneJobAtATime, FailsUnseen
<1>5. NullIsKnown'
    BY <1>1, <1>2 DEF NullIsKnown, CrashesInTwoPlaces, FailsUnseen
<1>6. WorkIsDue'
    BY DEF WorkIsDue, FailsUnseen
<1>7. QED BY <1>3, <1>4, <1>5, <1>6 DEF OperationsInv

LEMMA ShowProgressKeeps ==
    ASSUME OperationsInv, ShowProgress
    PROVE  OperationsInv'
<1>1. /\ op # NoOp /\ op \in [kind : Kinds, vm : Machines, snap : Snapshots]
      /\ at \in 1..Len(Program[op.kind]) /\ ~crashed
      /\ Program[op.kind][at] \in {"show", "wait"}
    BY DEF OperationsInv, TypeOK, ShowProgress, Here
<1>2. op.kind \in Kinds
    BY <1>1
<1>3. /\ at + 1 \in 1..Len(Program[op.kind])
      /\ Program[op.kind][at + 1] \in {"wait", "unlock"}
    BY <1>1, <1>2, Follows
<1>4. TypeOK'
    BY <1>1, <1>3 DEF OperationsInv, TypeOK, ShowProgress, Go, box
<1>5. OneJobAtATime'
    BY <1>1 DEF OperationsInv, OneJobAtATime, ShowProgress, Go
<1>6. NullIsKnown'
    BY <1>1, <1>3 DEF NullIsKnown, CrashesInTwoPlaces, ShowProgress, Go
<1>7. WorkIsDue'
    <2>1. /\ op' = op /\ at' = at + 1 /\ job \notin works
          /\ UNCHANGED <<job, works, running, content, booted, snaps, failed, touched>>
        BY DEF ShowProgress, Go, box
    <2>2. /\ op.kind = "restore" => at \in {6, 10, 11}
          /\ op.kind \in {"save", "stop"} => at = 5
          /\ op.kind = "start" => at \in {3, 4}
          /\ op.kind = "delete" => at = 7
        BY <1>1, <1>2, Table
    <2>3. SUFFICES ASSUME ~failed, ~touched PROVE Due'
        BY <2>1 DEF WorkIsDue
    <2>4. Due
        BY <1>1, <2>3 DEF OperationsInv, WorkIsDue
    <2>5. RestoreDue'
        BY <2>1, <2>2, <2>4 DEF Due, RestoreDue, Doing, Busy
    <2>6. SaveDue' /\ StartDue'
        BY <2>1, <2>2, <2>4 DEF Due, SaveDue, StartDue, Doing, Busy
    <2>7. StopDue' /\ DeleteDue'
        BY <2>1, <2>2, <2>4 DEF Due, StopDue, DeleteDue, Doing, Busy
    <2>8. QED BY <2>5, <2>6, <2>7 DEF Due
<1>8. QED BY <1>4, <1>5, <1>6, <1>7 DEF OperationsInv

LEMMA ProgressLostKeeps ==
    ASSUME OperationsInv, ProgressLost
    PROVE  OperationsInv'
<1>1. /\ op # NoOp /\ op \in [kind : Kinds, vm : Machines, snap : Snapshots]
      /\ at \in 1..Len(Program[op.kind]) /\ ~crashed
      /\ Program[op.kind][at] \in {"show", "wait"}
    BY DEF OperationsInv, TypeOK, ProgressLost, Here
<1>2. /\ at + 1 \in 1..Len(Program[op.kind])
      /\ Program[op.kind][at + 1] \in {"wait", "unlock"}
    BY <1>1, Follows
<1>3. TypeOK'
    BY <1>1, <1>2 DEF OperationsInv, TypeOK, ProgressLost, box
<1>4. OneJobAtATime'
    BY DEF OneJobAtATime, ProgressLost
<1>5. NullIsKnown'
    BY <1>1, <1>2 DEF NullIsKnown, CrashesInTwoPlaces, ProgressLost
<1>6. WorkIsDue'
    BY DEF WorkIsDue, ProgressLost
<1>7. QED BY <1>3, <1>4, <1>5, <1>6 DEF OperationsInv

LEMMA NullProgressKeeps ==
    ASSUME OperationsInv, NullProgress
    PROVE  OperationsInv'
<1>1. op # NoOp /\ ~crashed /\ Program[op.kind][at] = "show" /\ job = NoJob
    BY DEF NullProgress, Here
<1>2. TypeOK'
    BY DEF OperationsInv, TypeOK, NullProgress, box
<1>3. OneJobAtATime'
    BY <1>1 DEF OperationsInv, OneJobAtATime, NullProgress
<1>4. NullIsKnown'
    BY <1>1 DEF OperationsInv, NullIsKnown, CrashesInTwoPlaces, NullProgress
<1>5. WorkIsDue'
    BY DEF OperationsInv, WorkIsDue, Due, RestoreDue, SaveDue, StartDue, StopDue, DeleteDue, Doing, Busy,
           NullProgress, box
<1>6. QED BY <1>2, <1>3, <1>4, <1>5 DEF OperationsInv

LEMMA UnlockKeeps ==
    ASSUME OperationsInv, UnlockMachine
    PROVE  OperationsInv'
<1>1. /\ op # NoOp /\ op \in [kind : Kinds, vm : Machines, snap : Snapshots]
      /\ at \in 1..Len(Program[op.kind]) /\ ~crashed
      /\ Program[op.kind][at] = "unlock"
    BY DEF OperationsInv, TypeOK, UnlockMachine, Here
<1>2. op.kind \in Kinds
    BY <1>1
<1>3. session' = NoMachine /\ job' = NoJob
      /\ UNCHANGED <<failed, blinded, crashed, ops, works, touched, running, content, booted, snaps>>
    BY DEF UnlockMachine, box
<1>4. CASE at = Len(Program[op.kind])
    <2>1. op' = NoOp /\ at' = 1
        BY <1>4 DEF UnlockMachine
    <2>2. TypeOK'
        BY <1>3, <2>1 DEF OperationsInv, TypeOK
    <2>3. OneJobAtATime'
        BY <1>1, <1>3, <2>1 DEF OperationsInv, OneJobAtATime
    <2>4. NullIsKnown'
        BY <1>1, <1>3, <2>1 DEF NullIsKnown, CrashesInTwoPlaces
    <2>5. WorkIsDue'
        BY <2>1 DEF WorkIsDue
    <2>6. QED BY <2>2, <2>3, <2>4, <2>5 DEF OperationsInv
<1>5. CASE at # Len(Program[op.kind])
    <2>1. op' = op /\ at' = at + 1
        BY <1>5 DEF UnlockMachine
    <2>2. at + 1 \in 1..Len(Program[op.kind]) /\ Program[op.kind][at + 1] = "find"
        BY <1>1, <1>2, <1>5, Follows
    <2>3. TypeOK'
        BY <1>1, <1>3, <2>1, <2>2 DEF OperationsInv, TypeOK
    <2>4. OneJobAtATime'
        BY <1>1, <1>3, <2>1 DEF OperationsInv, OneJobAtATime
    <2>5. NullIsKnown'
        BY <1>1, <1>3, <2>1, <2>2 DEF NullIsKnown, CrashesInTwoPlaces
    <2>6. WorkIsDue'
        <3>1. op.kind = "restore" /\ at = 7
            BY <1>1, <1>2, <1>5, Table, Lengths DEF Kinds
        <3>2. SUFFICES ASSUME ~failed, ~touched PROVE Due'
            BY <1>3 DEF WorkIsDue
        <3>3. RestoreDue
            BY <1>1, <3>2 DEF OperationsInv, WorkIsDue, Due
        <3>4. RestoreDue'
            BY <1>3, <2>1, <3>1, <3>3 DEF RestoreDue, Busy
        <3>5. QED BY <2>1, <3>1, <3>4 DEF Due, SaveDue, StartDue, StopDue, DeleteDue
    <2>7. QED BY <2>3, <2>4, <2>5, <2>6 DEF OperationsInv
<1>6. QED BY <1>4, <1>5

LEMMA WorkDoneKeeps ==
    ASSUME OperationsInv, NEW w \in works, WorkDone(w)
    PROVE  OperationsInv'
<1>1. w \in Job /\ w.vm \in Machines /\ w.snap \in Snapshots
    BY DEF OperationsInv, TypeOK, Job
<1>2. /\ works' = works \ {w}
      /\ UNCHANGED <<op, at, job, failed, blinded, crashed, ops, touched>>
    BY DEF WorkDone, control
<1>3. session' \in {session, w.vm}
    BY DEF WorkDone
<1>4. TypeOK'
    <2>1. running' \in SUBSET Machines
        BY <1>1 DEF OperationsInv, TypeOK, WorkDone
    <2>2. content' \in [Machines -> Snapshots \cup {Live}]
        BY <1>1 DEF OperationsInv, TypeOK, WorkDone
    <2>3. booted' \in [Machines -> Snapshots \cup {Live}]
        BY <1>1 DEF OperationsInv, TypeOK, WorkDone
    <2>4. snaps' \in [Machines -> SUBSET Snapshots]
        BY <1>1 DEF OperationsInv, TypeOK, WorkDone
    <2>5. QED BY <1>1, <1>2, <1>3, <2>1, <2>2, <2>3, <2>4 DEF OperationsInv, TypeOK
<1>5. OneJobAtATime'
    BY <1>2 DEF OperationsInv, OneJobAtATime
<1>6. NullIsKnown'
    BY <1>2 DEF OperationsInv, NullIsKnown, CrashesInTwoPlaces
<1>7. WorkIsDue'
    <2>1. SUFFICES ASSUME op # NoOp, ~failed, ~touched PROVE Due'
        BY <1>2 DEF WorkIsDue
    <2>2. Due /\ op.vm \in Machines
        BY <2>1 DEF OperationsInv, WorkIsDue, TypeOK
    <2>3. CASE w.vm # op.vm
        <3>1. /\ op.vm \in running' <=> op.vm \in running
              /\ content'[op.vm] = content[op.vm] /\ booted'[op.vm] = booted[op.vm]
              /\ snaps'[op.vm] = snaps[op.vm]
            BY <2>2, <2>3 DEF WorkDone, OperationsInv, TypeOK
        <3>2. \A what : Doing(what) => Doing(what)' /\ (job' \in works' <=> job \in works)
            BY <1>2, <2>3 DEF Doing
        <3>3. ~Busy(op.vm) => ~Busy(op.vm)'
            BY <1>2 DEF Busy
        <3>4. QED BY <1>2, <2>2, <3>1, <3>2, <3>3
                  DEF Due, RestoreDue, SaveDue, StartDue, StopDue, DeleteDue
    <2>4. CASE w.vm = op.vm
        <3>1. Busy(op.vm)
            BY <2>4 DEF Busy
        <3>2. \A what : Doing(what) => /\ w = job /\ w.what = what /\ w.snap = op.snap
                                       /\ Doing(what)' /\ job' \notin works' /\ ~Busy(op.vm)'
            BY <1>2, <2>4 DEF Doing, Busy
        <3>3. RestoreDue'
            <4>1. CASE at = 6 /\ op.kind = "restore"
                <5>1. /\ w.what = "restore" /\ w.snap = op.snap /\ op.vm \notin running
                      /\ Doing("restore")'
                    BY <2>2, <3>2, <4>1 DEF Due, RestoreDue
                <5>2. running' = running /\ content'[op.vm] = op.snap
                    BY <2>2, <2>4, <5>1 DEF WorkDone, OperationsInv, TypeOK
                <5>3. QED BY <1>2, <4>1, <5>1, <5>2 DEF RestoreDue
            <4>2. CASE at = 10 /\ op.kind = "restore"
                <5>1. /\ w.what = "launch" /\ w = job /\ job' \notin works' /\ Doing("launch")'
                      /\ content[op.vm] = op.snap
                    BY <2>2, <3>2, <4>2 DEF Due, RestoreDue
                <5>2. op.vm \in running' /\ booted'[op.vm] = op.snap
                    BY <2>2, <2>4, <5>1 DEF WorkDone, OperationsInv, TypeOK
                <5>3. QED BY <1>2, <4>2, <5>1, <5>2 DEF RestoreDue
            <4>3. CASE op.kind = "restore" /\ at \notin {6, 10}
                BY <1>2, <2>2, <3>1, <4>3 DEF Due, RestoreDue
            <4>4. QED BY <1>2, <4>1, <4>2, <4>3 DEF RestoreDue
        <3>4. SaveDue'
            <4>1. CASE op.kind = "save" /\ at = 5
                <5>1. w.what = "save" /\ w.snap = op.snap /\ Doing("save")'
                    BY <2>2, <3>2, <4>1 DEF Due, SaveDue
                <5>2. op.snap \in snaps'[op.vm]
                    BY <2>2, <2>4, <5>1 DEF WorkDone, OperationsInv, TypeOK
                <5>3. QED BY <1>2, <4>1, <5>1, <5>2 DEF SaveDue
            <4>2. QED BY <1>2, <2>2, <3>1, <4>1 DEF Due, SaveDue
        <3>5. StartDue'
            <4>1. CASE op.kind = "start" /\ at = 3
                <5>1. w.what = "launch" /\ Doing("launch")'
                    BY <2>2, <3>2, <4>1 DEF Due, StartDue
                <5>2. op.vm \in running'
                    BY <2>2, <2>4, <5>1 DEF WorkDone
                <5>3. QED BY <1>2, <4>1, <5>1, <5>2 DEF StartDue
            <4>2. QED BY <1>2, <2>2, <3>1, <4>1 DEF Due, StartDue
        <3>6. StopDue'
            <4>1. CASE op.kind = "stop" /\ at = 5
                <5>1. w.what = "stop" /\ Doing("stop")'
                    BY <2>2, <3>2, <4>1 DEF Due, StopDue
                <5>2. op.vm \notin running'
                    BY <2>2, <2>4, <5>1 DEF WorkDone
                <5>3. QED BY <1>2, <4>1, <5>1, <5>2 DEF StopDue
            <4>2. QED BY <1>2, <2>2, <3>1, <4>1 DEF Due, StopDue
        <3>7. DeleteDue'
            <4>1. CASE op.kind = "delete" /\ at = 7
                <5>1. w.what = "delete" /\ w.snap = op.snap /\ Doing("delete")'
                    BY <2>2, <3>2, <4>1 DEF Due, DeleteDue
                <5>2. op.snap \notin snaps'[op.vm]
                    BY <2>2, <2>4, <5>1 DEF WorkDone, OperationsInv, TypeOK
                <5>3. QED BY <1>2, <4>1, <5>1, <5>2 DEF DeleteDue
            <4>2. QED BY <1>2, <2>2, <3>1, <4>1 DEF Due, DeleteDue
        <3>8. QED BY <3>3, <3>4, <3>5, <3>6, <3>7 DEF Due
    <2>5. QED BY <2>3, <2>4
<1>8. QED BY <1>4, <1>5, <1>6, <1>7 DEF OperationsInv

LEMMA WorkFailsKeeps ==
    ASSUME OperationsInv, NEW w \in works, WorkFails(w)
    PROVE  OperationsInv'
<1>1. /\ works' = works \ {w} /\ failed' = (failed \/ w = job)
      /\ UNCHANGED <<op, at, job, blinded, crashed, ops, session, touched, running, content, booted, snaps>>
    BY DEF WorkFails, box
<1>2. failed' \in BOOLEAN
    BY <1>1 DEF OperationsInv, TypeOK
<1>3. TypeOK'
    BY <1>1, <1>2 DEF OperationsInv, TypeOK
<1>4. OneJobAtATime'
    BY <1>1 DEF OperationsInv, OneJobAtATime
<1>5. NullIsKnown'
    BY <1>1 DEF OperationsInv, NullIsKnown, CrashesInTwoPlaces
<1>6. WorkIsDue'
    <2>1. SUFFICES ASSUME op # NoOp, ~failed, w # job, ~touched PROVE Due'
        BY <1>1 DEF WorkIsDue
    <2>2. Due
        BY <2>1 DEF OperationsInv, WorkIsDue
    <2>3. \A what : Doing(what) => Doing(what)' /\ (job' \in works' <=> job \in works)
        BY <1>1, <2>1 DEF Doing
    <2>4. ~Busy(op.vm) => ~Busy(op.vm)'
        BY <1>1 DEF Busy
    <2>5. QED BY <1>1, <2>2, <2>3, <2>4
              DEF Due, RestoreDue, SaveDue, StartDue, StopDue, DeleteDue
<1>7. QED BY <1>3, <1>4, <1>5, <1>6 DEF OperationsInv

LEMMA TouchKeeps ==
    ASSUME OperationsInv, NEW m \in Machines, Touch(m)
    PROVE  OperationsInv'
<1>1. /\ UNCHANGED <<op, at, job, failed, blinded, crashed, ops, session, works, booted>>
      /\ touched' = (touched \/ (op # NoOp /\ m = op.vm))
    BY DEF Touch, control
<1>2. /\ running' \in {running, running \ {m}, running \cup {m}}
      /\ content' \in {content, [content EXCEPT ![m] = Live]}
                      \cup {[content EXCEPT ![m] = s] : s \in snaps[m]}
      /\ snaps' \in {snaps} \cup {[snaps EXCEPT ![m] = @ \ {s}] : s \in snaps[m]}
    BY DEF Touch
<1>3. TypeOK'
    <2>1. running' \in SUBSET Machines
        BY <1>2 DEF OperationsInv, TypeOK
    <2>2. content' \in [Machines -> Snapshots \cup {Live}]
        BY <1>2 DEF OperationsInv, TypeOK
    <2>3. snaps' \in [Machines -> SUBSET Snapshots]
        BY <1>2 DEF OperationsInv, TypeOK
    <2>4. touched' \in BOOLEAN
        BY <1>1 DEF OperationsInv, TypeOK
    <2>5. QED BY <1>1, <2>1, <2>2, <2>3, <2>4 DEF OperationsInv, TypeOK
<1>4. OneJobAtATime'
    BY <1>1 DEF OperationsInv, OneJobAtATime
<1>5. NullIsKnown'
    BY <1>1 DEF OperationsInv, NullIsKnown, CrashesInTwoPlaces
<1>6. WorkIsDue'
    <2>1. SUFFICES ASSUME op # NoOp, ~failed, ~touched, m # op.vm PROVE Due'
        BY <1>1 DEF WorkIsDue
    <2>2. Due /\ op.vm \in Machines
        BY <2>1 DEF OperationsInv, WorkIsDue, TypeOK
    <2>3. /\ op.vm \in running' <=> op.vm \in running
          /\ content'[op.vm] = content[op.vm]
          /\ snaps'[op.vm] = snaps[op.vm]
        BY <1>2, <2>1, <2>2 DEF OperationsInv, TypeOK
    <2>4. \A what : Doing(what)' <=> Doing(what)
        BY <1>1 DEF Doing
    <2>5. Busy(op.vm)' <=> Busy(op.vm)
        BY <1>1 DEF Busy
    <2>6. QED BY <1>1, <2>2, <2>3, <2>4, <2>5
              DEF Due, RestoreDue, SaveDue, StartDue, StopDue, DeleteDue
<1>7. QED BY <1>3, <1>4, <1>5, <1>6 DEF OperationsInv

-----------------------------------------------------------------------------
(* The invariant holds in every state of every behaviour.                  *)
THEOREM OperationsInvariant == Spec => []OperationsInv
<1>1. Init => OperationsInv
    <2>1. SUFFICES ASSUME Init PROVE OperationsInv
        OBVIOUS
    <2>2. TypeOK
        <3>1. content \in [Machines -> Snapshots \cup {Live}] /\ booted = content
            BY <2>1 DEF Init
        <3>2. ops \in 0..MaxOps
            BY <2>1, OperationsAssumption DEF Init
        <3>3. QED BY <2>1, <3>1, <3>2 DEF Init, TypeOK
    <2>3. QED BY <2>1, <2>2 DEF Init, OperationsInv, OneJobAtATime, NullIsKnown, CrashesInTwoPlaces, WorkIsDue
<1>2. OperationsInv /\ [Next]_vars => OperationsInv'
    <2>1. SUFFICES ASSUME OperationsInv, [Next]_vars PROVE OperationsInv'
        OBVIOUS
    <2>2. CASE \E kind \in Kinds, m \in Machines, s \in Snapshots : Begin(kind, m, s)
        BY <2>1, <2>2, BeginKeeps
    <2>3. CASE Call
        BY <2>1, <2>3, LookKeeps, LockKeeps, ActKeeps, LaunchKeeps, FailsKeeps, FailsUnseenKeeps DEF Call
    <2>4. CASE Proceed \/ ProgressLost
        BY <2>1, <2>4, ShowProgressKeeps, NullProgressKeeps, UnlockKeeps, ProgressLostKeeps DEF Proceed
    <2>5. CASE \E w \in works : WorkDone(w) \/ WorkFails(w)
        BY <2>1, <2>5, WorkDoneKeeps, WorkFailsKeeps
    <2>6. CASE \E m \in Machines : Touch(m)
        BY <2>1, <2>6, TouchKeeps
    <2>7. CASE UNCHANGED vars
        BY <2>1, <2>7 DEF vars, control, box, OperationsInv, TypeOK, OneJobAtATime, NullIsKnown, CrashesInTwoPlaces,
           WorkIsDue, Due, RestoreDue, SaveDue, StartDue, StopDue, DeleteDue, Doing, Busy
    <2>8. QED BY <2>1, <2>2, <2>3, <2>4, <2>5, <2>6, <2>7 DEF Next
<1>3. QED BY <1>1, <1>2, PTL DEF Spec

(* The operations keep to the types of their state.                        *)
THEOREM OperationsTypeCorrect == Spec => []TypeOK
<1>1. OperationsInv => TypeOK
    BY DEF OperationsInv
<1>2. QED BY <1>1, OperationsInvariant, PTL

(* However the calls of an operation fail, and whatever others do to the   *)
(* machines, the session is free and VirtualBox is at rest when it has     *)
(* ended, unless show_progress gave up on a progress object at some time.  *)
THEOREM NothingIsLeftBehind == Spec => []CleanBetweenOperations
<1>1. OperationsInv => CleanBetweenOperations
    BY DEF OperationsInv, OneJobAtATime, CleanBetweenOperations
<1>2. QED BY <1>1, OperationsInvariant, PTL

(* The null progress object is used by restore_vm after RestoreSnapshot    *)
(* and by stop_vm after PowerDown, and nowhere else.                       *)
THEOREM NullIsUsedInTwoPlaces == Spec => []CrashesInTwoPlaces
<1>1. OperationsInv => CrashesInTwoPlaces
    BY DEF OperationsInv, NullIsKnown
<1>2. QED BY <1>1, OperationsInvariant, PTL

(* An operation that nothing disturbed has done what it is for, the        *)
(* restored machine running from the snapshot that was asked for.          *)
THEOREM SuccessIsNotClaimedInVain == Spec => []SuccessIsReal
<1>1. OperationsInv => SuccessIsReal
    <2>1. SUFFICES ASSUME OperationsInv, op # NoOp, at = Len(Program[op.kind]), ~failed, ~touched PROVE Achieved
        BY DEF SuccessIsReal
    <2>2. op.kind \in Kinds /\ Due
        BY <2>1 DEF OperationsInv, TypeOK, WorkIsDue
    <2>3. CASE op.kind = "restore"
        <3>1. at = 12
            BY <2>1, <2>2, <2>3, Lengths
        <3>2. QED BY <2>2, <2>3, <3>1 DEF Due, RestoreDue, Achieved
    <2>4. CASE op.kind = "save"
        BY <2>1, <2>2, <2>4, Lengths DEF Due, SaveDue, Achieved
    <2>5. CASE op.kind = "start"
        BY <2>1, <2>2, <2>5, Lengths DEF Due, StartDue, Achieved
    <2>6. CASE op.kind = "stop"
        BY <2>1, <2>2, <2>6, Lengths DEF Due, StopDue, Achieved
    <2>7. CASE op.kind = "delete"
        BY <2>1, <2>2, <2>7, Lengths DEF Due, DeleteDue, Achieved
    <2>8. QED BY <2>2, <2>3, <2>4, <2>5, <2>6, <2>7 DEF Kinds
<1>2. QED BY <1>1, OperationsInvariant, PTL

(***************************************************************************)
(* The feed.  The queue and what is stored together hold each poll in one  *)
(* piece: in front of a broadcast stand the three lists of its poll, those *)
(* that are not in the queue any more being stored already.                *)
(***************************************************************************)

(* The task d places in front of place k stores field f of lists, or has   *)
(* done so already.                                                        *)
Precedes(k, d, f, lists) ==
    IF k - d >= 1 THEN queue[k - d] = [store |-> f, value |-> lists[f]]
                  ELSE stored[f] = lists[f]

(* In front of every broadcast are the lists it is meant to send ...       *)
BroadcastsAreWhole ==
    \A k \in DOMAIN queue : IsBroadcast(queue[k]) =>
        /\ Precedes(k, 1, "snaps", queue[k].poll)
        /\ Precedes(k, 2, "running", queue[k].poll)
        /\ Precedes(k, 3, "list", queue[k].poll)

(* ... and, while a poll is being posted, at the end of the queue those of *)
(* its lists that have been posted.                                        *)
PostsAreWhole ==
    LET end == Len(queue) + 1 IN
    /\ pc = "post_running" => Precedes(end, 1, "list", polled)
    /\ pc = "post_snaps" => Precedes(end, 1, "running", polled) /\ Precedes(end, 2, "list", polled)
    /\ pc = "post_broadcast" => /\ Precedes(end, 1, "snaps", polled)
                                /\ Precedes(end, 2, "running", polled)
                                /\ Precedes(end, 3, "list", polled)

Posting == pc \in {"post_running", "post_snaps", "post_broadcast"}

(* A poll that is posted ends with its broadcast.                          *)
BroadcastComesLast == ~Posting /\ queue # << >> => IsBroadcast(queue[Len(queue)])

(* Whoever has been sent something else than what is stored will be sent   *)
(* something by a broadcast.                                               *)
MixturesAreMended ==
    (\E i \in 1..joined : LengthsAgree(stored) /\ told[i] # stored) => Posting \/ queue # << >>

FeedInv ==
    /\ FeedTypeOK
    /\ BroadcastsAreWhole
    /\ PostsAreWhole
    /\ BroadcastComesLast
    /\ MixturesAreMended

-----------------------------------------------------------------------------
(* What a list is.                                                         *)

LEMMA Vectors ==
    /\ Empty \in Vector
    /\ \A version \in NotFound..MaxChanges, len \in 0..MaxVMs : Read(version, len) \in Vector
BY VMStatusFeedAssumption DEF Empty, Read, Vector, NotFound

LEMMA FieldOfLists ==
    ASSUME NEW lists \in Lists, NEW f \in {"list", "running", "snaps"}, NEW v \in Vector
    PROVE  [lists EXCEPT ![f] = v] \in Lists
BY DEF Lists

(* A task is a broadcast of some lists or a store of a vector.             *)
LEMMA Tasks ==
    /\ \A lists \in Lists : [poll |-> lists] \in Task /\ IsBroadcast([poll |-> lists])
    /\ \A f \in {"list", "running", "snaps"}, v \in Vector :
          [store |-> f, value |-> v] \in Task /\ ~IsBroadcast([store |-> f, value |-> v])
    /\ \A t \in Task : /\ IsBroadcast(t) => t.poll \in Lists
                       /\ ~IsBroadcast(t) => t.store \in {"list", "running", "snaps"} /\ t.value \in Vector
BY DEF Task, IsBroadcast

-----------------------------------------------------------------------------
LEMMA FeedInvInit == FeedInit => FeedInv
<1> SUFFICES ASSUME FeedInit PROVE FeedInv
    OBVIOUS
<1>1. FeedTypeOK
    <2>1. NoLists \in Lists
        BY Vectors DEF NoLists, Lists
    <2>2. registry \in [at : 0..MaxChanges, len : 0..MaxVMs] /\ 0 \in 0..MaxSessions
        BY VMStatusFeedAssumption DEF FeedInit
    <2>3. QED BY <2>1, <2>2, VMStatusFeedAssumption DEF FeedInit, FeedTypeOK
<1>2. QED
    BY <1>1 DEF FeedInit, FeedInv, BroadcastsAreWhole, PostsAreWhole, BroadcastComesLast, MixturesAreMended

(* A question to VirtualBox changes what the thread holds, which is not    *)
(* looked at before it is posted.                                          *)
LEMMA AnswerKeeps ==
    ASSUME FeedInv, NEW field \in {"list", "running", "snaps"}, NEW right \in Vector, NEW otherwise \in Vector,
           NEW next \in {"get_running", "get_snaps", "post_list"}, ~Posting, Answer(field, right, otherwise, next)
    PROVE  FeedInv'
<1>1. UNCHANGED <<registry, queue, stored, joined, told>> /\ pc' = next
    BY DEF Answer
<1>2. polled' \in Lists /\ changes' \in 0..MaxChanges
    BY FieldOfLists, VMStatusFeedAssumption DEF Answer, FeedInv, FeedTypeOK
<1>3. FeedTypeOK'
    BY <1>1, <1>2 DEF FeedInv, FeedTypeOK
<1>4. BroadcastsAreWhole' /\ PostsAreWhole' /\ BroadcastComesLast' /\ MixturesAreMended'
    BY <1>1 DEF FeedInv, BroadcastsAreWhole, PostsAreWhole, BroadcastComesLast, MixturesAreMended, Precedes,
                Posting, LengthsAgree
<1>5. QED BY <1>3, <1>4 DEF FeedInv

(* What a post leaves as it was.                                           *)
LEMMA PostKeeps ==
    ASSUME FeedInv, NEW task \in Task, NEW next, Post(task, next),
           next \in {"get_list", "post_running", "post_snaps", "post_broadcast"}
    PROVE  /\ FeedTypeOK'
           /\ Len(queue') = Len(queue) + 1 /\ Len(queue) \in Nat
           /\ queue'[Len(queue) + 1] = task
           /\ \A k \in 1..Len(queue) : queue'[k] = queue[k]
           /\ MixturesAreMended'
<1>1. queue \in Seq(Task) /\ queue' = Append(queue, task)
    BY DEF FeedInv, FeedTypeOK, Post
<1>2. /\ Len(queue') = Len(queue) + 1 /\ Len(queue) \in Nat
      /\ queue'[Len(queue) + 1] = task
      /\ \A k \in 1..Len(queue) : queue'[k] = queue[k]
      /\ queue' \in Seq(Task) /\ queue' # << >>
    BY <1>1
<1>3. QED
    BY <1>2 DEF Post, FeedInv, FeedTypeOK, MixturesAreMended

(* A store is posted: it is at the end of the queue.                       *)
LEMMA PostStoreKeeps ==
    ASSUME FeedInv, NEW f \in {"list", "running", "snaps"}, NEW next \in {"post_running", "post_snaps", "post_broadcast"},
           Post([store |-> f, value |-> polled[f]], next),
           \/ pc = "post_list" /\ f = "list" /\ next = "post_running"
           \/ pc = "post_running" /\ f = "running" /\ next = "post_snaps"
           \/ pc = "post_snaps" /\ f = "snaps" /\ next = "post_broadcast"
    PROVE  FeedInv'
<1> DEFINE task == [store |-> f, value |-> polled[f]]
<1>1. Post(task, next)
    OBVIOUS
<1>2. task \in Task /\ ~IsBroadcast(task)
    <2>1. polled[f] \in Vector
        BY DEF FeedInv, FeedTypeOK, Lists
    <2>2. QED BY <2>1, Tasks
<1>3. /\ FeedTypeOK' /\ MixturesAreMended'
      /\ Len(queue') = Len(queue) + 1 /\ Len(queue) \in Nat
      /\ queue'[Len(queue) + 1] = task
      /\ \A k \in 1..Len(queue) : queue'[k] = queue[k]
    BY <1>1, <1>2, PostKeeps
<1>4. /\ pc' = next /\ polled' = polled /\ stored' = stored
      /\ DOMAIN queue = 1..Len(queue) /\ DOMAIN queue' = 1..(Len(queue) + 1)
    <2>1. queue \in Seq(Task) /\ queue' \in Seq(Task)
        BY <1>3 DEF FeedInv, FeedTypeOK
    <2>2. QED BY <2>1, <1>1, <1>3 DEF Post
<1> HIDE DEF task
<1>5. BroadcastsAreWhole'
    <2> SUFFICES ASSUME NEW k \in 1..(Len(queue) + 1), IsBroadcast(queue'[k])
                 PROVE  /\ Precedes(k, 1, "snaps", queue[k].poll)'
                        /\ Precedes(k, 2, "running", queue[k].poll)'
                        /\ Precedes(k, 3, "list", queue[k].poll)'
        BY <1>4 DEF BroadcastsAreWhole
    <2>1. k \in 1..Len(queue) /\ queue'[k] = queue[k]
        BY <1>2, <1>3
    <2>2. ASSUME NEW d \in 1..3, NEW f2, Precedes(k, d, f2, queue[k].poll)
          PROVE  Precedes(k, d, f2, queue[k].poll)'
        <3>1. CASE k - d >= 1
            <4>1. k - d \in 1..Len(queue) /\ queue'[k - d] = queue[k - d]
                BY <3>1, <2>1, <1>3
            <4>2. QED BY <4>1, <3>1, <2>1, <2>2 DEF Precedes
        <3>2. CASE ~(k - d >= 1)
            BY <3>2, <2>1, <2>2, <1>4 DEF Precedes
        <3>3. QED BY <3>1, <3>2
    <2>3. k \in DOMAIN queue /\ IsBroadcast(queue[k])
        BY <2>1, <1>4
    <2>4. QED BY <2>2, <2>3 DEF FeedInv, BroadcastsAreWhole
<1>6. PostsAreWhole'
    BY <1>1, <1>3, <1>4 DEF FeedInv, PostsAreWhole, Precedes, task
<1>7. BroadcastComesLast'
    BY <1>4 DEF BroadcastComesLast, Posting
<1>8. QED BY <1>3, <1>5, <1>6, <1>7 DEF FeedInv

(* The broadcast is posted behind the lists of its poll.                   *)
LEMMA PostBroadcastKeeps == FeedInv /\ PostBroadcast => FeedInv'
<1> SUFFICES ASSUME FeedInv, PostBroadcast PROVE FeedInv'
    OBVIOUS
<1> DEFINE task == [poll |-> polled]
<1>1. task \in Task /\ IsBroadcast(task) /\ task.poll = polled
    BY Tasks DEF FeedInv, FeedTypeOK
<1>2. Post(task, "get_list") /\ pc = "post_broadcast"
    BY DEF PostBroadcast
<1>3. /\ FeedTypeOK' /\ MixturesAreMended'
      /\ Len(queue') = Len(queue) + 1 /\ Len(queue) \in Nat
      /\ queue'[Len(queue) + 1] = task
      /\ \A k \in 1..Len(queue) : queue'[k] = queue[k]
    BY <1>1, <1>2, PostKeeps
<1>4. /\ pc' = "get_list" /\ polled' = polled /\ stored' = stored
      /\ DOMAIN queue = 1..Len(queue) /\ DOMAIN queue' = 1..(Len(queue) + 1)
    <2>1. queue \in Seq(Task) /\ queue' \in Seq(Task)
        BY <1>3 DEF FeedInv, FeedTypeOK
    <2>2. QED BY <2>1, <1>2, <1>3 DEF Post
<1> HIDE DEF task
<1>5. BroadcastsAreWhole'
    <2> SUFFICES ASSUME NEW k \in 1..(Len(queue) + 1), IsBroadcast(queue'[k])
                 PROVE  /\ Precedes(k, 1, "snaps", queue[k].poll)'
                        /\ Precedes(k, 2, "running", queue[k].poll)'
                        /\ Precedes(k, 3, "list", queue[k].poll)'
        BY <1>4 DEF BroadcastsAreWhole
    <2>1. CASE k = Len(queue) + 1
        BY <2>1, <1>1, <1>2, <1>3, <1>4 DEF FeedInv, PostsAreWhole, Precedes
    <2>2. CASE k \in 1..Len(queue)
        BY <2>2, <1>3, <1>4 DEF FeedInv, BroadcastsAreWhole, Precedes
    <2>3. QED BY <2>1, <2>2, <1>3
<1>6. PostsAreWhole' /\ BroadcastComesLast'
    BY <1>1, <1>3, <1>4 DEF PostsAreWhole, BroadcastComesLast
<1>7. QED BY <1>3, <1>5, <1>6 DEF FeedInv

(* The queue after its head has run.                                       *)
LEMMA HeadRuns ==
    ASSUME queue \in Seq(Task), queue # << >>, queue' = Tail(queue)
    PROVE  /\ queue' \in Seq(Task)
           /\ Head(queue) = queue[1] /\ queue[1] \in Task
           /\ Len(queue) \in Nat /\ Len(queue) >= 1 /\ Len(queue') = Len(queue) - 1
           /\ DOMAIN queue = 1..Len(queue) /\ DOMAIN queue' = 1..(Len(queue) - 1)
           /\ \A k \in 1..(Len(queue) - 1) : queue'[k] = queue[k + 1]
OBVIOUS

(* A store runs: what stood in the queue is stored.                        *)
LEMMA RunStoreKeeps == FeedInv /\ RunStore => FeedInv'
<1> SUFFICES ASSUME FeedInv, RunStore PROVE FeedInv'
    OBVIOUS
<1>1. /\ queue' \in Seq(Task)
      /\ Head(queue) = queue[1] /\ queue[1] \in Task
      /\ Len(queue) \in Nat /\ Len(queue) >= 1 /\ Len(queue') = Len(queue) - 1
      /\ DOMAIN queue = 1..Len(queue) /\ DOMAIN queue' = 1..(Len(queue) - 1)
      /\ \A k \in 1..(Len(queue) - 1) : queue'[k] = queue[k + 1]
    BY HeadRuns DEF FeedInv, FeedTypeOK, RunStore
<1>2. PICK f \in {"list", "running", "snaps"}, v \in Vector : queue[1] = [store |-> f, value |-> v]
    BY <1>1 DEF RunStore, Task, IsBroadcast
<1>3. /\ stored' = [stored EXCEPT ![f] = v]
      /\ UNCHANGED <<changes, registry, pc, polled, joined, told>>
      /\ ~IsBroadcast(queue[1])
    <2>1. queue[1].store = f /\ queue[1].value = v
        BY <1>2
    <2>2. QED BY <1>1, <2>1 DEF RunStore, thread
<1>4. FeedTypeOK'
    BY <1>1, <1>2, <1>3, FieldOfLists DEF FeedInv, FeedTypeOK
<1>5. /\ stored'[f] = v
      /\ \A g \in {"list", "running", "snaps"} : g # f => stored'[g] = stored[g]
    BY <1>2, <1>3 DEF FeedInv, FeedTypeOK, Lists
(* What precedes a place still does: one place to the left.                *)
<1>6. ASSUME NEW lists, NEW k \in 1..Len(queue),
             Precedes(k + 1, 1, "snaps", lists), Precedes(k + 1, 2, "running", lists), Precedes(k + 1, 3, "list", lists)
      PROVE  /\ IF k - 1 >= 1 THEN queue'[k - 1] = [store |-> "snaps", value |-> lists["snaps"]]
                              ELSE stored'["snaps"] = lists["snaps"]
             /\ IF k - 2 >= 1 THEN queue'[k - 2] = [store |-> "running", value |-> lists["running"]]
                              ELSE stored'["running"] = lists["running"]
             /\ IF k - 3 >= 1 THEN queue'[k - 3] = [store |-> "list", value |-> lists["list"]]
                              ELSE stored'["list"] = lists["list"]
    <2>1. CASE k >= 4
        <3>1. queue'[k - 1] = queue[k] /\ queue'[k - 2] = queue[k - 1] /\ queue'[k - 3] = queue[k - 2]
            <4>1. /\ k - 1 \in 1..(Len(queue) - 1) /\ (k - 1) + 1 = k
                  /\ k - 2 \in 1..(Len(queue) - 1) /\ (k - 2) + 1 = k - 1
                  /\ k - 3 \in 1..(Len(queue) - 1) /\ (k - 3) + 1 = k - 2
                BY <2>1, <1>1
            <4>2. \A j \in 1..(Len(queue) - 1) : queue'[j] = queue[j + 1]
                BY <1>1
            <4>3. /\ queue'[k - 1] = queue[(k - 1) + 1] /\ queue'[k - 2] = queue[(k - 2) + 1]
                  /\ queue'[k - 3] = queue[(k - 3) + 1]
                BY <4>1, <4>2
            <4>4. QED BY <4>1, <4>3
        <3>2. /\ queue[k] = [store |-> "snaps", value |-> lists["snaps"]]
              /\ queue[k - 1] = [store |-> "running", value |-> lists["running"]]
              /\ queue[k - 2] = [store |-> "list", value |-> lists["list"]]
            <4>1. (k + 1) - 1 = k /\ (k + 1) - 2 = k - 1 /\ (k + 1) - 3 = k - 2
                BY <1>1
            <4>2. QED BY <2>1, <4>1, <1>6 DEF Precedes
        <3>3. QED BY <2>1, <3>1, <3>2
    <2>2. CASE k = 3
        BY <2>2, <1>1, <1>2, <1>5, <1>6 DEF Precedes
    <2>3. CASE k = 2
        BY <2>3, <1>1, <1>2, <1>5, <1>6 DEF Precedes
    <2>4. CASE k = 1
        BY <2>4, <1>1, <1>2, <1>5, <1>6 DEF Precedes
    <2>5. QED BY <2>1, <2>2, <2>3, <2>4, <1>1
<1>7. BroadcastsAreWhole'
    <2> SUFFICES ASSUME NEW k \in 1..(Len(queue) - 1), IsBroadcast(queue'[k])
                 PROVE  /\ Precedes(k, 1, "snaps", queue[k].poll)'
                        /\ Precedes(k, 2, "running", queue[k].poll)'
                        /\ Precedes(k, 3, "list", queue[k].poll)'
        BY <1>1 DEF BroadcastsAreWhole
    <2>1. k + 1 \in DOMAIN queue /\ queue'[k] = queue[k + 1] /\ k \in 1..Len(queue)
        BY <1>1
    <2>2. /\ Precedes(k + 1, 1, "snaps", queue[k + 1].poll)
          /\ Precedes(k + 1, 2, "running", queue[k + 1].poll)
          /\ Precedes(k + 1, 3, "list", queue[k + 1].poll)
        BY <2>1 DEF FeedInv, BroadcastsAreWhole
    <2>3. /\ IF k - 1 >= 1 THEN queue'[k - 1] = [store |-> "snaps", value |-> queue[k + 1].poll["snaps"]]
                           ELSE stored'["snaps"] = queue[k + 1].poll["snaps"]
          /\ IF k - 2 >= 1 THEN queue'[k - 2] = [store |-> "running", value |-> queue[k + 1].poll["running"]]
                           ELSE stored'["running"] = queue[k + 1].poll["running"]
          /\ IF k - 3 >= 1 THEN queue'[k - 3] = [store |-> "list", value |-> queue[k + 1].poll["list"]]
                           ELSE stored'["list"] = queue[k + 1].poll["list"]
        BY <2>1, <2>2, <1>6
    <2>4. QED BY <2>1, <2>3 DEF Precedes
<1>8. PostsAreWhole'
    <2>1. CASE pc = "post_running"
        <3>1. Precedes(Len(queue) + 1, 1, "list", polled) /\ (Len(queue) + 1) - 1 = Len(queue)
            BY <2>1, <1>1 DEF FeedInv, PostsAreWhole
        <3>2. CASE Len(queue) >= 2
            <4>1. queue'[Len(queue) - 1] = queue[Len(queue)]
                BY <3>2, <1>1
            <4>2. QED BY <2>1, <3>1, <3>2, <4>1, <1>1, <1>3 DEF PostsAreWhole, Precedes
        <3>3. CASE Len(queue) = 1
            BY <2>1, <3>1, <3>3, <1>1, <1>2, <1>3, <1>5 DEF PostsAreWhole, Precedes
        <3>4. QED BY <3>2, <3>3, <1>1
    <2>2. CASE pc = "post_snaps"
        <3>1. Precedes(Len(queue) + 1, 1, "running", polled) /\ Precedes(Len(queue) + 1, 2, "list", polled)
            BY <2>2 DEF FeedInv, PostsAreWhole
        <3>2. CASE Len(queue) >= 3
            <4>1. queue'[Len(queue) - 1] = queue[Len(queue)] /\ queue'[Len(queue) - 2] = queue[Len(queue) - 1]
                BY <3>2, <1>1
            <4>2. (Len(queue) + 1) - 1 = Len(queue) /\ (Len(queue) + 1) - 2 = Len(queue) - 1 /\ Len(queue') + 1 = Len(queue)
                BY <1>1
            <4>3. QED BY <2>2, <3>1, <3>2, <4>1, <4>2, <1>1, <1>3 DEF PostsAreWhole, Precedes
        <3>a. CASE Len(queue) = 2
            BY <2>2, <3>1, <3>a, <1>1, <1>2, <1>3, <1>5 DEF PostsAreWhole, Precedes
        <3>3. CASE Len(queue) = 1
            BY <2>2, <3>1, <3>3, <1>1, <1>2, <1>3, <1>5 DEF PostsAreWhole, Precedes
        <3>4. QED BY <3>2, <3>a, <3>3, <1>1
    <2>3. CASE pc = "post_broadcast"
        <3>1. /\ Precedes(Len(queue) + 1, 1, "snaps", polled)
              /\ Precedes(Len(queue) + 1, 2, "running", polled)
              /\ Precedes(Len(queue) + 1, 3, "list", polled)
            BY <2>3 DEF FeedInv, PostsAreWhole
        <3>2. Len(queue) \in 1..Len(queue)
            BY <1>1
        <3>3. /\ IF Len(queue) - 1 >= 1 THEN queue'[Len(queue) - 1] = [store |-> "snaps", value |-> polled["snaps"]]
                                        ELSE stored'["snaps"] = polled["snaps"]
              /\ IF Len(queue) - 2 >= 1 THEN queue'[Len(queue) - 2] = [store |-> "running", value |-> polled["running"]]
                                        ELSE stored'["running"] = polled["running"]
              /\ IF Len(queue) - 3 >= 1 THEN queue'[Len(queue) - 3] = [store |-> "list", value |-> polled["list"]]
                                        ELSE stored'["list"] = polled["list"]
            BY <3>1, <3>2, <1>6
        <3>4. Len(queue') + 1 = Len(queue)
            BY <1>1
        <3>5. QED BY <2>3, <3>3, <3>4, <1>3 DEF PostsAreWhole, Precedes
    <2>4. CASE ~Posting
        BY <2>4, <1>3 DEF Posting, PostsAreWhole
    <2>5. QED BY <2>1, <2>2, <2>3, <2>4 DEF Posting
<1>9. BroadcastComesLast'
    BY <1>1, <1>3 DEF FeedInv, BroadcastComesLast, Posting
<1>10. MixturesAreMended'
    BY <1>1, <1>3 DEF FeedInv, MixturesAreMended, BroadcastComesLast, Posting
<1>11. QED BY <1>4, <1>7, <1>8, <1>9, <1>10 DEF FeedInv

(* A broadcast runs: what is stored is the poll it is meant to send.       *)
LEMMA RunBroadcastKeeps == FeedInv /\ RunBroadcast => FeedInv' /\ stored = Head(queue).poll
<1> SUFFICES ASSUME FeedInv, RunBroadcast PROVE FeedInv' /\ stored = Head(queue).poll
    OBVIOUS
<1>1. /\ queue' \in Seq(Task)
      /\ Head(queue) = queue[1] /\ queue[1] \in Task
      /\ Len(queue) \in Nat /\ Len(queue) >= 1 /\ Len(queue') = Len(queue) - 1
      /\ DOMAIN queue = 1..Len(queue) /\ DOMAIN queue' = 1..(Len(queue) - 1)
      /\ \A k \in 1..(Len(queue) - 1) : queue'[k] = queue[k + 1]
    BY HeadRuns DEF FeedInv, FeedTypeOK, RunBroadcast
<1>2. UNCHANGED <<changes, registry, pc, polled, stored, joined>> /\ IsBroadcast(queue[1]) /\ SendTo(1..joined)
    BY <1>1 DEF RunBroadcast, thread
<1>3. stored = queue[1].poll
    <2>1. /\ Precedes(1, 1, "snaps", queue[1].poll)
          /\ Precedes(1, 2, "running", queue[1].poll)
          /\ Precedes(1, 3, "list", queue[1].poll)
        BY <1>1, <1>2 DEF FeedInv, BroadcastsAreWhole
    <2>2. /\ stored["snaps"] = queue[1].poll["snaps"]
          /\ stored["running"] = queue[1].poll["running"]
          /\ stored["list"] = queue[1].poll["list"]
        BY <2>1 DEF Precedes
    <2>3. queue[1].poll \in Lists /\ stored \in Lists
        BY <1>1, <1>2, Tasks DEF FeedInv, FeedTypeOK
    <2>4. QED BY <2>2, <2>3 DEF Lists
<1>4. FeedTypeOK'
    <2>1. told' \in [Sessions -> Lists \cup {NothingYet}]
        BY <1>2 DEF SendTo, FeedInv, FeedTypeOK
    <2>2. QED BY <1>1, <1>2, <2>1 DEF FeedInv, FeedTypeOK
<1>5. \A f, v : queue[1] # [store |-> f, value |-> v]
    BY <1>2 DEF IsBroadcast
(* No place is one place behind the broadcast that has run.                *)
<1>6. ASSUME NEW lists, NEW k \in 1..Len(queue), NEW d \in 1..3, NEW f, Precedes(k + 1, d, f, lists)
      PROVE  IF k - d >= 1 THEN queue'[k - d] = [store |-> f, value |-> lists[f]] ELSE stored'[f] = lists[f]
    <2>1. (k + 1) - d # 1
        BY <1>5, <1>6 DEF Precedes
    <2>2. CASE k - d >= 1
        BY <2>2, <1>1, <1>6 DEF Precedes
    <2>3. CASE ~(k - d >= 1)
        BY <2>1, <2>3, <1>1, <1>2, <1>6 DEF Precedes
    <2>4. QED BY <2>2, <2>3
<1>a. BroadcastsAreWhole'
    <2> SUFFICES ASSUME NEW k \in 1..(Len(queue) - 1), IsBroadcast(queue'[k])
                 PROVE  /\ Precedes(k, 1, "snaps", queue[k].poll)'
                        /\ Precedes(k, 2, "running", queue[k].poll)'
                        /\ Precedes(k, 3, "list", queue[k].poll)'
        BY <1>1 DEF BroadcastsAreWhole
    <2>1. k + 1 \in DOMAIN queue /\ queue'[k] = queue[k + 1] /\ k \in 1..Len(queue)
        BY <1>1
    <2>2. /\ Precedes(k + 1, 1, "snaps", queue[k + 1].poll)
          /\ Precedes(k + 1, 2, "running", queue[k + 1].poll)
          /\ Precedes(k + 1, 3, "list", queue[k + 1].poll)
        BY <2>1 DEF FeedInv, BroadcastsAreWhole
    <2>3. ASSUME NEW d \in 1..3, NEW f, Precedes(k + 1, d, f, queue[k + 1].poll)
          PROVE  IF k - d >= 1 THEN queue'[k - d] = [store |-> f, value |-> queue'[k].poll[f]]
                               ELSE stored'[f] = queue'[k].poll[f]
        BY <1>6, <2>1, <2>3
    <2>4. \A d \in 1..3 : \A f : Precedes(k + 1, d, f, queue[k + 1].poll) => Precedes(k, d, f, queue[k].poll)'
        BY <2>3 DEF Precedes
    <2>5. QED BY <2>2, <2>4
<1>b. PostsAreWhole'
    <2>1. Len(queue) \in 1..Len(queue) /\ Len(queue') + 1 = Len(queue)
        BY <1>1
    <2>2. ASSUME NEW d \in 1..3, NEW f, Precedes(Len(queue) + 1, d, f, polled)
          PROVE  Precedes(Len(queue) + 1, d, f, polled)'
        <3>1. IF Len(queue) - d >= 1 THEN queue'[Len(queue) - d] = [store |-> f, value |-> polled[f]]
                                     ELSE stored'[f] = polled[f]
            BY <2>1, <2>2, <1>6
        <3>2. QED BY <2>1, <3>1, <1>2 DEF Precedes
    <2>3. QED BY <2>2, <1>2 DEF FeedInv, PostsAreWhole
<1>7. BroadcastComesLast'
    BY <1>1, <1>2 DEF FeedInv, BroadcastComesLast, Posting
<1>8. MixturesAreMended'
    <2>1. 1..joined \subseteq Sessions
        BY VMStatusFeedAssumption DEF Sessions, FeedInv, FeedTypeOK
    <2>2. ASSUME NEW i \in 1..joined, LengthsAgree(stored) PROVE told'[i] = stored
        BY <2>1, <2>2, <1>2 DEF SendTo
    <2>3. QED BY <2>2, <1>2 DEF MixturesAreMended, LengthsAgree
<1>9. QED BY <1>1, <1>3, <1>4, <1>a, <1>b, <1>7, <1>8 DEF FeedInv

(* A new session is sent what is stored; the others are left alone.        *)
LEMMA AcceptKeeps == FeedInv /\ Accept => FeedInv' /\ \A i \in 1..joined : told'[i] = told[i]
<1> SUFFICES ASSUME FeedInv, Accept PROVE FeedInv' /\ \A i \in 1..joined : told'[i] = told[i]
    OBVIOUS
<1>1. /\ UNCHANGED <<changes, registry, pc, polled, queue, stored>>
      /\ joined' = joined + 1 /\ joined' \in 0..MaxSessions /\ joined \in Nat /\ SendTo({joined + 1})
    BY VMStatusFeedAssumption DEF Accept, thread, FeedInv, FeedTypeOK
<1>2. /\ told' \in [Sessions -> Lists \cup {NothingYet}]
      /\ LengthsAgree(stored) => told'[joined + 1] = stored
      /\ \A i \in 1..joined : told'[i] = told[i]
    BY <1>1, VMStatusFeedAssumption DEF SendTo, Sessions, FeedInv, FeedTypeOK
<1>3. FeedTypeOK' /\ MixturesAreMended'
    BY <1>1, <1>2 DEF FeedInv, FeedTypeOK, MixturesAreMended, LengthsAgree, Posting
<1>4. BroadcastsAreWhole' /\ PostsAreWhole' /\ BroadcastComesLast'
    BY <1>1 DEF FeedInv, BroadcastsAreWhole, PostsAreWhole, BroadcastComesLast, Precedes, Posting
<1>5. QED BY <1>2, <1>3, <1>4 DEF FeedInv

LEMMA FeedInvNext == FeedInv /\ [FeedNext]_feedVars => FeedInv'
<1> SUFFICES ASSUME FeedInv, [FeedNext]_feedVars PROVE FeedInv'
    OBVIOUS
<1>1. CASE Change
    <2>1. /\ UNCHANGED <<pc, polled, queue, stored, joined, told>>
          /\ changes' \in 0..MaxChanges /\ registry' \in [at : 0..MaxChanges, len : 0..MaxVMs]
        BY <1>1, VMStatusFeedAssumption DEF Change, thread, FeedInv, FeedTypeOK
    <2>2. QED
        BY <2>1 DEF FeedInv, FeedTypeOK, BroadcastsAreWhole, PostsAreWhole, BroadcastComesLast, MixturesAreMended,
                    Precedes, Posting, LengthsAgree
<1>2. CASE GetList \/ GetRunning \/ GetSnaps
    <2>1. /\ registry.at \in NotFound..MaxChanges /\ registry.len \in 0..MaxVMs
          /\ polled.list.len \in 0..MaxVMs /\ NotFound \in NotFound..MaxChanges
        <3>1. registry.at \in 0..MaxChanges /\ registry.len \in 0..MaxVMs /\ polled.list \in Vector
            BY DEF FeedInv, FeedTypeOK, Lists
        <3>2. QED BY <3>1, VMStatusFeedAssumption DEF Vector, NotFound
    <2>2. /\ Read(registry.at, registry.len) \in Vector /\ Empty \in Vector
          /\ Read(registry.at, polled.list.len) \in Vector /\ Read(NotFound, polled.list.len) \in Vector
        BY <2>1, Vectors
    <2>3. QED BY <1>2, <2>2, AnswerKeeps DEF GetList, GetRunning, GetSnaps, Posting
<1>3. CASE PostList \/ PostRunning \/ PostSnaps
    <2>1. CASE PostList
        BY <2>1, PostStoreKeeps DEF PostList
    <2>2. CASE PostRunning
        BY <2>2, PostStoreKeeps DEF PostRunning
    <2>3. CASE PostSnaps
        BY <2>3, PostStoreKeeps DEF PostSnaps
    <2>4. QED BY <1>3, <2>1, <2>2, <2>3
<1>4. CASE PostBroadcast
    BY <1>4, PostBroadcastKeeps
<1>5. CASE RunStore
    BY <1>5, RunStoreKeeps
<1>6. CASE RunBroadcast
    BY <1>6, RunBroadcastKeeps
<1>7. CASE Accept
    BY <1>7, AcceptKeeps
<1>8. CASE UNCHANGED feedVars
    BY <1>8 DEF feedVars, thread, FeedInv, FeedTypeOK, BroadcastsAreWhole, PostsAreWhole, BroadcastComesLast,
                MixturesAreMended, Precedes, Posting, LengthsAgree
<1>9. QED
    BY <1>1, <1>2, <1>3, <1>4, <1>5, <1>6, <1>7, <1>8 DEF FeedNext, Poll

(* The parts of the queue fit together in every reachable state.           *)
THEOREM FeedInvariant == FeedSpec => []FeedInv
BY FeedInvInit, FeedInvNext, PTL DEF FeedSpec

(* The type invariant of VMStatusFeed, for every bound.                    *)
THEOREM FeedTypeCorrect == FeedSpec => []FeedTypeOK
<1>1. FeedInv => FeedTypeOK
    BY DEF FeedInv
<1>2. QED BY FeedInvariant, <1>1, PTL

(* Every session has been sent what the server stores whenever no post is  *)
(* on its way (and what is stored can be sent).                            *)
THEOREM EveryoneIsUpToDate == FeedSpec => []NobodyIsLeftBehind
<1>1. FeedInv => NobodyIsLeftBehind
    BY DEF FeedInv, MixturesAreMended, Posting, NobodyIsLeftBehind
<1>2. QED BY FeedInvariant, <1>1, PTL

(* What a session is sent after it has joined are the three lists of one   *)
(* poll.                                                                   *)
THEOREM PollsAreNotMixed == FeedSpec => BroadcastIsOnePoll
<1> DEFINE Whole == \A i \in 1..joined :
                        told'[i] # told[i] =>
                            /\ queue # << >>
                            /\ IsBroadcast(Head(queue))
                            /\ told'[i] = Head(queue).poll
<1>1. FeedInv /\ [FeedNext]_feedVars => [Whole]_feedVars
    <2> SUFFICES ASSUME FeedInv, FeedNext, NEW i \in 1..joined, told'[i] # told[i]
                 PROVE  queue # << >> /\ IsBroadcast(Head(queue)) /\ told'[i] = Head(queue).poll
        OBVIOUS
    <2>1. ~Accept
        BY AcceptKeeps
    <2>2. RunBroadcast
        BY <2>1 DEF FeedNext, Change, Poll, GetList, GetRunning, GetSnaps, Answer, PostList, PostRunning, PostSnaps,
                    PostBroadcast, Post, RunStore
    <2>3. stored = Head(queue).poll /\ told \in [Sessions -> Lists \cup {NothingYet}]
        BY <2>2, RunBroadcastKeeps DEF FeedInv, FeedTypeOK
    <2>4. i \in Sessions
        BY VMStatusFeedAssumption DEF FeedInv, FeedTypeOK, Sessions
    <2>5. QED BY <2>2, <2>3, <2>4 DEF RunBroadcast, SendTo
<1>2. QED BY FeedInvariant, <1>1, PTL DEF FeedSpec, BroadcastIsOnePoll

(***************************************************************************)
(* The tree.  Parents come before their children, so that what is listed   *)
(* of a snapshot follows, from the last one up to the root, from what is   *)
(* listed of its children.                                                 *)
(***************************************************************************)

(* Snapshots as VirtualBox keeps them.                                     *)
IsTree ==
    /\ \E n \in Nat :
        /\ nodes = 1..n
        /\ parent \in [2..n -> 1..n]
        /\ \A k \in 2..n : parent[k] < k
    /\ closed \subseteq nodes
    /\ null \subseteq nodes \ {1}

(* A snapshot and those above it.                                          *)
Upward(k) == Ancestors[k] \cup {k}

(* The part of the subtree of k that can be reached from k.                *)
Below(k) ==
    {j \in nodes : /\ k \in Upward(j)
                   /\ (Ancestors[j] \ Ancestors[k]) \cap closed = {}
                   /\ (Upward(j) \ Upward(k)) \cap null = {}}

(* Parents come before their children, which is why there is one function  *)
(* of ancestors.                                                           *)
LEMMA ParentsComeFirst ==
    ASSUME IsTree
    PROVE  /\ nodes \subseteq Nat \ {0}
           /\ \A k \in nodes : k # 1 => parent[k] \in nodes /\ parent[k] < k
           /\ \A k \in nodes : 1 \in nodes
    BY DEF IsTree

LEMMA AncestorsAreDefined ==
    ASSUME IsTree
    PROVE  /\ Ancestors = [k \in nodes |-> IF k = 1 THEN {} ELSE {parent[k]} \cup Ancestors[parent[k]]]
<1> DEFINE Def(f, m) == f = [k \in 1..m |-> IF k = 1 THEN {} ELSE {parent[k]} \cup f[parent[k]]]
<1>1. PICK n \in Nat : nodes = 1..n /\ parent \in [2..n -> 1..n] /\ \A k \in 2..n : parent[k] < k
    BY DEF IsTree
<1> DEFINE Good == {m \in Nat : m <= n => \E f : Def(f, m)}
<1>2. \A m \in Nat : m \in Good
    <2>1. 0 \in Good
        <3> DEFINE f == [k \in 1..0 |-> {}]
        <3>1. Def(f, 0)
            OBVIOUS
        <3> HIDE DEF f, Def
        <3>2. QED BY <3>1
    <2>2. ASSUME NEW m \in Nat, m \in Good PROVE m + 1 \in Good
        <3>1. SUFFICES ASSUME m + 1 <= n PROVE \E f : Def(f, m + 1)
            <4> HIDE DEF Def
            <4>1. QED OBVIOUS
        <3>2. PICK f : Def(f, m)
            BY <2>2, <3>1
        <3> DEFINE g == [k \in 1..m + 1 |-> IF k # m + 1 THEN f[k]
                                             ELSE IF k = 1 THEN {} ELSE {parent[k]} \cup f[parent[k]]]
        <3>3. ASSUME NEW k \in 1..m + 1
              PROVE  g[k] = IF k = 1 THEN {} ELSE {parent[k]} \cup g[parent[k]]
            <4>1. ASSUME k # 1 PROVE g[parent[k]] = f[parent[k]]
                <5>1. k \in 2..n
                    BY <3>1, <4>1
                <5>2. parent[k] \in 1..n /\ parent[k] < k
                    BY <1>1, <5>1
                <5>3. parent[k] \in 1..m + 1 /\ parent[k] # m + 1
                    BY <5>2
                <5>4. QED BY <5>3
            <4>2. CASE k = m + 1
                <5>1. g[k] = IF k = 1 THEN {} ELSE {parent[k]} \cup f[parent[k]]
                    BY <4>2
                <5> HIDE DEF g
                <5>2. QED BY <4>1, <5>1
            <4>3. CASE k # m + 1
                <5>1. k \in 1..m
                    BY <4>3
                <5>2. f[k] = IF k = 1 THEN {} ELSE {parent[k]} \cup f[parent[k]]
                    BY <3>2, <5>1
                <5>3. g[k] = f[k]
                    BY <4>3
                <5> HIDE DEF g
                <5>4. QED BY <4>1, <5>2, <5>3
            <4>4. QED BY <4>2, <4>3
        <3>4. g = [k \in 1..m + 1 |-> g[k]]
            OBVIOUS
        <3> HIDE DEF g
        <3>5. Def(g, m + 1)
            BY <3>3, <3>4
        <3> HIDE DEF Def
        <3>6. QED BY <3>5
    <2> HIDE DEF Good
    <2>3. QED BY <2>1, <2>2, NaturalsAreReached
<1>3. \E f : Def(f, n)
    <2> HIDE DEF Def
    <2>1. QED BY <1>2
<1>4. Ancestors = CHOOSE f : Def(f, n)
    BY <1>1 DEF Ancestors
<1> HIDE DEF Def
<1>5. Def(Ancestors, n)
    BY <1>3, <1>4, Zenon
<1>6. QED BY <1>1, <1>5 DEF Def

(* How the sets of ancestors lie in each other.                            *)
LEMMA AncestorsOf ==
    ASSUME IsTree, NEW k \in nodes
    PROVE  /\ Ancestors[1] = {}
           /\ k # 1 => Ancestors[k] = Upward(parent[k])
<1>1. \A j \in nodes : Ancestors[j] = IF j = 1 THEN {} ELSE {parent[j]} \cup Ancestors[parent[j]]
    BY AncestorsAreDefined
<1>2. 1 \in nodes
    BY ParentsComeFirst
<1>3. QED BY <1>1, <1>2 DEF Upward

LEMMA AncestorsLie ==
    ASSUME IsTree
    PROVE  \A k \in nodes :
              /\ Ancestors[k] \subseteq nodes
              /\ \A j \in Ancestors[k] : j < k /\ Ancestors[j] \subseteq Ancestors[k]
              /\ 1 \in Upward(k)
              /\ \A i, j \in Upward(k) : i = j \/ i \in Ancestors[j] \/ j \in Ancestors[i]
              /\ \A j \in Ancestors[k] : \E c \in Upward(k) : c # 1 /\ parent[c] = j
<1> DEFINE Lie(k) ==
              /\ Ancestors[k] \subseteq nodes
              /\ \A j \in Ancestors[k] : j < k /\ Ancestors[j] \subseteq Ancestors[k]
              /\ 1 \in Upward(k)
              /\ \A i, j \in Upward(k) : i = j \/ i \in Ancestors[j] \/ j \in Ancestors[i]
              /\ \A j \in Ancestors[k] : \E c \in Upward(k) : c # 1 /\ parent[c] = j
<1> DEFINE Good == {m \in Nat : \A k \in nodes : k <= m => Lie(k)}
<1>1. nodes \subseteq Nat \ {0} /\ \A k \in nodes : k # 1 => parent[k] \in nodes /\ parent[k] < k
    BY ParentsComeFirst
<1>2. \A m \in Nat : m \in Good
    <2>1. 0 \in Good
        BY <1>1
    <2>2. ASSUME NEW m \in Nat, m \in Good PROVE m + 1 \in Good
        <3>1. SUFFICES ASSUME NEW k \in nodes, k = m + 1 PROVE Lie(k)
            <4> HIDE DEF Lie
            <4>1. \A k \in nodes : k <= m + 1 => k <= m \/ k = m + 1
                BY <1>1
            <4>2. QED BY <2>2, <4>1
        <3>2. CASE k = 1
            BY <3>2, AncestorsOf, <1>1 DEF Upward
        <3>3. CASE k # 1
            <4> DEFINE p == parent[k]
            <4>1. p \in nodes /\ p < k /\ p <= m /\ p \in Nat /\ k \in Nat
                <5>1. p \in nodes /\ p < k
                    BY <1>1, <3>3
                <5> HIDE DEF p
                <5>2. QED BY <1>1, <3>1, <5>1
            <4>2. Ancestors[k] = Ancestors[p] \cup {p} /\ Upward(k) = Ancestors[p] \cup {p, k}
                BY <3>3, AncestorsOf DEF Upward
            <4>3. Lie(p)
                BY <2>2, <4>1
            <4> HIDE DEF p
            <4>4. Ancestors[k] \subseteq nodes
                BY <4>1, <4>2, <4>3
            <4>5. ASSUME NEW j \in Ancestors[k] PROVE j < k /\ Ancestors[j] \subseteq Ancestors[k]
                <5>1. CASE j = p
                    BY <4>1, <4>2, <5>1
                <5>2. CASE j \in Ancestors[p]
                    <6>1. j < p /\ j \in nodes /\ Ancestors[j] \subseteq Ancestors[p]
                        BY <4>3, <5>2
                    <6>2. QED BY <1>1, <4>1, <4>2, <6>1
                <5>3. QED BY <4>2, <5>1, <5>2
            <4>6. 1 \in Upward(k)
                BY <4>2, <4>3 DEF Upward
            <4>7. ASSUME NEW i \in Upward(k), NEW j \in Upward(k)
                  PROVE  i = j \/ i \in Ancestors[j] \/ j \in Ancestors[i]
                BY <4>2, <4>3 DEF Upward
            <4>8. ASSUME NEW j \in Ancestors[k] PROVE \E c \in Upward(k) : c # 1 /\ parent[c] = j
                BY <3>3, <4>2, <4>3 DEF Upward, p
            <4>9. QED BY <4>4, <4>5, <4>6, <4>7, <4>8
        <3>4. QED BY <3>2, <3>3
    <2> HIDE DEF Good
    <2>3. QED BY <2>1, <2>2, NaturalsAreReached
<1> HIDE DEF Lie
<1>3. \A k \in nodes : k \in Nat
    BY <1>1
<1>4. \A k \in nodes : Lie(k)
    BY <1>2, <1>3
<1>5. QED BY <1>4 DEF Lie

(* No snapshot stands before itself.                                       *)
LEMMA NotBeforeItself ==
    ASSUME IsTree, NEW k \in nodes
    PROVE  ~Before(k, k)
<1>1. nodes \subseteq Nat \ {0} /\ \A c \in nodes : c # 1 => parent[c] \in nodes /\ parent[c] < c
    BY ParentsComeFirst
<1>2. \A j \in Ancestors[k] : j < k /\ j \in nodes
    BY AncestorsLie
<1>3. k \notin Ancestors[k]
    BY <1>1, <1>2
<1>4. ASSUME NEW a \in Upward(k), NEW b \in Upward(k), a # 1, b # 1, parent[a] = parent[b], a < b
      PROVE  FALSE
    <2>1. a \in nodes /\ b \in nodes
        BY <1>2 DEF Upward
    <2>2. a \in Ancestors[b] \/ b \in Ancestors[a]
        BY <1>1, <1>4, <2>1, AncestorsLie
    <2>3. a \in Ancestors[b]
        <3>1. b \in Ancestors[a] => b < a
            BY <2>1, AncestorsLie
        <3>2. a \in Nat /\ b \in Nat
            BY <1>1, <2>1
        <3>3. QED BY <1>4, <2>2, <3>1, <3>2
    <2>4. a = parent[b] \/ a \in Ancestors[parent[b]]
        BY <1>4, <2>1, <2>3, AncestorsOf DEF Upward
    <2> DEFINE p == parent[a]
    <2>5. p \in nodes /\ p < a
        BY <1>1, <1>4, <2>1
    <2>6. a = p \/ a \in Ancestors[p]
        BY <1>4, <2>4
    <2> HIDE DEF p
    <2>7. a \in Ancestors[p] => a < p
        BY <2>5, AncestorsLie
    <2>8. a \in Nat /\ p \in Nat
        BY <1>1, <2>1, <2>5
    <2>9. QED BY <2>5, <2>6, <2>7, <2>8
<1>5. QED BY <1>3, <1>4 DEF Before, Upward

(* What can be reached from a snapshot is itself and what can be reached   *)
(* from its children.                                                      *)
LEMMA BelowAChild ==
    ASSUME IsTree, NEW k \in nodes, NEW c \in Children(k) \ null
    PROVE  /\ c \in nodes /\ c # 1 /\ parent[c] = k /\ k < c
           /\ Below(c) \subseteq Below(k)
           /\ \A j \in Below(c) : k \in Ancestors[j]
<1>1. c \in nodes /\ c # 1 /\ parent[c] = k /\ k < c /\ k \notin closed
    BY ParentsComeFirst DEF Children
<1>2. Ancestors[c] = Upward(k)
    BY <1>1, AncestorsOf
<1>3. ASSUME NEW j \in Below(c) PROVE j \in Below(k) /\ k \in Ancestors[j]
    <2>1. j \in nodes /\ c \in Upward(j)
        BY DEF Below
    <2>2. Ancestors[c] \subseteq Ancestors[j]
        BY <2>1, AncestorsLie DEF Upward
    <2>3. k \in Ancestors[j]
        BY <1>2, <2>2 DEF Upward
    <2>4. (Ancestors[j] \ Ancestors[k]) \cap closed = {}
        BY <1>1, <1>2 DEF Below, Upward
    <2>5. (Upward(j) \ Upward(k)) \cap null = {}
        BY <1>2 DEF Below, Upward
    <2>6. QED BY <2>1, <2>3, <2>4, <2>5 DEF Below, Upward
<1>4. QED BY <1>1, <1>3

LEMMA BelowASnapshot ==
    ASSUME IsTree, NEW k \in nodes
    PROVE  /\ k \in Below(k)
           /\ \A j \in Below(k) : j = k \/ \E c \in Children(k) \ null : j \in Below(c)
<1>1. nodes \subseteq Nat \ {0} /\ \A c \in nodes : c # 1 => parent[c] \in nodes /\ parent[c] < c
    BY ParentsComeFirst
<1>2. k \in Below(k)
    BY DEF Below, Upward
<1>3. ASSUME NEW j \in Below(k), j # k PROVE \E c \in Children(k) \ null : j \in Below(c)
    <2>1. j \in nodes /\ k \in Ancestors[j]
        BY <1>3 DEF Below, Upward
    <2>2. PICK c \in Upward(j) : c # 1 /\ parent[c] = k
        BY <2>1, AncestorsLie
    <2>3. c \in nodes /\ k < c
        <3>1. c \in nodes
            BY <2>1, AncestorsLie DEF Upward
        <3>2. QED BY <1>1, <2>2, <3>1
    <2>4. \A i \in Ancestors[k] : i < k /\ i \in nodes
        BY AncestorsLie
    <2>5. k \notin closed
        BY <1>1, <2>1, <2>4 DEF Below
    <2>6. c \notin null
        <3>1. c \notin Upward(k)
            BY <1>1, <2>3, <2>4 DEF Upward
        <3>2. QED BY <2>2, <3>1 DEF Below
    <2>7. Ancestors[c] = Upward(k)
        BY <2>2, <2>3, AncestorsOf
    <2>8. j \in Below(c)
        BY <2>1, <2>2, <2>7 DEF Below, Upward
    <2>9. QED BY <2>2, <2>3, <2>5, <2>6, <2>8 DEF Children
<1>4. QED BY <1>2, <1>3

LEMMA BelowTheRoot ==
    ASSUME IsTree, nodes # {}
    PROVE  Below(1) = Seen
<1>1. 1 \in nodes /\ Ancestors[1] = {} /\ 1 \notin null
    BY ParentsComeFirst, AncestorsOf DEF IsTree
<1>2. \A j \in nodes : 1 \in Upward(j)
    BY AncestorsLie
<1>3. QED BY <1>1, <1>2 DEF Below, Seen, Upward

(* What the loop over the children puts behind a snapshot.                 *)
Rows == [level : Nat, snap : nodes]
Listing(f, k) ==
    [level \in Nat |->
        <<Row(k, level)>>
        \o FlattenSeq([c \in nodes |-> IF c \in Children(k) \ null THEN f[c][level + 1] ELSE << >>])]

LEMMA ShowSnapshotsIsDefined ==
    ASSUME IsTree, nodes # {}
    PROVE  \E show : show = [k \in nodes |-> Listing(show, k)] /\ ShowSnapshots = show[1][0]
<1> DEFINE Def(f, m) == f = [k \in {i \in nodes : i > m} |-> Listing(f, k)]
<1>1. PICK n \in Nat : nodes = 1..n
    BY DEF IsTree
<1> DEFINE Good == {m \in Nat : m <= n => \E f : Def(f, n - m)}
<1>2. \A m \in Nat : m \in Good
    <2>1. 0 \in Good
        <3> DEFINE f == [k \in {} |-> {}]
        <3>1. {i \in nodes : i > n - 0} = {}
            BY <1>1
        <3>2. Def(f, n - 0)
            BY <3>1
        <3> HIDE DEF f, Def
        <3>3. QED BY <3>2
    <2>2. ASSUME NEW m \in Nat, m \in Good PROVE m + 1 \in Good
        <3>1. SUFFICES ASSUME m + 1 <= n PROVE \E f : Def(f, n - (m + 1))
            <4> HIDE DEF Def
            <4>1. QED OBVIOUS
        <3>2. PICK f : Def(f, n - m)
            <4> HIDE DEF Def
            <4>1. m <= n
                BY <3>1
            <4>2. QED BY <2>2, <4>1
        <3> DEFINE last == n - m
                   g == [k \in {i \in nodes : i > n - (m + 1)} |-> IF k > last THEN f[k] ELSE Listing(f, k)]
        <3>3. last \in Nat /\ n - (m + 1) = last - 1 /\ last \in nodes
            BY <1>1, <3>1
        <3> HIDE DEF last
        <3>4. \A k \in nodes : k > last - 1 => k = last \/ k > last
            BY <1>1, <3>3
        <3>5. \A c \in nodes : c > last => g[c] = f[c]
            BY <1>1, <3>3
        <3>6. ASSUME NEW k \in nodes, k > last - 1 PROVE Listing(g, k) = Listing(f, k)
            <4>1. ASSUME NEW c \in Children(k) \ null PROVE g[c] = f[c]
                <5>1. c \in nodes /\ k < c
                    BY BelowAChild
                <5>2. c > last
                    BY <1>1, <3>3, <3>6, <5>1
                <5>3. QED BY <3>5, <5>1, <5>2
            <4> HIDE DEF g
            <4> DEFINE Of(h, level) == [c \in nodes |-> IF c \in Children(k) \ null THEN h[c][level + 1] ELSE << >>]
            <4>2. \A level \in Nat : Of(g, level) = Of(f, level)
                BY <4>1
            <4>3. Listing(g, k) = [level \in Nat |-> <<Row(k, level)>> \o FlattenSeq(Of(g, level))]
                BY DEF Listing
            <4>4. Listing(f, k) = [level \in Nat |-> <<Row(k, level)>> \o FlattenSeq(Of(f, level))]
                BY DEF Listing
            <4> HIDE DEF Of
            <4>5. QED BY <4>2, <4>3, <4>4
        <3>7. ASSUME NEW k \in nodes, k > last - 1 PROVE g[k] = Listing(g, k)
            <4>1. g[k] = IF k > last THEN f[k] ELSE Listing(f, k)
                BY <3>3, <3>7
            <4>2. k > last => f[k] = Listing(f, k)
                BY <3>2 DEF last
            <4> HIDE DEF g
            <4>3. QED BY <3>6, <3>7, <4>1, <4>2
        <3>8. g = [k \in {i \in nodes : i > last - 1} |-> g[k]]
            BY <3>3
        <3> HIDE DEF g
        <3>9. Def(g, last - 1)
            BY <3>7, <3>8
        <3> HIDE DEF Def
        <3>10. QED BY <3>3, <3>9
    <2> HIDE DEF Good
    <2>3. QED BY <2>1, <2>2, NaturalsAreReached
<1>3. \E f : Def(f, 0)
    <2> HIDE DEF Def
    <2>1. \E f : Def(f, n - n)
        BY <1>2
    <2>2. n - n = 0
        OBVIOUS
    <2>3. QED BY <2>1, <2>2
<1> DEFINE show == CHOOSE f : Def(f, 0)
<1>4. {i \in nodes : i > 0} = nodes
    BY <1>1
<1>5. ShowSnapshots = show[1][0]
    BY <1>4 DEF ShowSnapshots, Listing
<1>6. Def(show, 0)
    <2> HIDE DEF Def
    <2>1. QED BY <1>3, Zenon
<1> HIDE DEF show
<1>7. show = [k \in nodes |-> Listing(show, k)]
    BY <1>4, <1>6
<1>8. QED BY <1>5, <1>7

(* A listing holds what can be reached from its first snapshot, in order.  *)
InOrder == {p \in Rows \X Rows : Before(p[1].snap, p[2].snap)}
Enumerates(s, k) ==
    /\ s \in Seq(Rows)
    /\ {s[i].snap : i \in DOMAIN s} = Below(k)
    /\ \A i, j \in DOMAIN s : i < j => <<s[i], s[j]>> \in InOrder

LEMMA ListingIsInOrder ==
    ASSUME IsTree, NEW k \in nodes, NEW level \in Nat, NEW f,
           \A c \in Children(k) \ null : Enumerates(f[c][level + 1], c)
    PROVE  Enumerates(Listing(f, k)[level], k)
<1> DEFINE root == <<Row(k, level)>>
           parts == [c \in nodes |-> IF c \in Children(k) \ null THEN f[c][level + 1] ELSE << >>]
           rest == FlattenSeq(parts)
<1>1. PICK n \in Nat : nodes = 1..n
    BY DEF IsTree
<1>2. n > 0
    BY <1>1
<1>3. Listing(f, k)[level] = root \o rest
    BY DEF Listing
<1>4. \A c \in nodes : parts[c] \in Seq(Rows) /\ (parts[c] # << >> => c \in Children(k) \ null)
    BY DEF Enumerates
<1>5. parts \in Seq(Seq(Rows)) /\ Len(parts) = n
    <2>1. parts \in [1..n -> Seq(Rows)]
        BY <1>1, <1>4
    <2> HIDE DEF parts
    <2>2. QED BY <2>1, FunctionsAreSequences
<1>6. \A c \in Children(k) \ null : c \in nodes /\ parts[c] = f[c][level + 1]
    BY BelowAChild
<1> HIDE DEF parts
<1>7. \A c \in Children(k) \ null : Enumerates(parts[c], c)
    BY <1>6
<1>8. ASSUME NEW c \in 1..n, NEW i \in 1..Len(parts[c])
      PROVE  c \in Children(k) \ null /\ parts[c][i] \in Rows /\ parts[c][i].snap \in Below(c)
    <2>1. parts[c] # << >> /\ c \in nodes
        BY <1>1
    <2>2. c \in Children(k) \ null
        BY <1>4, <2>1
    <2>3. QED BY <1>1, <1>7, <2>2 DEF Enumerates
<1>9. ASSUME NEW c \in 1..n, NEW i \in 1..Len(parts[c]), NEW j \in 1..Len(parts[c]), i < j
      PROVE  <<parts[c][i], parts[c][j]>> \in InOrder
    <2>1. c \in Children(k) \ null
        BY <1>8
    <2>2. Enumerates(parts[c], c)
        BY <1>7, <2>1
    <2>3. DOMAIN parts[c] = 1..Len(parts[c])
        BY <2>2 DEF Enumerates
    <2>4. QED BY <1>9, <2>2, <2>3 DEF Enumerates
<1>10. ASSUME NEW a \in 1..n, NEW b \in 1..n, a < b, NEW i \in 1..Len(parts[a]), NEW j \in 1..Len(parts[b])
       PROVE  <<parts[a][i], parts[b][j]>> \in InOrder
    <2> DEFINE r == parts[a][i]
               s == parts[b][j]
    <2>1. a \in Children(k) \ null /\ r \in Rows /\ r.snap \in Below(a)
        BY <1>8
    <2>2. b \in Children(k) \ null /\ s \in Rows /\ s.snap \in Below(b)
        BY <1>8
    <2> HIDE DEF r, s
    <2>3. a # 1 /\ b # 1 /\ parent[a] = parent[b]
        BY <2>1, <2>2, BelowAChild
    <2>4. a \in Upward(r.snap) /\ b \in Upward(s.snap)
        BY <2>1, <2>2 DEF Below
    <2>5. Before(r.snap, s.snap)
        BY <1>10, <2>3, <2>4 DEF Before, Upward
    <2>6. QED BY <2>1, <2>2, <2>5 DEF InOrder, r, s
<1>11. /\ rest \in Seq(Rows)
       /\ \A i \in 1..Len(rest) : \E c \in 1..n : \E j \in 1..Len(parts[c]) : rest[i] = parts[c][j]
       /\ \A c \in 1..n : \A j \in 1..Len(parts[c]) : \E i \in 1..Len(rest) : rest[i] = parts[c][j]
       /\ \A i, j \in 1..Len(rest) : i < j => <<rest[i], rest[j]>> \in InOrder
    <2>1. Len(parts) > 0 /\ Len(parts) = n
        BY <1>2, <1>5
    <2>2. \A c \in 1..Len(parts) : \A i, j \in 1..Len(parts[c]) :
              i < j => <<parts[c][i], parts[c][j]>> \in InOrder
        BY <1>9, <2>1
    <2>3. \A a, b \in 1..Len(parts) : a < b =>
              \A i \in 1..Len(parts[a]), j \in 1..Len(parts[b]) : <<parts[a][i], parts[b][j]>> \in InOrder
        BY <1>10, <2>1
    <2>4. /\ rest \in Seq(Rows)
          /\ \A i \in 1..Len(rest) :
                \E c \in 1..Len(parts) : \E j \in 1..Len(parts[c]) : rest[i] = parts[c][j]
          /\ \A c \in 1..Len(parts) : \A j \in 1..Len(parts[c]) :
                \E i \in 1..Len(rest) : rest[i] = parts[c][j]
          /\ \A i, j \in 1..Len(rest) : i < j => <<rest[i], rest[j]>> \in InOrder
        BY <1>5, <2>1, <2>2, <2>3, FlattenedInOrder
    <2>5. QED BY <2>1, <2>4
<1> HIDE DEF rest
<1> DEFINE all == root \o rest
<1>12. /\ all \in Seq(Rows) /\ Len(rest) \in Nat /\ Len(all) = Len(rest) + 1
       /\ all[1] = Row(k, level)
       /\ \A i \in 1..Len(rest) : i + 1 \in 1..Len(all) /\ all[i + 1] = rest[i]
    BY <1>11 DEF Row, Rows
<1>13. \A i \in 1..Len(all) : i = 1 \/ (i - 1 \in 1..Len(rest) /\ all[i] = rest[i - 1])
    BY <1>12
<1> HIDE DEF all, root
<1>14. ASSUME NEW i \in 1..Len(rest)
       PROVE  rest[i] \in Rows /\ rest[i].snap \in Below(k) /\ k \in Ancestors[rest[i].snap]
    <2>1. PICK c \in 1..n : \E j \in 1..Len(parts[c]) : rest[i] = parts[c][j]
        BY <1>11
    <2>2. c \in Children(k) \ null /\ rest[i] \in Rows /\ rest[i].snap \in Below(c)
        BY <1>8, <2>1
    <2>3. QED BY <2>2, BelowAChild
<1>15. Row(k, level) \in Rows /\ Row(k, level).snap = k
    BY DEF Row, Rows
<1>16. ASSUME NEW i \in 1..Len(all) PROVE all[i].snap \in Below(k)
    BY <1>12, <1>13, <1>14, <1>15, BelowASnapshot
<1>17. ASSUME NEW x \in Below(k) PROVE \E i \in 1..Len(all) : all[i].snap = x
    <2>1. CASE x = k
        BY <1>12, <1>15, <2>1
    <2>2. CASE x # k
        <3>1. PICK c \in Children(k) \ null : x \in Below(c)
            BY <2>2, BelowASnapshot
        <3>2. c \in 1..n /\ Enumerates(parts[c], c)
            BY <1>1, <1>6, <1>7
        <3>3. PICK j \in 1..Len(parts[c]) : parts[c][j].snap = x
            BY <1>1, <1>4, <3>1, <3>2 DEF Enumerates
        <3>4. PICK i \in 1..Len(rest) : rest[i] = parts[c][j]
            BY <1>11, <3>2
        <3>5. QED BY <1>12, <3>3, <3>4
    <2>3. QED BY <2>1, <2>2
<1>18. ASSUME NEW i \in 1..Len(all), NEW j \in 1..Len(all), i < j
       PROVE  <<all[i], all[j]>> \in InOrder
    <2>1. j - 1 \in 1..Len(rest) /\ all[j] = rest[j - 1]
        BY <1>12, <1>13, <1>18
    <2>2. CASE i = 1
        <3>1. Before(k, all[j].snap) /\ all[j] \in Rows
            BY <1>14, <2>1 DEF Before
        <3>2. all[i] = Row(k, level)
            BY <1>12, <2>2
        <3>3. QED BY <1>15, <3>1, <3>2 DEF InOrder
    <2>3. CASE i # 1
        <3>1. i - 1 \in 1..Len(rest) /\ all[i] = rest[i - 1] /\ i - 1 < j - 1
            BY <1>12, <1>13, <1>18, <2>3
        <3>2. QED BY <1>11, <2>1, <3>1
    <2>4. QED BY <2>2, <2>3
<1>19. DOMAIN all = 1..Len(all)
    BY <1>12
<1>20. {all[i].snap : i \in DOMAIN all} = Below(k)
    BY <1>16, <1>17, <1>19
<1>21. Enumerates(all, k)
    BY <1>12, <1>18, <1>19, <1>20 DEF Enumerates
<1>22. QED BY <1>3, <1>21 DEF all

(* From the youngest snapshots up to the root.                             *)
LEMMA ShowSnapshotsEnumerates ==
    ASSUME IsTree, nodes # {}
    PROVE  Enumerates(ShowSnapshots, 1)
<1>1. PICK show : show = [k \in nodes |-> Listing(show, k)] /\ ShowSnapshots = show[1][0]
    BY ShowSnapshotsIsDefined
<1>2. PICK n \in Nat : nodes = 1..n
    BY DEF IsTree
<1> DEFINE Good == {m \in Nat : \A k \in nodes : k > n - m => \A level \in Nat : Enumerates(show[k][level], k)}
<1>3. \A m \in Nat : m \in Good
    <2>1. 0 \in Good
        BY <1>2
    <2>2. ASSUME NEW m \in Nat, m \in Good PROVE m + 1 \in Good
        <3>1. SUFFICES ASSUME NEW k \in nodes, k > n - (m + 1), NEW level \in Nat
                       PROVE  Enumerates(show[k][level], k)
            BY <2>2
        <3>2. ASSUME NEW c \in Children(k) \ null PROVE Enumerates(show[c][level + 1], c)
            <4>1. c \in nodes /\ k < c
                BY BelowAChild
            <4>2. c > n - m /\ level + 1 \in Nat
                BY <1>2, <3>1, <4>1
            <4>3. QED BY <2>2, <4>1, <4>2
        <3>3. show[k] = Listing(show, k)
            BY <1>1
        <3>4. QED BY <3>2, <3>3, ListingIsInOrder
    <2> HIDE DEF Good
    <2>3. QED BY <2>1, <2>2, NaturalsAreReached
<1>4. 1 \in nodes /\ 1 > n - n
    BY <1>2
<1>5. n \in Good
    BY <1>3
<1>6. Enumerates(show[1][0], 1)
    BY <1>4, <1>5
<1>7. QED BY <1>1, <1>6

-----------------------------------------------------------------------------
(* The invariant: the tree is one, and what is listed is its listing.      *)
TreeInv ==
    /\ IsTree
    /\ listed /\ answers /\ nodes # {} => Enumerates(rows, 1)
    /\ listed /\ ~(answers /\ nodes # {}) => rows = << >>

LEMMA TreeStays ==
    ASSUME UNCHANGED tree
    PROVE  /\ IsTree' = IsTree
           /\ \A s : Enumerates(s, 1)' = Enumerates(s, 1)
<1>1. Ancestors' = Ancestors
    BY DEF Ancestors, tree
<1>2. \A k : Below(k)' = Below(k)
    BY <1>1 DEF Below, Upward, tree
<1>3. InOrder' = InOrder /\ Rows' = Rows
    BY <1>1 DEF InOrder, Rows, Before, tree
<1>4. QED BY <1>2, <1>3 DEF Enumerates, IsTree, tree

LEMMA TreeInvAlways == TreeSpec => []TreeInv
<1>1. TreeInit => TreeInv
    BY TreeAssumption DEF TreeInit, TreeInv, IsTree
<1>2. TreeInv /\ [TreeNext]_treeVars => TreeInv'
    <2>1. ASSUME TreeInv, ListSnapshots PROVE TreeInv'
        <3>1. IsTree' /\ UNCHANGED tree
            BY <2>1, TreeStays DEF TreeInv, ListSnapshots
        <3>2. answers /\ nodes # {} => Enumerates(rows', 1)
            BY <2>1, ShowSnapshotsEnumerates DEF TreeInv, ListSnapshots
        <3>3. answers' = answers /\ nodes' = nodes
            BY <3>1 DEF tree
        <3>4. ~(answers /\ nodes # {}) => rows' = << >>
            BY <2>1 DEF ListSnapshots
        <3> DEFINE s == rows'
        <3> HIDE DEF s
        <3>5. Enumerates(s, 1) => Enumerates(rows, 1)'
            BY <3>1, TreeStays DEF s
        <3>6. QED BY <3>1, <3>2, <3>3, <3>4, <3>5 DEF TreeInv, s
    <2>2. ASSUME TreeInv, UNCHANGED treeVars PROVE TreeInv'
        <3>1. UNCHANGED tree /\ listed' = listed /\ rows' = rows
            BY <2>2 DEF treeVars
        <3>2. \A s : Enumerates(s, 1)' = Enumerates(s, 1)
            BY <3>1, TreeStays
        <3>3. IsTree'
            BY <2>2, <3>1, TreeStays DEF TreeInv
        <3>4. answers' = answers /\ nodes' = nodes
            BY <3>1 DEF tree
        <3>5. QED BY <2>2, <3>1, <3>2, <3>3, <3>4 DEF TreeInv
    <2>3. QED BY <2>1, <2>2 DEF TreeNext
<1>3. QED BY <1>1, <1>2, PTL DEF TreeSpec

(* Every snapshot that can be reached is listed once, and no other.        *)
THEOREM ListingIsComplete == TreeSpec => []EveryoneOnce
<1>1. ASSUME TreeInv PROVE EveryoneOnce
    <2>1. SUFFICES ASSUME Listed, nodes # {}
                   PROVE  /\ {rows[i].snap : i \in DOMAIN rows} = Seen
                          /\ Len(rows) = Cardinality(Seen)
        BY DEF EveryoneOnce
    <2>2. IsTree /\ Enumerates(rows, 1)
        BY <1>1, <2>1 DEF TreeInv, Listed
    <2>3. /\ rows \in Seq(Rows) /\ DOMAIN rows = 1..Len(rows) /\ Len(rows) \in Nat
          /\ {rows[i].snap : i \in DOMAIN rows} = Seen
          /\ \A i, j \in 1..Len(rows) : i < j => Before(rows[i].snap, rows[j].snap)
        <3>1. rows \in Seq(Rows) /\ {rows[i].snap : i \in DOMAIN rows} = Seen
            BY <2>1, <2>2, BelowTheRoot DEF Enumerates
        <3>2. DOMAIN rows = 1..Len(rows) /\ Len(rows) \in Nat
            BY <3>1
        <3>3. \A i, j \in DOMAIN rows : i < j => <<rows[i], rows[j]>> \in InOrder
            BY <2>2 DEF Enumerates
        <3>4. QED BY <3>1, <3>2, <3>3 DEF InOrder
    <2> DEFINE snap == [i \in 1..Len(rows) |-> rows[i].snap]
    <2>4. \A i \in 1..Len(rows) : rows[i].snap \in nodes /\ rows[i].snap \in Seen
        <3>1. \A i \in 1..Len(rows) : rows[i].snap \in Seen
            BY <2>3
        <3>2. QED BY <3>1 DEF Seen
    <2>5. \A i, j \in 1..Len(rows) : rows[i].snap = rows[j].snap => i = j
        <3>1. SUFFICES ASSUME NEW i \in 1..Len(rows), NEW j \in 1..Len(rows), i # j
                       PROVE  rows[i].snap # rows[j].snap
            OBVIOUS
        <3>2. i < j \/ j < i
            BY <2>3, <3>1
        <3>3. Before(rows[i].snap, rows[j].snap) \/ Before(rows[j].snap, rows[i].snap)
            BY <2>3, <3>2
        <3>4. QED BY <2>2, <2>4, <3>3, NotBeforeItself
    <2>6. snap \in [1..Len(rows) -> Seen] /\ (\A a, b \in 1..Len(rows) : snap[a] = snap[b] => a = b)
        BY <2>4, <2>5
    <2>7. \A x \in Seen : \E i \in 1..Len(rows) : snap[i] = x
        BY <2>3
    <2> HIDE DEF snap
    <2>8. snap \in Bijection(1..Len(rows), Seen)
        BY <2>6, <2>7, Fun_IsBij
    <2>9. ExistsBijection(1..Len(rows), Seen)
        BY <2>8 DEF ExistsBijection
    <2>10. QED BY <2>3, <2>9, FS_CountingElements
<1>2. QED BY <1>1, TreeInvAlways, PTL

(* A snapshot stands before all that were taken from it, and branches are  *)
(* not mixed.                                                              *)
THEOREM ListingFollowsTheTree == TreeSpec => []BranchesStayTogether
<1>1. ASSUME TreeInv PROVE BranchesStayTogether
    <2>1. CASE listed /\ answers /\ nodes # {}
        BY <1>1, <2>1 DEF TreeInv, Enumerates, InOrder, BranchesStayTogether
    <2>2. CASE ~(listed /\ answers /\ nodes # {})
        BY <1>1, <2>2 DEF TreeInv, BranchesStayTogether, Listed
    <2>3. QED BY <2>1, <2>2
<1>2. QED BY <1>1, TreeInvAlways, PTL
=============================================================================
