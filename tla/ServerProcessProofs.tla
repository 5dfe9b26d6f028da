------------------------- MODULE ServerProcessProofs -------------------------
(***************************************************************************)
(* Theorems about the life of the server process, for any number of        *)
(* clients, processes and posted functions.  Why it never returns from     *)
(* main, which the run server_process finds out by an example, is a        *)
(* circle: main waits for the other thread, which waits to be stopped,     *)
(* which only main does, after it has waited.  NoWayOut says that no step  *)
(* enters the circle from outside.                                         *)
(***************************************************************************)
EXTENDS ServerProcess, TLAPS

(* Nobody stops vm_service before the other thread is done, and the other  *)
(* thread is not done before somebody stops vm_service.                    *)
NoWayOut == ~stopped /\ vm # "done"

Inv ==
    /\ TypeOK
    /\ accepting \in BOOLEAN
    /\ NobodyIsDropped
    /\ NeverReturns
    /\ NoWayOut

LEMMA InitInv == Init => Inv
<1> SUFFICES ASSUME Init PROVE Inv
  OBVIOUS
<1>1. /\ main = "parsing" /\ vm = "none" /\ stopped = FALSE /\ accepting = FALSE
      /\ waiting = {} /\ sessions = {} /\ apps = 0 /\ posts = 0
  BY Zenon DEF Init
<1>2. QED
  BY <1>1 DEF Inv, TypeOK, NobodyIsDropped, NeverReturns, NoWayOut

(* A handler that leaves the rest of the invariant alone may end run():    *)
(* main leaves it with nothing outstanding.                                *)
LEMMA RunOnKeeps ==
  ASSUME Serving, RunOn, apps' \in Nat, accepting' \in BOOLEAN, NoWayOut
  PROVE  /\ main' \in {"serving", "joining"}
         /\ stopped' = stopped
         /\ NobodyIsDropped'
<1>1. CASE Outstanding'
  BY <1>1 DEF RunOn, NobodyIsDropped
<1>2. CASE ~Outstanding'
  <2>1. ~accepting' /\ sessions' = {} /\ ~(apps' > 0)
    BY <1>2 DEF Outstanding
  <2>2. apps' = 0
    BY <2>1
  <2>3. QED
    BY <1>2, <2>1, <2>2 DEF RunOn, NobodyIsDropped
<1>3. QED
  BY <1>1, <1>2

LEMMA StepInv == Inv /\ [Next]_vars => Inv'
<1> SUFFICES ASSUME Inv, [Next]_vars PROVE Inv'
  OBVIOUS
<1> USE DEF Inv, TypeOK, NoWayOut, NeverReturns
<1>0. CASE Prepare \/ EndEarly \/ Construct
  <2>1. CASE Prepare
    BY <2>1 DEF Prepare, processVars, NobodyIsDropped
  <2>2. CASE EndEarly
    BY <2>2 DEF EndEarly, NobodyIsDropped
  <2>3. CASE Construct
    BY <2>3 DEF Construct, NobodyIsDropped
  <2>4. QED
    BY <1>0, <2>1, <2>2, <2>3
<1>1. ASSUME NEW c \in Clients, Connect(c) \/ GiveUp(c) PROVE Inv'
  BY <1>1 DEF Connect, GiveUp, NobodyIsDropped
<1>2. ASSUME NEW c \in Clients, Accept(c) \/ SessionEnds(c) PROVE Inv'
  <2>1. Serving /\ RunOn /\ apps' = apps /\ accepting' = accepting /\ vm' = vm /\ posts' = posts
    BY <1>2 DEF Accept, SessionEnds
  <2>2. main' \in {"serving", "joining"} /\ stopped' = stopped /\ NobodyIsDropped'
    BY <2>1, RunOnKeeps
  <2>3. waiting' \cap sessions' = {}
    BY <1>2 DEF Accept, SessionEnds
  <2>4. QED
    BY <2>1, <2>2, <2>3
<1>3. CASE AcceptError \/ StartProcess \/ ProcessExit \/ RunPosted
  <2>1. Serving /\ RunOn /\ vm' = vm /\ waiting' = waiting /\ sessions' = sessions
    BY <1>3 DEF AcceptError, StartProcess, ProcessExit, RunPosted
  <2>2. apps' \in Nat /\ posts' \in Nat /\ accepting' \in BOOLEAN
    <3>1. CASE AcceptError
      BY <3>1 DEF AcceptError
    <3>2. CASE StartProcess
      BY <3>2 DEF StartProcess
    <3>3. CASE ProcessExit
      BY <3>3 DEF ProcessExit
    <3>4. CASE RunPosted
      BY <3>4 DEF RunPosted
    <3>5. QED
      BY <1>3, <3>1, <3>2, <3>3, <3>4
  <2>3. main' \in {"serving", "joining"} /\ stopped' = stopped /\ NobodyIsDropped'
    BY <2>1, <2>2, RunOnKeeps
  <2>4. QED
    BY <2>1, <2>2, <2>3
<1>4. CASE Join
  BY <1>4 DEF Join, NobodyIsDropped
<1>5. CASE SetUp
  BY <1>5 DEF SetUp, NobodyIsDropped
<1>6. CASE Poll
  BY <1>6 DEF Poll, NobodyIsDropped
<1>7. CASE UNCHANGED vars
  BY <1>7 DEF vars, processVars, NobodyIsDropped
<1>8. QED
  BY <1>0, <1>1, <1>2, <1>3, <1>4, <1>5, <1>6, <1>7 DEF Next, Live

(* The type invariant and the circle hold in every reachable state.        *)
THEOREM AlwaysInv == Spec => []Inv
  BY InitInv, StepInv, PTL DEF Spec

(* The type invariant of ServerProcess, without any bound.                 *)
THEOREM TypeCorrect == Spec => []TypeOK
<1>1. Inv => TypeOK
  BY DEF Inv
<1>2. QED
  BY AlwaysInv, <1>1, PTL

(* main leaves io_service.run() only when there is no session left, nobody *)
(* can be accepted and no process is waited for.                           *)
THEOREM ServesToTheLast == Spec => []NobodyIsDropped
<1>1. Inv => NobodyIsDropped
  BY DEF Inv
<1>2. QED
  BY AlwaysInv, <1>1, PTL

(* ~Shadow never gets past its join(): main does not return.               *)
THEOREM DestructorHangs == Spec => []NeverReturns
<1>1. Inv => NeverReturns
  BY DEF Inv
<1>2. QED
  BY AlwaysInv, <1>1, PTL
=============================================================================
