-------------------------- MODULE ControllerClient --------------------------
(***************************************************************************)
(* The connection of a controller to the server                            *)
(* (src/controller/shadow_client_backend/client.cpp): connecting, retrying *)
(* on a timer, the chain of reads, the writes that buttons start, and the  *)
(* reset that any of them may cause.                                       *)
(*                                                                         *)
(* One thread runs io_service.  An asynchronous operation is outstanding   *)
(* until the system completes it; its handler then waits in a FIFO queue.  *)
(* Closing the socket completes every operation on it with an error, but   *)
(* cannot call back a handler that is queued already with success: such a  *)
(* handler runs after the reset and does not know of it.                   *)
(***************************************************************************)
EXTENDS Naturals, Sequences, SequencesExt

CONSTANT
    MaxWrites       \* bound: writes outstanding or queued at once

ASSUME ControllerClientAssumption == MaxWrites \in Nat

VARIABLES
    attempting_connection, timer_fired, connected,  \* the flags of Client
    socket_open,    \* socket.is_open()
    connect_op,     \* an async_connect is outstanding
    timer_op,       \* an async_wait is outstanding
    read_op,        \* the outstanding async_read: "none", "header" or "data"
    write_ops,      \* number of outstanding async_writes
    ready,          \* completed operations whose handlers are queued
    shown,          \* what the callbacks told the user interface last
    overtaken       \* history: the timer's second has ended before the handlers
                    \* in front of it had run: the loop was late by a second

flags == <<attempting_connection, timer_fired, connected>>
ops == <<connect_op, timer_op, read_op, write_ops>>
vars == <<flags, socket_open, ops, ready, shown, overtaken>>

Completion == [op : {"connect", "timer", "header", "data", "write"}, ok : BOOLEAN]
Completed(op, ok) == [op |-> op, ok |-> ok]

Disconnected == [connection |-> FALSE, control |-> FALSE]

Queued(S) == {k \in DOMAIN ready : ready[k].op \in S}

TypeOK ==
    /\ attempting_connection \in BOOLEAN
    /\ timer_fired \in BOOLEAN
    /\ connected \in BOOLEAN
    /\ socket_open \in BOOLEAN
    /\ connect_op \in BOOLEAN
    /\ timer_op \in BOOLEAN
    /\ read_op \in {"none", "header", "data"}
    /\ write_ops \in 0..MaxWrites
    /\ ready \in Seq(Completion)
    /\ shown \in [connection : BOOLEAN, control : BOOLEAN]
    /\ overtaken \in BOOLEAN

(* The constructor calls start_async_connect.                              *)
Init ==
    /\ attempting_connection = TRUE
    /\ timer_fired = FALSE
    /\ connected = FALSE
    /\ socket_open = TRUE
    /\ connect_op = TRUE
    /\ timer_op = FALSE
    /\ read_op = "none"
    /\ write_ops = 0
    /\ ready = << >>
    /\ shown = Disconnected
    /\ overtaken = FALSE

-----------------------------------------------------------------------------
(* What handlers are made of.                                              *)

(* The handler of a completed operation of kind op runs, with result ok.   *)
Runs(op, ok) == ready # << >> /\ Head(ready) = Completed(op, ok)

StartAsyncConnect ==
    /\ attempting_connection' = TRUE
    /\ connect_op' = TRUE
    /\ socket_open' = TRUE

(* Broken variant of StartConnect: the timer may be armed a second time.   *)
StartConnectUnguarded(isConnected, isAttempting) ==
    LET arm == ~isAttempting /\ ~isConnected IN
    /\ timer_fired' = (timer_fired \/ arm)
    /\ timer_op' = (timer_op \/ arm)

(* start_connect, called when connected and attempting_connection have the *)
(* values given: the timer is armed unless it is armed already.            *)
StartConnect(isConnected, isAttempting) ==
    LET arm == ~timer_fired /\ ~isAttempting /\ ~isConnected IN
    /\ timer_fired' = (timer_fired \/ arm)
    /\ timer_op' = (timer_op \/ arm)

(* What closing the socket makes of the outstanding operations.            *)
Aborted ==
      (IF connect_op THEN <<Completed("connect", FALSE)>> ELSE << >>)
   \o (IF read_op # "none" THEN <<Completed(read_op, FALSE)>> ELSE << >>)
   \o [k \in 1..write_ops |-> Completed("write", FALSE)]

(* Broken variant of Reset: it leaves reconnecting to the timer, should    *)
(* one be running.                                                         *)
ResetWithoutRetry ==
    /\ ready' = Tail(ready) \o Aborted
    /\ socket_open' = FALSE
    /\ connect_op' = FALSE
    /\ read_op' = "none"
    /\ write_ops' = 0
    /\ shown' = Disconnected
    /\ connected' = FALSE
    /\ UNCHANGED <<attempting_connection, timer_fired, timer_op>>

(* Broken variant of Reset: the operations on the socket are not aborted.  *)
ResetWithoutClose ==
    /\ ready' = Tail(ready)
    /\ socket_open' = FALSE
    /\ shown' = Disconnected
    /\ connected' = FALSE
    /\ StartConnect(FALSE, attempting_connection)
    /\ UNCHANGED <<attempting_connection, connect_op, read_op, write_ops>>

(* Broken variant of Reset: only the connection is shown as lost.          *)
ResetKeepsControl ==
    /\ ready' = Tail(ready) \o Aborted
    /\ socket_open' = FALSE
    /\ connect_op' = FALSE
    /\ read_op' = "none"
    /\ write_ops' = 0
    /\ shown' = [shown EXCEPT !.connection = FALSE]
    /\ connected' = FALSE
    /\ StartConnect(FALSE, attempting_connection)
    /\ UNCHANGED attempting_connection

(* reset, called by the handler at the head of the queue.                  *)
Reset ==
    /\ ready' = Tail(ready) \o Aborted
    /\ socket_open' = FALSE
    /\ connect_op' = FALSE
    /\ read_op' = "none"
    /\ write_ops' = 0
    /\ shown' = Disconnected
    /\ connected' = FALSE
    /\ StartConnect(FALSE, attempting_connection)
    /\ UNCHANGED attempting_connection

-----------------------------------------------------------------------------
(* The handlers.                                                           *)

(* start_read, called by the handler at the head of the queue: on a socket *)
(* that is closed the operation completes at once with an error.           *)
StartRead ==
    IF socket_open
    THEN read_op' = "header" /\ ready' = Tail(ready)
    ELSE read_op' = read_op /\ ready' = Append(Tail(ready), Completed("header", FALSE))

HandleConnected ==
    /\ Runs("connect", TRUE)
    /\ attempting_connection' = FALSE
    /\ connected' = TRUE
    /\ shown' = [shown EXCEPT !.connection = TRUE]
    /\ StartRead
    /\ UNCHANGED <<timer_fired, socket_open, connect_op, timer_op, write_ops>>

HandleConnectFailed ==
    /\ Runs("connect", FALSE)
    /\ ready' = Tail(ready)
    /\ attempting_connection' = FALSE
    /\ StartConnect(connected, FALSE)
    /\ UNCHANGED <<connected, socket_open, connect_op, read_op, write_ops, shown>>

(* Broken variant of HandleTimer: the test for a cancelled timer is upside *)
(* down, and the timer is armed again.                                     *)
HandleTimerRearms ==
    /\ Runs("timer", TRUE)
    /\ ready' = Tail(ready)
    /\ timer_fired' = ~connected
    /\ timer_op' = ~connected
    /\ UNCHANGED <<attempting_connection, connected, socket_open, connect_op,
                   read_op, write_ops, shown>>

HandleTimer ==
    /\ Runs("timer", TRUE)
    /\ ready' = Tail(ready)
    /\ timer_fired' = FALSE
    /\ IF connected THEN UNCHANGED <<attempting_connection, connect_op, socket_open>> ELSE StartAsyncConnect
    /\ UNCHANGED <<connected, timer_op, read_op, write_ops, shown>>

HandleHeader ==
    /\ Runs("header", TRUE)
    /\ connected
    /\ ready' = Tail(ready)
    /\ read_op' = "data"
    /\ UNCHANGED <<flags, socket_open, connect_op, timer_op, write_ops, shown>>

(* A whole message was read.  A MAIN_STATUS is shown, whether or not the   *)
(* connection it came on still exists; other messages concern other parts  *)
(* of the display.                                                         *)
HandleData ==
    /\ Runs("data", TRUE)
    /\ \/ \E control \in BOOLEAN : shown' = [shown EXCEPT !.control = control]
       \/ UNCHANGED shown
    /\ StartRead
    /\ UNCHANGED <<flags, socket_open, connect_op, timer_op, write_ops>>

(* The message is of an unknown kind or does not add up.                   *)
HandleBadData == Runs("data", TRUE) /\ Reset

(* A read failed, or ended well after the connection was given up.         *)
HandleReadFailed ==
    /\ \/ Runs("header", FALSE)
       \/ Runs("header", TRUE) /\ ~connected
       \/ Runs("data", FALSE)
    /\ Reset

HandleWritten ==
    /\ Runs("write", TRUE)
    /\ ready' = Tail(ready)
    /\ UNCHANGED <<flags, socket_open, ops, shown>>

HandleWriteFailed == Runs("write", FALSE) /\ Reset

Handle ==
    /\ \/ HandleConnected \/ HandleConnectFailed \/ HandleTimer
       \/ HandleHeader \/ HandleData \/ HandleBadData \/ HandleReadFailed
       \/ HandleWritten \/ HandleWriteFailed
    /\ UNCHANGED overtaken

(* A button (start_simulation, stop_simulation, start_simics,              *)
(* pause_simics, take_control), posted to io_service: the command is       *)
(* written if there is a connection and dropped if there is none.          *)
(* start_simulation writes twice.                                          *)
SendCommand ==
    /\ socket_open
    /\ connected
    /\ \E writes \in {1, 2} :
          /\ write_ops + Cardinality(Queued({"write"})) + writes <= MaxWrites
          /\ write_ops' = write_ops + writes
    /\ UNCHANGED <<flags, socket_open, connect_op, timer_op, read_op, ready, shown, overtaken>>

-----------------------------------------------------------------------------
(* The system completes operations.                                        *)

Complete(op, ok) ==
    /\ ready' = Append(ready, Completed(op, ok))
    /\ UNCHANGED <<flags, socket_open, shown>>

ConnectDone(ok) ==
    /\ connect_op
    /\ connect_op' = FALSE
    /\ Complete("connect", ok)
    /\ UNCHANGED <<timer_op, read_op, write_ops, overtaken>>

(* The timer is never cancelled: its handler always runs with success.     *)
TimerDone ==
    /\ timer_op
    /\ timer_op' = FALSE
    /\ overtaken' = (overtaken \/ ready # << >>)
    /\ Complete("timer", TRUE)
    /\ UNCHANGED <<connect_op, read_op, write_ops>>

ReadDone(ok) ==
    /\ read_op # "none"
    /\ read_op' = "none"
    /\ Complete(read_op, ok)
    /\ UNCHANGED <<connect_op, timer_op, write_ops, overtaken>>

WriteDone(ok) ==
    /\ write_ops > 0
    /\ write_ops' = write_ops - 1
    /\ Complete("write", ok)
    /\ UNCHANGED <<connect_op, timer_op, read_op, overtaken>>

Next ==
    \/ Handle
    \/ SendCommand
    \/ TimerDone
    \/ \E ok \in BOOLEAN : ConnectDone(ok) \/ ReadDone(ok) \/ WriteDone(ok)

(* io_service.run() runs queued handlers; timers expire and connection     *)
(* attempts end.  The last conjunct is the assumption that the server can  *)
(* be reached: if attempts never cease, some succeed.                      *)
Fairness ==
    /\ WF_vars(Handle)
    /\ WF_vars(TimerDone)
    /\ WF_vars(\E ok \in BOOLEAN : ConnectDone(ok))
    /\ SF_vars(ConnectDone(TRUE))

Spec == Init /\ [][Next]_vars /\ Fairness

-----------------------------------------------------------------------------
(* Safety.                                                                 *)

Number(b) == IF b THEN 1 ELSE 0

(* "prevents this from getting called multiple times": there is never more *)
(* than one attempt to connect, one timer or one read in the air, counting *)
(* the handlers that are queued, and the flags say so.  start_async_connect *)
(* has no guard of its own, and several handlers may reset in a row.       *)
OneOfEach ==
    /\ Number(connect_op) + Cardinality(Queued({"connect"})) = Number(attempting_connection)
    /\ Number(timer_op) + Cardinality(Queued({"timer"})) = Number(timer_fired)
    /\ Number(read_op # "none") + Cardinality(Queued({"header", "data"})) <= 1

(* The client is never stranded: with a connection, a read is in the air   *)
(* that will notice its end; without one, an attempt or the timer is, and  *)
(* never both.                                                             *)
NeverStranded ==
    IF connected
    THEN (read_op # "none" \/ Queued({"header", "data"}) # {}) /\ ~attempting_connection
    ELSE attempting_connection # timer_fired

(* No handler of a connection lives to see the next one, as long as the    *)
(* loop has never been a second late: when an attempt is made, nothing of  *)
(* the connection before is outstanding or queued, so a late error cannot  *)
(* reset the new connection and a late message cannot be taken for one of  *)
(* its own.  (Of a late loop it is false: the read that HandleData starts  *)
(* on a closed socket fails behind an expired timer, and resets the        *)
(* attempt.  The other properties show that the client recovers from it.)  *)
ConnectionsDoNotMix ==
    attempting_connection /\ ~overtaken =>
        /\ read_op = "none" /\ write_ops = 0
        /\ Queued({"header", "data", "write"}) = {}

(* A status that is shown without a connection, because the message was    *)
(* already queued when a failed write closed the socket, is withdrawn by a *)
(* failed read that is queued behind it.                                   *)
StaleStatusIsWithdrawn ==
    ~connected /\ shown # Disconnected => \E k \in Queued({"header", "data"}) : ~ready[k].ok

(* Liveness: while the server can be reached the controller always gets    *)
(* back to it, however often the connection is lost.                       *)
Reconnects == []<>connected
=============================================================================
